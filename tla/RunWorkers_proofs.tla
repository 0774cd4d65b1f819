------------------------- MODULE RunWorkers_proofs --------------------------
(***************************************************************************)
(* What the workers of a run leave behind, for every number of instances,  *)
(* nodes and clusters and whenever a step fails or a worker is killed: a   *)
(* ledger without double entries, records that name everything created,    *)
(* no cluster without its Rancher, and a setup that is complete.           *)
(***************************************************************************)
EXTENDS RunWorkers, SequenceTheorems, TLAPS

Tracks(h) == {SetupPath(h), DeletePath, ProvisionPath, DeletePath \o ProvisionPath}
Thread(h) == [path : Tracks(h), at : Nat, state : {"run", "ok", "failed"}]
Worker == [kind : {"none", "setup", "provision", "delete", "cleanup"},
           step : {"none", "apply", "instances", "destroy", "local", "ledger"}, cost : SUBSET All]

-----------------------------------------------------------------------------
(* Which worker runs, what its goroutines do, and what exists and is paid. *)

\* A goroutine is at a step of its path, and at the last one when it is done.
ThreadInv(h) ==
  \/ thread[h] = Idle
  \/ /\ thread[h] \in Thread(h) /\ thread[h].at >= 1 /\ thread[h].at <= Len(thread[h].path)
     /\ thread[h].state = "ok" => thread[h].at = Len(thread[h].path)
     /\ thread[h].path = SetupPath(h) =>
          worker.kind = "setup" /\ mode # "linode-docker-cattle" /\ h \in Instances(mode)
     /\ thread[h].path # SetupPath(h) =>
          worker.kind # "setup" /\ mode = "ha-rke2" /\ h \in HAs
     /\ thread[h].path \in {ProvisionPath, DeletePath \o ProvisionPath} =>
          worker.kind = "provision"

Quiet == \A h \in All : thread[h] = Idle /\ joining[h] = {}

WorkerInv ==
  /\ worker.kind = "none" => Quiet
  /\ worker.kind = "setup" =>
       /\ setup = "tried" /\ worker.step \in {"apply", "instances"}
       /\ worker.step = "apply" => Quiet /\ infra = {} /\ \A h \in All : billed[h] = 0
       /\ worker.step = "instances" => infra = Instances(mode)
  /\ worker.kind = "provision" => setup = "ok" /\ mode = "ha-rke2" /\ worker.step = "instances"
  /\ worker.kind = "delete" => worker.step = "instances"
  /\ worker.kind = "cleanup" =>
       /\ worker.step \in {"instances", "destroy", "local", "ledger"}
       /\ worker.step # "instances" => setup = "tried" /\ \A h \in All : thread[h] = Idle

\* What is paid for no longer exists, what a cleanup is to pay for was not paid.
LedgerInv ==
  /\ \A h \in All : billed[h] \in {0, 1} /\ (billed[h] = 1 => h \notin infra)
  /\ setup = "none" => infra = {} /\ \A h \in All : billed[h] = 0
  /\ setup = "ok" => infra = Instances(mode)
  /\ worker.kind = "cleanup" /\ worker.step # "instances" =>
       /\ \A h \in worker.cost : billed[h] = 0
       /\ worker.step # "destroy" => infra = {}

ControlInv ==
  /\ mode \in Modes /\ worker \in Worker /\ (worker.kind = "none" <=> worker = NoWorker)
  /\ setup \in {"none", "tried", "ok"} /\ infra \subseteq All
  /\ thread = [h \in All |-> thread[h]]
  /\ joining \in [All -> SUBSET Joiners] /\ joinErr \in [All -> BOOLEAN]
  /\ billed \in [All -> Nat]
  /\ \A h \in All : ThreadInv(h) /\ (joining[h] # {} => worker.kind = "setup")
  /\ mode # "ha-rke2" => record = [h \in HAs |-> NoRecord]
  /\ WorkerInv /\ LedgerInv

-----------------------------------------------------------------------------
(* What exists downstream, and what the record says of it.                 *)

Clouds == {"absent", "creating", "active", "deleting"}
CloudTypes ==
  /\ record \in [HAs -> Recordable \cup {NoRecord}]
  /\ artifacts \in [HAs -> SUBSET {"kubeconfig", "env"}]
  /\ objects \in [HAs -> SUBSET ({"secret", "config"} \X Names)]
  /\ clusters \in [HAs -> [Names -> Clouds]]
  /\ drawn \in [HAs -> 0..MaxClusters]

Deleting == {"mark", "drop", "gone", "dropConfig", "dropSecret", "artifacts", "unrecord"}
NoCluster(h) == \A n \in Names : clusters[h][n] = "absent"
NoObject(h, kind) == \A n \in Names : <<kind, n>> \notin objects[h]

\* What a goroutine that provisions or deletes knows at its step.
StepInv(h) == Running(h) =>
  /\ Step(h) \in Deleting =>
       /\ record[h] # NoRecord
       /\ thread[h].path # DeletePath => drawn[h] < MaxClusters
  /\ Step(h) \in {"dropConfig", "dropSecret", "artifacts", "unrecord"} => NoCluster(h)
  /\ Step(h) \in {"dropSecret", "artifacts", "unrecord"} => NoObject(h, "config")
  /\ Step(h) \in {"artifacts", "unrecord"} => NoObject(h, "secret")
  /\ Step(h) \in {"login", "plan"} => record[h] = NoRecord
  /\ Step(h) = "login" => drawn[h] < MaxClusters
  /\ Step(h) = "plan" => drawn[h] \in Names
  /\ Step(h) \in Noting => /\ record[h] # NoRecord /\ record[h].name = drawn[h]
                           /\ drawn[h] \in Names

\* A cleanup that goes on to destroy has deleted what was recorded.
DeletedInv(h) ==
  worker.kind = "cleanup" /\ (worker.step = "instances" => thread[h].state \in {"idle", "ok"})
    => record[h] = NoRecord

Exists(h, n) ==
  clusters[h][n] # "absent" \/ <<"secret", n>> \in objects[h] \/ <<"config", n>> \in objects[h]
NamedInv(h) == \A n \in Names : Exists(h, n) => record[h] # NoRecord /\ record[h].name = n

CloudInv ==
  /\ CloudTypes
  /\ \A h \in HAs : StepInv(h) /\ DeletedInv(h) /\ NamedInv(h) /\ (h \notin infra => NoCluster(h))

-----------------------------------------------------------------------------
(* What a setup has reached.                                               *)

NodeStates == {"bare", "configured", "installed", "active"}
SetupTypes ==
  /\ nodes \in [All -> [Joiners \cup {"first"} -> NodeStates]]
  /\ files \in [All -> SUBSET {"kubeconfig"}]
  /\ rancher \subseteq All
  /\ imports \in [created : SUBSET All, tokens : Seq(All), joined : [All -> All \cup {0}]]

\* The goroutine of h has done the first k steps of its path.
Done(h, k) == thread[h].at > k \/ (thread[h].at = k /\ thread[h].state = "ok")
IsActive(h, n) == nodes[h][n] = "active"
Untouched(h) == imports.joined[h] = 0 /\ \A n \in Joiners \cup {"first"} : ~IsActive(h, n)
Imported(h) == \E o \in Hosted : imports.joined[o] = h

NodesInv(h) ==
  /\ Done(h, 1) <=> IsActive(h, "first")
  /\ ~Done(h, 2) => joining[h] = {} /\ \A n \in Joiners : ~IsActive(h, n)
  /\ Done(h, 2) => \A n \in JoinersOf : IsActive(h, n) \/ n \in joining[h] \/ joinErr[h]
  /\ Done(h, 3) => \A n \in JoinersOf : IsActive(h, n)
  /\ \A n \in joining[h] : ~IsActive(h, n)

TenantInv(h) ==
  /\ Done(h, 8) => Imported(h)
  /\ ~Done(h, 5) => imports.joined[h] = 0
  /\ Done(h, 11) => h \in rancher /\ files[h] # {}

IsTenant(h) == mode = "hosted-tenant-k3s" /\ h # Host

ReachedInv(h) ==
  IF thread[h] = Idle THEN Untouched(h) /\ joining[h] = {}
  ELSE /\ NodesInv(h)
       /\ ~IsTenant(h) => (Done(h, 5) => h \in rancher /\ files[h] # {}) /\ imports.joined[h] = 0
       /\ IsTenant(h) => TenantInv(h)

ProgressInv ==
  /\ SetupTypes
  /\ setup = "none" => \A h \in All : Untouched(h)
  /\ worker.kind = "setup" => \A h \in All : ReachedInv(h)
  /\ SetupIsComplete

-----------------------------------------------------------------------------
(* The paths.                                                              *)

RenewPath == DeletePath \o ProvisionPath
Unplanned == {"login", "plan"}
SetupSteps == {"first", "token", "join", "save", "install", "stable", "import", "manifest",
               "apply", "active", "imported"}

\* The step after a step of a path that deletes, provisions or does both.
Follow == [mark |-> "drop", drop |-> "gone", gone |-> "dropConfig", dropConfig |-> "dropSecret",
           dropSecret |-> "artifacts", artifacts |-> "unrecord", unrecord |-> "login",
           login |-> "plan", plan |-> "secret", secret |-> "noteSecret", noteSecret |-> "config",
           config |-> "noteConfig", noteConfig |-> "cluster", cluster |-> "noteCluster",
           noteCluster |-> "await", await |-> "noteId", noteId |-> "kubeconfig",
           kubeconfig |-> "env", env |-> "noteActive"]

StepNames == SetupSteps \cup Deleting \cup Unplanned \cup Noting

LEMMA ConcatIs ==
  ASSUME NEW s \in Seq(StepNames), NEW t \in Seq(StepNames)
  PROVE  /\ Len(s \o t) = Len(s) + Len(t)
         /\ \A i \in 1..Len(s) : (s \o t)[i] = s[i]
         /\ \A i \in 1..Len(t) : (s \o t)[i + Len(s)] = t[i]
<1>1. /\ Len(s \o t) = Len(s) + Len(t)
      /\ \A i \in 1 .. Len(s) + Len(t) : (s \o t)[i] =
                     IF i <= Len(s) THEN s[i] ELSE t[i - Len(s)]
  BY ConcatProperties, Zenon
<1>2. Len(s) \in Nat /\ Len(t) \in Nat
  OBVIOUS
<1>3. ASSUME NEW i \in 1..Len(t)
      PROVE  (s \o t)[i + Len(s)] = t[i]
  <2>1. i + Len(s) \in 1..Len(s) + Len(t) /\ i + Len(s) > Len(s) /\ (i + Len(s)) - Len(s) = i
    BY <1>2
  <2> QED
    BY <1>1, <1>2, <2>1
<1> QED
  BY <1>1, <1>2, <1>3

LEMMA RenewIs ==
  /\ Len(DeletePath) = 7 /\ Len(ProvisionPath) = 13 /\ Len(RenewPath) = 20
  /\ \A i \in 1..7 : RenewPath[i] = DeletePath[i]
  /\ \A i \in 8..20 : RenewPath[i] = ProvisionPath[i - 7]
<1>1. DeletePath \in Seq(StepNames) /\ Len(DeletePath) = 7
  BY DEF DeletePath, StepNames, Deleting
<1>2. ProvisionPath \in Seq(StepNames) /\ Len(ProvisionPath) = 13
  BY DEF ProvisionPath, StepNames, Unplanned, Noting
<1>3. /\ Len(RenewPath) = Len(DeletePath) + Len(ProvisionPath)
      /\ \A i \in 1..Len(DeletePath) : RenewPath[i] = DeletePath[i]
      /\ \A i \in 1..Len(ProvisionPath) : RenewPath[i + Len(DeletePath)] = ProvisionPath[i]
  BY <1>1, <1>2, ConcatIs, Zenon DEF RenewPath
<1>4. ASSUME NEW i \in 8..20
      PROVE  RenewPath[i] = ProvisionPath[i - 7]
  <2>1. PICK j \in 1..13 : i = j + 7 /\ i - 7 = j
    OBVIOUS
  <2>2. \A k \in 1..13 : RenewPath[k + 7] = ProvisionPath[k]
    BY <1>1, <1>2, <1>3, Zenon
  <2>3. RenewPath[j + 7] = ProvisionPath[j]
    BY <2>2
  <2> QED
    BY <2>1, <2>3, Zenon
<1> QED
  BY <1>1, <1>2, <1>3, <1>4

LEMMA DeleteSteps ==
  \A i \in 1..7 :
    /\ DeletePath[i] \in Deleting /\ (i < 7 => DeletePath[i + 1] = Follow[DeletePath[i]])
    /\ i = 7 <=> DeletePath[i] = "unrecord"
BY DEF DeletePath, Deleting, Follow

LEMMA ProvisionSteps ==
  /\ ProvisionPath[1] = "login"
  /\ \A i \in 1..13 :
       /\ ProvisionPath[i] \in Unplanned \cup Noting
       /\ i < 13 => ProvisionPath[i + 1] = Follow[ProvisionPath[i]]
       /\ i = 13 <=> ProvisionPath[i] = "noteActive"
BY DEF ProvisionPath, Unplanned, Noting, Follow

LEMMA DownSteps ==
  ASSUME NEW p \in {DeletePath, ProvisionPath, RenewPath}, NEW i \in 1..Len(p)
  PROVE  /\ Len(p) \in Nat /\ p[i] \in Deleting \cup Unplanned \cup Noting
         /\ i < Len(p) => p[i + 1] = Follow[p[i]]
         /\ i = Len(p) => p[i] \in {"unrecord", "noteActive"}
         /\ p[i] = "noteActive" => i = Len(p)
         /\ p = DeletePath => p[i] \in Deleting /\ (p[i] = "unrecord" => i = Len(p))
         /\ p # DeletePath /\ p[i] \in Deleting => i < Len(p)
<1>1. CASE p = DeletePath
  BY <1>1, RenewIs, DeleteSteps DEF Deleting
<1>2. CASE p = ProvisionPath
  BY <1>2, RenewIs, ProvisionSteps DEF Deleting, Unplanned, Noting
<1>3. CASE p = RenewPath
  <2>1. CASE i \in 1..7
    BY <1>3, <2>1, RenewIs, DeleteSteps, ProvisionSteps DEF Deleting, Follow
  <2>2. CASE i \in 8..20
    <3>1. i - 7 \in 1..13 /\ (i < 20 => i + 1 \in 8..20 /\ (i + 1) - 7 = (i - 7) + 1)
      BY <2>2
    <3>2. p[i] = ProvisionPath[i - 7] /\ (i < 20 => p[i + 1] = ProvisionPath[(i - 7) + 1])
      BY <1>3, <2>2, <3>1, RenewIs
    <3> QED
      BY <1>3, <2>2, <3>1, <3>2, RenewIs, ProvisionSteps DEF Deleting, Unplanned, Noting
  <2> QED
    BY <1>3, <2>1, <2>2, RenewIs
<1> QED
  BY <1>1, <1>2, <1>3

\* Where the steps of a setup are in its path, by deployment and instance.
IsHA(p) == Len(p) = 5 /\ p[4] = "save" /\ p[5] = "install"
IsHost(p) == Len(p) = 6 /\ p[4] = "save" /\ p[5] = "install" /\ p[6] = "stable"
IsTenantPath(p) ==
  /\ Len(p) = 12 /\ p[4] = "import" /\ p[5] = "manifest" /\ p[6] = "save" /\ p[7] = "apply"
  /\ p[8] = "active" /\ p[9] = "imported" /\ p[10] = "save" /\ p[11] = "install"
  /\ p[12] = "stable"

LEMMA AfterCluster ==
  ASSUME NEW t \in Seq(StepNames)
  PROVE  /\ Len(ClusterPath \o t) = 3 + Len(t)
         /\ (ClusterPath \o t)[1] = "first" /\ (ClusterPath \o t)[2] = "token"
         /\ (ClusterPath \o t)[3] = "join"
         /\ \A i \in 1..Len(t) : (ClusterPath \o t)[i + 3] = t[i]
<1>1. /\ ClusterPath \in Seq(StepNames) /\ Len(ClusterPath) = 3
      /\ ClusterPath[1] = "first" /\ ClusterPath[2] = "token" /\ ClusterPath[3] = "join"
  BY DEF ClusterPath, StepNames, SetupSteps
<1>2. /\ Len(ClusterPath \o t) = Len(ClusterPath) + Len(t)
      /\ \A i \in 1..Len(ClusterPath) : (ClusterPath \o t)[i] = ClusterPath[i]
      /\ \A i \in 1..Len(t) : (ClusterPath \o t)[i + Len(ClusterPath)] = t[i]
  BY <1>1, ConcatIs, Zenon
<1> QED
  BY <1>1, <1>2

LEMMA SetupPathIs ==
  ASSUME NEW h
  PROVE  LET p == SetupPath(h) IN
           /\ p[1] = "first" /\ p[2] = "token" /\ p[3] = "join"
           /\ mode = "ha-rke2" => IsHA(p)
           /\ mode # "ha-rke2" /\ h = Host => IsHost(p)
           /\ mode # "ha-rke2" /\ h # Host => IsTenantPath(p)
<1>1. CASE mode = "ha-rke2"
  <2> DEFINE t == <<"save", "install">>
  <2>1. t \in Seq(StepNames) /\ Len(t) = 2 /\ t[1] = "save" /\ t[2] = "install"
    BY DEF StepNames, SetupSteps
  <2>2. SetupPath(h) = ClusterPath \o t
    BY <1>1 DEF SetupPath
  <2> HIDE DEF t
  <2>3. /\ Len(ClusterPath \o t) = 3 + Len(t)
        /\ (ClusterPath \o t)[1] = "first" /\ (ClusterPath \o t)[2] = "token"
        /\ (ClusterPath \o t)[3] = "join"
        /\ \A i \in 1..Len(t) : (ClusterPath \o t)[i + 3] = t[i]
    BY <2>1, AfterCluster, Zenon
  <2> QED
    BY <1>1, <2>1, <2>2, <2>3 DEF IsHA
<1>2. CASE mode # "ha-rke2" /\ h = Host
  <2> DEFINE t == <<"save", "install", "stable">>
  <2>1. t \in Seq(StepNames) /\ Len(t) = 3 /\ t[1] = "save" /\ t[2] = "install" /\ t[3] = "stable"
    BY DEF StepNames, SetupSteps
  <2>2. SetupPath(h) = ClusterPath \o t
    BY <1>2 DEF SetupPath
  <2> HIDE DEF t
  <2>3. /\ Len(ClusterPath \o t) = 3 + Len(t)
        /\ (ClusterPath \o t)[1] = "first" /\ (ClusterPath \o t)[2] = "token"
        /\ (ClusterPath \o t)[3] = "join"
        /\ \A i \in 1..Len(t) : (ClusterPath \o t)[i + 3] = t[i]
    BY <2>1, AfterCluster, Zenon
  <2> QED
    BY <1>2, <2>1, <2>2, <2>3 DEF IsHost
<1>3. CASE mode # "ha-rke2" /\ h # Host
  <2> DEFINE t == <<"import", "manifest", "save", "apply", "active", "imported", "save", "install",
                    "stable">>
  <2>1. /\ t \in Seq(StepNames) /\ Len(t) = 9 /\ t[1] = "import" /\ t[2] = "manifest"
        /\ t[3] = "save" /\ t[4] = "apply" /\ t[5] = "active" /\ t[6] = "imported"
        /\ t[7] = "save" /\ t[8] = "install" /\ t[9] = "stable"
    BY DEF StepNames, SetupSteps
  <2>2. SetupPath(h) = ClusterPath \o t
    BY <1>3 DEF SetupPath
  <2> HIDE DEF t
  <2>3. PICK p : /\ p = ClusterPath \o t /\ Len(p) = 3 + Len(t)
                 /\ p[1] = "first" /\ p[2] = "token" /\ p[3] = "join"
                 /\ \A i \in 1..Len(t) : p[i + 3] = t[i]
    BY <2>1, AfterCluster, Zenon
  <2>4. Len(p) = 3 + Len(t) /\ \A i \in 1..Len(t) : p[i + 3] = t[i]
    BY <2>3, Zenon
  <2>5. Len(p) = 12
    BY <2>1, <2>4
  <2>6. /\ p[1 + 3] = t[1] /\ p[2 + 3] = t[2] /\ p[3 + 3] = t[3] /\ p[4 + 3] = t[4]
        /\ p[5 + 3] = t[5] /\ p[6 + 3] = t[6] /\ p[7 + 3] = t[7] /\ p[8 + 3] = t[8]
        /\ p[9 + 3] = t[9]
    BY <2>1, <2>4
  <2>7. IsTenantPath(p)
    BY <2>1, <2>5, <2>6 DEF IsTenantPath
  <2> QED
    BY <1>3, <2>2, <2>3, <2>7, Zenon
<1> QED
  BY <1>1, <1>2, <1>3

LEMMA SetupStepsAre ==
  ASSUME NEW h, NEW i \in 1..Len(SetupPath(h))
  PROVE  /\ Len(SetupPath(h)) \in {5, 6, 12} /\ SetupPath(h)[i] \in SetupSteps
         /\ SetupPath(h)[i] = "first" <=> i = 1
         /\ SetupPath(h)[i] = "token" <=> i = 2
         /\ SetupPath(h)[i] = "join" <=> i = 3
<1>1. CASE mode = "ha-rke2"
  BY <1>1, SetupPathIs DEF SetupSteps, IsHA
<1>2. CASE mode # "ha-rke2" /\ h = Host
  BY <1>2, SetupPathIs DEF SetupSteps, IsHost
<1>3. CASE mode # "ha-rke2" /\ h # Host
  <2>1. /\ SetupPath(h)[1] = "first" /\ SetupPath(h)[2] = "token" /\ SetupPath(h)[3] = "join"
        /\ IsTenantPath(SetupPath(h))
    BY <1>3, SetupPathIs
  <2>2. /\ Len(SetupPath(h)) = 12 /\ i \in 1..12
        /\ \A k \in 4..12 : SetupPath(h)[k] \in SetupSteps \ {"first", "token", "join"}
    BY <2>1 DEF IsTenantPath, SetupSteps
  <2> QED
    BY <2>1, <2>2 DEF SetupSteps
<1> QED
  BY <1>1, <1>2, <1>3

LEMMA PathsDiffer ==
  ASSUME NEW h
  PROVE  /\ SetupPath(h) \notin {DeletePath, ProvisionPath, RenewPath}
         /\ DeletePath \notin {ProvisionPath, RenewPath} /\ <<>> \notin Tracks(h)
         /\ SetupSteps \cap (Deleting \cup Unplanned \cup Noting) = {}
         /\ Len(SetupPath(h)) \in {5, 6, 12}
<1>1. SetupPath(h)[1] = "first" /\ Len(SetupPath(h)) \in {5, 6, 12}
  BY SetupPathIs DEF IsHA, IsHost, IsTenantPath
<1>2. DeletePath[1] = "mark" /\ ProvisionPath[1] = "login" /\ RenewPath[1] = "mark"
  BY RenewIs, ProvisionSteps DEF DeletePath
<1>3. SetupSteps \cap (Deleting \cup Unplanned \cup Noting) = {}
  BY DEF SetupSteps, Deleting, Unplanned, Noting
<1>a. Tracks(h) = {SetupPath(h), DeletePath, ProvisionPath, RenewPath}
  BY DEF Tracks, RenewPath
<1>b. /\ Len(SetupPath(h)) # 0 /\ Len(DeletePath) # 0 /\ Len(ProvisionPath) # 0
      /\ Len(RenewPath) # 0
  BY <1>1, RenewIs
<1>4. \A p \in Tracks(h) : Len(p) # 0
  BY <1>a, <1>b
<1>5. <<>> \notin Tracks(h)
  BY <1>4
<1>6. DeletePath \notin {ProvisionPath, RenewPath}
  BY RenewIs
<1> QED
  BY <1>1, <1>2, <1>3, <1>5, <1>6

-----------------------------------------------------------------------------
(* Goroutines and their workers.                                           *)

LEMMA Groups ==
  /\ HAs \subseteq All /\ Hosted \subseteq All /\ Host \in All /\ Planned \subseteq HAs
  /\ Instances(mode) \subseteq All
  /\ mode = "ha-rke2" => Instances(mode) = HAs
  /\ mode = "hosted-tenant-k3s" => Instances(mode) = Hosted
  /\ \A h \in All : h \in Nat
BY WorkersAssumption DEF All, Instances

LEMMA TrackLengths ==
  ASSUME NEW h, NEW p \in Tracks(h)
  PROVE  Len(p) \in Nat /\ Len(p) >= 1
<1>1. p = SetupPath(h) \/ p = DeletePath \/ p = ProvisionPath \/ p = RenewPath
  BY DEF Tracks, RenewPath
<1>2. /\ Len(SetupPath(h)) \in {5, 6, 12} /\ Len(DeletePath) = 7 /\ Len(ProvisionPath) = 13
      /\ Len(RenewPath) = 20
  BY PathsDiffer, RenewIs
<1>3. PICK n \in {5, 6, 12, 7, 13, 20} : n = Len(p)
  BY <1>1, <1>2, Zenon
<1>4. n \in Nat /\ n >= 1
  OBVIOUS
<1> QED
  BY <1>3, <1>4, Zenon

LEMMA StartedIs ==
  ASSUME NEW h, NEW p \in Tracks(h)
  PROVE  /\ Started(p) \in Thread(h) /\ Started(p).at = 1 /\ Started(p).path = p
         /\ Started(p).state = "run" /\ 1 <= Len(p) /\ Started(p) # Idle
BY TrackLengths DEF Started, Thread, Idle

LEMMA RunningIs ==
  ASSUME ControlInv, NEW h \in All, Running(h)
  PROVE  /\ thread[h] # Idle /\ thread[h] \in Thread(h) /\ thread[h].path \in Tracks(h)
         /\ thread[h].at \in 1..Len(thread[h].path) /\ Len(thread[h].path) \in Nat
         /\ worker.kind # "none" /\ ThreadInv(h)
<1>1. thread[h] # Idle /\ ThreadInv(h)
  BY DEF ControlInv, Running, Idle
<1>2. thread[h] \in Thread(h) /\ thread[h].at >= 1 /\ thread[h].at <= Len(thread[h].path)
  BY <1>1 DEF ThreadInv
<1>3. thread[h].path \in Tracks(h) /\ thread[h].at \in Nat
  BY <1>2 DEF Thread
<1>4. worker.kind # "none"
  BY <1>1 DEF ControlInv, WorkerInv, Quiet
<1> QED
  BY <1>1, <1>2, <1>3, <1>4, TrackLengths

Failed(h) == [thread[h] EXCEPT !.state = "failed"]

\* The goroutine goes on, ends well at its last step, or fails.
LEMMA AdvancedIs ==
  ASSUME ControlInv, NEW h \in All, Running(h)
  PROVE  /\ Advanced(h) \in Thread(h) /\ Advanced(h).path = thread[h].path
         /\ thread[h].at = Len(thread[h].path) =>
              Advanced(h).at = thread[h].at /\ Advanced(h).state = "ok"
         /\ thread[h].at # Len(thread[h].path) =>
              /\ Advanced(h).at = thread[h].at + 1 /\ Advanced(h).state = "run"
              /\ thread[h].at + 1 \in 1..Len(thread[h].path)
         /\ Failed(h) \in Thread(h) /\ Failed(h).path = thread[h].path
         /\ Failed(h).at = thread[h].at /\ Failed(h).state = "failed"
<1>1. thread[h] \in Thread(h) /\ thread[h].state = "run" /\ thread[h].at \in Nat
      /\ thread[h].at \in 1..Len(thread[h].path) /\ Len(thread[h].path) \in Nat
  BY RunningIs DEF Running
<1>2. CASE thread[h].at = Len(thread[h].path)
  BY <1>1, <1>2 DEF Advanced, Thread, Failed
<1>3. CASE thread[h].at # Len(thread[h].path)
  BY <1>1, <1>3 DEF Advanced, Thread, Failed
<1> QED
  BY <1>2, <1>3

\* The goroutine of h takes a step of its path, or fails there.
Moves(h) ==
  /\ thread = [o \in All |-> thread[o]] /\ Running(h)
  /\ \E e \in {thread[h], Advanced(h), Failed(h)} : thread' = [thread EXCEPT ![h] = e]

LEMMA MovesThread ==
  ASSUME ControlInv, NEW h \in All, Moves(h), mode' = mode, worker' = worker
  PROVE  /\ thread' = [o \in All |-> thread'[o]] /\ \A o \in All \ {h} : thread'[o] = thread[o]
         /\ thread'[h] \in Thread(h) /\ thread'[h].path = thread[h].path /\ thread'[h] # Idle
         /\ thread'[h].at >= 1 /\ thread'[h].at <= Len(thread'[h].path)
         /\ thread'[h].state = "ok" => thread'[h].at = Len(thread'[h].path)
         /\ \A o \in All : ThreadInv(o)'
<1>1. PICK e \in {thread[h], Advanced(h), Failed(h)} : thread' = [thread EXCEPT ![h] = e]
  BY DEF Moves
<1>2. /\ thread[h] \in Thread(h) /\ thread[h].path \in Tracks(h) /\ thread[h].state = "run"
      /\ thread[h].at \in 1..Len(thread[h].path) /\ Len(thread[h].path) \in Nat /\ ThreadInv(h)
      /\ thread[h] # Idle
  BY RunningIs DEF Moves, Running
<1>3. thread' = [o \in All |-> thread'[o]] /\ thread'[h] = e
      /\ \A o \in All \ {h} : thread'[o] = thread[o]
  BY <1>1 DEF Moves
<1>4. /\ e \in Thread(h) /\ e.path = thread[h].path /\ e.at >= 1 /\ e.at <= Len(e.path)
      /\ e.state = "ok" => e.at = Len(e.path)
  BY <1>2, AdvancedIs DEF Moves
<1>5. e # Idle
  BY <1>2, <1>4, PathsDiffer DEF Idle
<1>6. \A o : SetupPath(o)' = SetupPath(o) /\ Tracks(o)' = Tracks(o) /\ Thread(o)' = Thread(o)
  BY DEF SetupPath, Tracks, Thread
<1>7. Instances(mode)' = Instances(mode)
  BY DEF Instances
<1>8. ThreadInv(h)'
  BY <1>2, <1>3, <1>4, <1>5, <1>6, <1>7 DEF ThreadInv
<1>9. ASSUME NEW o \in All \ {h}
      PROVE  ThreadInv(o)'
  BY <1>3, <1>6, <1>7 DEF ThreadInv, ControlInv
<1> QED
  BY <1>3, <1>4, <1>5, <1>8, <1>9

\* A step of one goroutine.
LEMMA MovesControl ==
  ASSUME ControlInv, NEW h \in All, Moves(h), UNCHANGED <<mode, worker, setup, infra, billed>>,
         joining' \in [All -> SUBSET Joiners], joinErr' \in [All -> BOOLEAN],
         \A o \in All : joining'[o] # {} => joining[o] # {} \/ worker.kind = "setup",
         mode # "ha-rke2" => record' = record
  PROVE  ControlInv'
<1>1. /\ thread' = [o \in All |-> thread'[o]] /\ \A o \in All \ {h} : thread'[o] = thread[o]
      /\ \A o \in All : ThreadInv(o)'
  BY MovesThread
<1>2. thread[h] # Idle /\ worker.kind # "none"
  BY RunningIs DEF Moves
<1>3. worker.kind = "setup" => worker.step = "instances"
  BY <1>2 DEF ControlInv, WorkerInv, Quiet
<1>4. worker.kind = "cleanup" => worker.step = "instances"
  BY <1>2 DEF ControlInv, WorkerInv
<1>5. Instances(mode)' = Instances(mode)
  BY DEF Instances
<1>6. WorkerInv'
  BY <1>2, <1>3, <1>4, <1>5 DEF WorkerInv, ControlInv
<1>7. LedgerInv'
  BY <1>5 DEF LedgerInv, ControlInv
<1> QED
  BY <1>1, <1>6, <1>7 DEF ControlInv

\* The step of a goroutine tells its path, and so its worker.
LEMMA StepTells ==
  ASSUME ControlInv, NEW h \in All, Running(h)
  PROVE  /\ Step(h) \in SetupSteps \cup Deleting \cup Unplanned \cup Noting
         /\ Step(h) \in SetupSteps <=> thread[h].path = SetupPath(h)
         /\ Step(h) \in SetupSteps =>
              /\ worker.kind = "setup" /\ mode # "linode-docker-cattle" /\ h \in Instances(mode)
              /\ worker.step = "instances" /\ setup = "tried" /\ infra = Instances(mode)
         /\ Step(h) \notin SetupSteps =>
              /\ worker.kind # "setup" /\ mode = "ha-rke2" /\ h \in HAs
              /\ thread[h].path \in {DeletePath, ProvisionPath, RenewPath}
         /\ Step(h) \in Unplanned \cup Noting =>
              worker.kind = "provision" /\ thread[h].path # DeletePath
<1>1. /\ thread[h] # Idle /\ thread[h].path \in Tracks(h) /\ ThreadInv(h)
      /\ thread[h].at \in 1..Len(thread[h].path)
  BY RunningIs
<1>2. CASE thread[h].path = SetupPath(h)
  <2>1. Step(h) \in SetupSteps
    BY <1>1, <1>2, SetupStepsAre DEF Step
  <2>2. worker.kind = "setup" /\ mode # "linode-docker-cattle" /\ h \in Instances(mode)
    BY <1>1, <1>2 DEF ThreadInv
  <2>3. worker.step = "instances" /\ setup = "tried" /\ infra = Instances(mode)
    BY <1>1, <2>2 DEF ControlInv, WorkerInv, Quiet
  <2> QED
    BY <1>2, <2>1, <2>2, <2>3, PathsDiffer
<1>3. CASE thread[h].path # SetupPath(h)
  <2>0. thread[h].path \in {DeletePath, ProvisionPath, RenewPath}
    BY <1>1, <1>3 DEF Tracks, RenewPath
  <2>1. /\ Step(h) \in Deleting \cup Unplanned \cup Noting
        /\ thread[h].path = DeletePath => Step(h) \in Deleting
    BY <1>1, <2>0, DownSteps DEF Step
  <2>2. worker.kind # "setup" /\ mode = "ha-rke2" /\ h \in HAs
    BY <1>1, <1>3 DEF ThreadInv
  <2>3. thread[h].path # DeletePath => worker.kind = "provision"
    BY <1>1, <2>0 DEF ThreadInv, RenewPath
  <2>4. Deleting \cap (Unplanned \cup Noting) = {}
    BY DEF Deleting, Unplanned, Noting
  <2> QED
    BY <1>3, <2>0, <2>1, <2>2, <2>3, <2>4, PathsDiffer
<1> QED
  BY <1>2, <1>3

LEMMA StepSets ==
  /\ {"first", "token", "join", "save", "install", "stable", "import", "manifest", "apply",
      "active", "imported"} = SetupSteps
  /\ {"login", "plan"} = Unplanned
  /\ {"mark", "drop", "gone", "dropConfig", "dropSecret", "artifacts", "unrecord"} = Deleting
  /\ {"secret", "noteSecret", "config", "noteConfig", "cluster", "noteCluster", "await",
      "noteId", "kubeconfig", "env", "noteActive"} = Noting
BY DEF SetupSteps, Unplanned, Deleting, Noting

\* The steps of a setup that move one goroutine.
SetupMoves(h) ==
  \/ FirstStep(h) \/ GetToken(h) \/ Join(h) \/ SaveKubeconfig(h) \/ Install(h) \/ Stable(h)
  \/ CreateImport(h) \/ FindManifest(h) \/ ApplyManifest(h) \/ TenantActive(h)

LEMMA SetupMovesAre ==
  ASSUME ControlInv, NEW h \in All, SetupMoves(h)
  PROVE  /\ Moves(h) /\ Step(h) \in SetupSteps
         /\ UNCHANGED <<mode, worker, setup, infra, billed, cloudVars>>
<1>0. thread = [o \in All |-> thread[o]]
  BY DEF ControlInv
<1>1. CASE FirstStep(h) \/ SaveKubeconfig(h) \/ CreateImport(h) \/ FindManifest(h)
  <2>1. thread' = thread \/ thread' = [thread EXCEPT ![h] = Advanced(h)]
    BY <1>1 DEF FirstStep, SaveKubeconfig, CreateImport, FindManifest, Advance
  <2>2. thread = [thread EXCEPT ![h] = thread[h]]
    BY <1>0
  <2> QED
    BY <1>0, <1>1, <2>1, <2>2, StepSets
    DEF FirstStep, SaveKubeconfig, CreateImport, FindManifest, AtStep, Moves
<1>2. CASE GetToken(h) \/ Install(h) \/ Stable(h) \/ ApplyManifest(h) \/ TenantActive(h)
  BY <1>0, <1>2, StepSets
  DEF GetToken, Install, Stable, ApplyManifest, TenantActive, AtStep, Moves, Advance, infraVars
<1>3. CASE Join(h)
  <2>1. \E e \in {Advanced(h), Failed(h)} : thread' = [thread EXCEPT ![h] = e]
    BY <1>3 DEF Join, Failed
  <2> QED
    BY <1>0, <1>3, <2>1, StepSets DEF Join, AtStep, Moves, infraVars
<1> QED
  BY <1>1, <1>2, <1>3 DEF SetupMoves

LEMMA SetupMovesControl ==
  ASSUME ControlInv, NEW h \in All, SetupMoves(h)
  PROVE  ControlInv'
<1>1. /\ Moves(h) /\ Step(h) \in SetupSteps
      /\ UNCHANGED <<mode, worker, setup, infra, billed, cloudVars>>
  BY SetupMovesAre
<1>2. worker.kind = "setup"
  BY <1>1, StepTells DEF Moves
<1>3. joinErr' = joinErr /\ (joining' = joining \/ joining' = [joining EXCEPT ![h] = JoinersOf])
  BY DEF SetupMoves, FirstStep, GetToken, Join, SaveKubeconfig, Install, Stable, CreateImport,
         FindManifest, ApplyManifest, TenantActive
<1>4. joining' \in [All -> SUBSET Joiners] /\ joinErr' \in [All -> BOOLEAN]
  BY <1>3 DEF ControlInv, JoinersOf
<1> QED
  BY <1>1, <1>2, <1>4, MovesControl DEF cloudVars

\* The steps of provisioning and deleting.
LEMMA DownMovesAre ==
  ASSUME ControlInv, NEW h \in HAs, DownstreamStep(h)
  PROVE  /\ Moves(h) /\ thread' = [thread EXCEPT ![h] = Advanced(h)] /\ h \in All
         /\ Step(h) \notin SetupSteps
         /\ UNCHANGED <<mode, worker, setup, infraVars, billed, joining, joinErr>>
<1>0. thread = [o \in All |-> thread[o]] /\ h \in All
  BY Groups DEF ControlInv
<1>1. AtStep(h, Deleting \cup Unplanned \cup Noting)
  BY StepSets DEF DownstreamStep, Login, Plan, Create, NotePhase, AwaitActive, WriteArtifact, DropCluster,
     AwaitGone, DropObject, RemoveArtifacts, AtStep, NotedPhase
<1>2. Advance(h) /\ UNCHANGED <<mode, worker, setup, infraVars, billed, joining, joinErr>>
  BY DEF DownstreamStep, Login, Plan, Create, NotePhase, AwaitActive, WriteArtifact, DropCluster,
     AwaitGone, DropObject, RemoveArtifacts, infraVars, cloudVars
<1> QED
  BY <1>0, <1>1, <1>2, PathsDiffer DEF AtStep, Moves, Advance

LEMMA DownMovesControl ==
  ASSUME ControlInv, NEW h \in HAs, DownstreamStep(h)
  PROVE  ControlInv'
<1>1. /\ Moves(h) /\ h \in All /\ Step(h) \notin SetupSteps
      /\ UNCHANGED <<mode, worker, setup, infraVars, billed, joining, joinErr>>
  BY DownMovesAre
<1>2. mode = "ha-rke2"
  BY <1>1, StepTells DEF Moves
<1> QED
  BY <1>1, <1>2, MovesControl DEF ControlInv, infraVars

LEMMA FailStepIs ==
  ASSUME ControlInv, NEW h \in All, FailStep(h)
  PROVE  /\ Moves(h) /\ thread' = [thread EXCEPT ![h] = Failed(h)]
         /\ \/ record' = record
            \/ Step(h) \notin SetupSteps /\ record' = [record EXCEPT ![h].phase = FailurePhase(h)]
<1>1. FailurePhase(h) # "none" => Step(h) \notin SetupSteps
  BY DEF FailurePhase, SetupSteps, Noting
<1>2. thread' = [thread EXCEPT ![h] = Failed(h)]
  BY DEF FailStep, Failed
<1> QED
  BY <1>1, <1>2 DEF FailStep, Moves, ControlInv

LEMMA FailStepControl ==
  ASSUME ControlInv, NEW h \in All, FailStep(h)
  PROVE  ControlInv'
<1>1. /\ Moves(h) /\ (record' = record \/ Step(h) \notin SetupSteps)
  BY FailStepIs
<1>2. mode # "ha-rke2" => record' = record
  BY <1>1, StepTells DEF Moves
<1> QED
  BY <1>1, <1>2, MovesControl DEF FailStep, infraVars, ControlInv

-----------------------------------------------------------------------------
(* The main goroutines.                                                    *)

\* The goroutines of the nodes only leave.
LEMMA JoinerStepsControl ==
  ASSUME ControlInv, NEW h \in All, NEW n, JoinerStep(h, n) \/ JoinerFails(h, n)
  PROVE  ControlInv'
<1>1. /\ UNCHANGED <<mode, worker, thread, infra, setup, billed, cloudVars>>
      /\ joining' = joining \/ joining' = [joining EXCEPT ![h] = @ \ {n}]
      /\ joinErr' = joinErr \/ joinErr' = [joinErr EXCEPT ![h] = TRUE]
  <2>1. CASE JoinerStep(h, n)
    <3>1. joining = [joining EXCEPT ![h] = @]
      BY DEF ControlInv
    <3> QED
      BY <2>1, <3>1 DEF JoinerStep
  <2>2. CASE JoinerFails(h, n)
    BY <2>2 DEF JoinerFails, infraVars
  <2> QED
    BY <2>1, <2>2
<1>2. joining' \in [All -> SUBSET Joiners] /\ \A o \in All : joining'[o] \subseteq joining[o]
  BY <1>1 DEF ControlInv
<1>3. joinErr' \in [All -> BOOLEAN]
  BY <1>1 DEF ControlInv
<1>4. \A o : SetupPath(o)' = SetupPath(o) /\ Thread(o)' = Thread(o)
  BY <1>1 DEF SetupPath, Tracks, Thread
<1>5. Instances(mode)' = Instances(mode)
  BY <1>1 DEF Instances
<1>6. \A o \in All : ThreadInv(o)'
  BY <1>1, <1>4, <1>5 DEF ThreadInv, ControlInv
<1>7. Quiet => Quiet'
  BY <1>1, <1>2 DEF Quiet
<1>8. WorkerInv' /\ LedgerInv'
  BY <1>1, <1>5, <1>7 DEF WorkerInv, LedgerInv, ControlInv
<1> QED
  BY <1>1, <1>2, <1>3, <1>6, <1>8 DEF ControlInv, cloudVars

\* A worker that has ended leaves nothing running.
LEMMA EndedControl ==
  ASSUME ControlInv, End, mode' = mode, infra' \in SUBSET infra,
         setup' = setup \/ (setup' = "ok" /\ infra = Instances(mode)),
         setup' = "ok" => infra' = infra,
         billed' \in [All -> Nat], \A h \in All : billed'[h] \in {0, 1},
         \A h \in All : billed'[h] = 1 => h \notin infra',
         setup = "none" => billed' = billed,
         record' = record
  PROVE  ControlInv'
<1>1. /\ worker' = NoWorker /\ thread' = [h \in All |-> Idle]
      /\ joining' = [h \in All |-> {}] /\ joinErr' = [h \in All |-> FALSE]
  BY DEF End
<1>2. worker' \in Worker /\ worker'.kind = "none" /\ worker'.cost = {}
  BY <1>1 DEF NoWorker, Worker
<1>3. Quiet' /\ \A h \in All : ThreadInv(h)'
  BY <1>1 DEF Quiet, ThreadInv
<1>4. Instances(mode)' = Instances(mode)
  BY DEF Instances
<1>5. WorkerInv' /\ LedgerInv'
  BY <1>2, <1>3, <1>4 DEF WorkerInv, LedgerInv, ControlInv
<1> QED
  BY <1>1, <1>2, <1>3, <1>5 DEF ControlInv

LEMMA BeginsControl ==
  ASSUME ControlInv,
         BeginSetup \/ BeginProvision \/ \E kind \in {"delete", "cleanup"} : BeginDelete(kind)
  PROVE  ControlInv'
<1>0. /\ worker = NoWorker /\ worker.kind = "none" /\ Quiet
      /\ UNCHANGED <<mode, joining, joinErr, infra, billed, cloudVars>>
  BY DEF ControlInv, WorkerInv, BeginSetup, BeginProvision, BeginDelete, infraVars
<1>1. \A o : SetupPath(o)' = SetupPath(o) /\ Thread(o)' = Thread(o) /\ Tracks(o)' = Tracks(o)
  BY <1>0 DEF SetupPath, Tracks, Thread
<1>2. Instances(mode)' = Instances(mode)
  BY <1>0 DEF Instances
<1>3. ASSUME NEW kind \in {"setup", "provision", "delete", "cleanup"},
             NEW step \in {"apply", "instances"},
             worker' = [NoWorker EXCEPT !.kind = kind, !.step = step]
      PROVE  worker' \in Worker /\ worker'.kind = kind /\ worker'.step = step /\ worker'.cost = {}
  BY <1>3 DEF NoWorker, Worker
<1>4. CASE BeginSetup
  <2>1. /\ worker' \in Worker /\ worker'.kind = "setup" /\ worker'.step = "apply"
        /\ thread' = thread /\ setup = "none" /\ setup' = "tried"
    BY <1>3, <1>4 DEF BeginSetup
  <2>2. Quiet' /\ \A h \in All : ThreadInv(h)'
    BY <1>0, <2>1 DEF Quiet, ThreadInv
  <2>3. WorkerInv' /\ LedgerInv'
    BY <1>0, <1>2, <2>1, <2>2 DEF WorkerInv, LedgerInv, ControlInv
  <2>4. worker' # NoWorker
    BY <2>1 DEF NoWorker
  <2> QED
    BY <1>0, <2>1, <2>2, <2>3, <2>4 DEF ControlInv, Quiet, cloudVars
<1>5. CASE BeginProvision
  <2> DEFINE work == {h \in Planned : record[h] = NoRecord \/ ~Reusable(h)}
  <2>1. /\ worker' \in Worker /\ worker'.kind = "provision" /\ worker'.step = "instances"
        /\ mode = "ha-rke2" /\ setup = "ok" /\ setup' = setup
    BY <1>3, <1>5 DEF BeginProvision
  <2>2. \E track \in [work -> {ProvisionPath, RenewPath}] :
          thread' = [h \in All |-> IF h \notin work THEN Idle ELSE Started(track[h])]
    <3> DEFINE track == [h \in work |-> IF record[h] = NoRecord THEN ProvisionPath ELSE RenewPath]
    <3>1. track \in [work -> {ProvisionPath, RenewPath}]
      OBVIOUS
    <3>2. \A h \in All : h \in work => track[h] = IF record[h] = NoRecord THEN ProvisionPath
                                                                        ELSE RenewPath
      OBVIOUS
    <3>3. thread' = [h \in All |-> IF h \notin work THEN Idle ELSE
                       Started(IF record[h] = NoRecord THEN ProvisionPath ELSE RenewPath)]
      BY <1>5 DEF BeginProvision, RenewPath
    <3> HIDE DEF track
    <3> QED
      BY <3>1, <3>2, <3>3
  <2> HIDE DEF work
  <2>3. PICK track \in [work -> {ProvisionPath, RenewPath}] :
          thread' = [h \in All |-> IF h \notin work THEN Idle ELSE Started(track[h])]
    BY <2>2
  <2>4. ASSUME NEW h \in All
        PROVE  ThreadInv(h)'
    <3>1. CASE h \notin work
      BY <2>3, <3>1 DEF ThreadInv
    <3>2. CASE h \in work
      <4>1. h \in HAs
        BY <3>2, Groups DEF work
      <4>2. PICK p \in {ProvisionPath, RenewPath} : thread'[h] = Started(p)
        BY <2>3, <3>2
      <4>3. p \in Tracks(h) /\ p # SetupPath(h)
        BY <4>2, PathsDiffer DEF Tracks, RenewPath
      <4>4. /\ thread'[h] \in Thread(h) /\ thread'[h].at = 1 /\ thread'[h].path = p
            /\ thread'[h].state = "run" /\ 1 <= Len(p)
        BY <4>2, <4>3, StartedIs
      <4> QED
        BY <1>0, <1>1, <2>1, <4>1, <4>3, <4>4 DEF ThreadInv
    <3> QED
      BY <3>1, <3>2
  <2>5. WorkerInv' /\ LedgerInv'
    BY <1>0, <1>2, <2>1 DEF WorkerInv, LedgerInv, ControlInv
  <2>6. worker' # NoWorker
    BY <2>1 DEF NoWorker
  <2>7. thread' = [h \in All |-> thread'[h]]
    BY <2>3
  <2> QED
    BY <1>0, <2>1, <2>4, <2>5, <2>6, <2>7 DEF ControlInv, Quiet, cloudVars
<1>6. ASSUME NEW kind \in {"delete", "cleanup"}, BeginDelete(kind)
      PROVE  ControlInv'
  <2>1. /\ worker' \in Worker /\ worker'.kind = kind /\ worker'.step = "instances"
        /\ setup' = setup /\ thread' = [h \in All |-> IF h \in Recorded THEN Started(DeletePath) ELSE Idle]
    BY <1>3, <1>6 DEF BeginDelete
  <2>2. DeletePath \notin {ProvisionPath, RenewPath} /\ \A h : DeletePath # SetupPath(h)
    BY PathsDiffer
  <2>3. ASSUME NEW h \in All
        PROVE  ThreadInv(h)'
    <3>1. CASE h \notin Recorded
      BY <2>1, <3>1 DEF ThreadInv
    <3>2. CASE h \in Recorded
      <4>1. h \in HAs /\ mode = "ha-rke2"
        BY <3>2 DEF Recorded, ControlInv
      <4>2. DeletePath \in Tracks(h) /\ thread'[h] = Started(DeletePath)
        BY <2>1, <3>2 DEF Tracks
      <4>3. /\ thread'[h] \in Thread(h) /\ thread'[h].at = 1 /\ thread'[h].path = DeletePath
            /\ thread'[h].state = "run" /\ 1 <= Len(DeletePath)
        BY <4>2, StartedIs
      <4> QED
        BY <1>0, <1>1, <1>6, <2>1, <2>2, <4>1, <4>3 DEF ThreadInv, RenewPath
    <3> QED
      BY <3>1, <3>2
  <2>4. WorkerInv' /\ LedgerInv'
    BY <1>0, <1>2, <1>6, <2>1 DEF WorkerInv, LedgerInv, ControlInv
  <2>5. worker' # NoWorker /\ worker'.kind # "none"
    BY <1>6, <2>1 DEF NoWorker
  <2>6. thread' = [h \in All |-> thread'[h]]
    BY <2>1
  <2> QED
    BY <1>0, <2>1, <2>3, <2>4, <2>5, <2>6 DEF ControlInv, Quiet, cloudVars
<1> QED
  BY <1>4, <1>5, <1>6

LEMMA EndsControl ==
  ASSUME ControlInv,
         Kill \/ ApplyFails \/ EndSetup \/ EndDownstream \/ CleanupFails \/ RecordCost
  PROVE  ControlInv'
<1>0. /\ billed \in [All -> Nat] /\ \A h \in All : billed[h] \in {0, 1}
      /\ \A h \in All : billed[h] = 1 => h \notin infra
      /\ infra \subseteq All /\ setup = "ok" => infra = Instances(mode)
  BY DEF ControlInv, LedgerInv
<1>1. CASE Kill \/ EndDownstream
  BY <1>0, <1>1, EndedControl DEF Kill, EndDownstream, infraVars, cloudVars
<1>2. CASE EndSetup
  <2>1. worker.kind = "setup" /\ worker.step = "instances" /\ infra = Instances(mode)
    BY <1>2 DEF EndSetup, ControlInv, WorkerInv
  <2>2. End /\ UNCHANGED <<mode, infra, billed, record>> /\ setup' \in {setup, "ok"}
    BY <1>2 DEF EndSetup, infraVars, cloudVars
  <2> QED
    BY <1>0, <2>1, <2>2, EndedControl
<1>3. CASE ApplyFails
  <2>1. /\ worker.kind = "setup" /\ setup = "tried" /\ \A h \in All : billed[h] = 0
        /\ UNCHANGED <<mode, setup, billed, record>> /\ End
    BY <1>3 DEF ApplyFails, ControlInv, WorkerInv, cloudVars
  <2>2. infra' \subseteq All
    BY <1>3, Groups DEF ApplyFails
  <2>3. /\ worker' = NoWorker /\ thread' = [h \in All |-> Idle]
        /\ joining' = [h \in All |-> {}] /\ joinErr' = [h \in All |-> FALSE]
    BY <2>1 DEF End
  <2>4. worker' \in Worker /\ worker'.kind = "none" /\ worker'.cost = {}
    BY <2>3 DEF NoWorker, Worker
  <2>5. Quiet' /\ \A h \in All : ThreadInv(h)'
    BY <2>3 DEF Quiet, ThreadInv
  <2>6. WorkerInv' /\ LedgerInv'
    BY <2>1, <2>4, <2>5 DEF WorkerInv, LedgerInv, ControlInv
  <2> QED
    BY <2>1, <2>2, <2>3, <2>4, <2>5, <2>6 DEF ControlInv
<1>4. CASE CleanupFails
  <2>1. /\ worker.kind = "cleanup" /\ End /\ UNCHANGED <<mode, setup, billed, record>>
        /\ infra' \in SUBSET infra /\ (worker.step # "destroy" => infra' = infra)
    BY <1>4 DEF CleanupFails, cloudVars
  <2>2. setup = "ok" => worker.step = "instances"
    BY <2>1 DEF ControlInv, WorkerInv
  <2> QED
    BY <1>0, <2>1, <2>2, EndedControl
<1>5. CASE RecordCost
  <2>1. /\ worker.kind = "cleanup" /\ worker.step = "ledger" /\ End
        /\ UNCHANGED <<mode, setup, infra, record>>
    BY <1>5 DEF RecordCost, infraVars, cloudVars
  <2>2. infra = {} /\ setup = "tried" /\ \A h \in worker.cost : billed[h] = 0
    BY <2>1 DEF ControlInv, WorkerInv, LedgerInv
  <2>3. /\ billed' \in [All -> Nat] /\ \A h \in All : billed'[h] \in {0, 1}
    BY <1>0, <1>5, <2>2 DEF RecordCost
  <2> QED
    BY <1>0, <2>1, <2>2, <2>3, EndedControl
<1> QED
  BY <1>1, <1>2, <1>3, <1>4, <1>5

LEMMA ApplyControl ==
  ASSUME ControlInv, Apply
  PROVE  ControlInv'
<1>1. /\ worker.kind = "setup" /\ worker.step = "apply" /\ setup = "tried" /\ worker \in Worker
      /\ \A h \in All : billed[h] = 0 /\ Quiet
      /\ UNCHANGED <<mode, joining, joinErr, cloudVars, setup, billed>> /\ infra' = Instances(mode)
  BY DEF Apply, ControlInv, WorkerInv
<1>2. worker' \in Worker /\ worker'.kind = "setup" /\ worker'.step = "instances"
      /\ worker' # NoWorker
  BY <1>1 DEF Apply, Worker, NoWorker
<1>3. /\ \A o : SetupPath(o)' = SetupPath(o) /\ Thread(o)' = Thread(o) /\ Tracks(o)' = Tracks(o)
      /\ Instances(mode)' = Instances(mode)
  BY <1>1 DEF SetupPath, Tracks, Thread, Instances
<1>4. ASSUME NEW h \in All
      PROVE  ThreadInv(h)'
  <2>1. \/ thread'[h] = Idle
        \/ /\ thread'[h] = Started(SetupPath(h)) /\ h \in Instances(mode)
           /\ mode # "linode-docker-cattle"
    BY Groups, WorkersAssumption DEF Apply
  <2>2. ASSUME thread'[h] = Started(SetupPath(h)), h \in Instances(mode),
               mode # "linode-docker-cattle"
        PROVE  ThreadInv(h)'
    <3>1. SetupPath(h) \in Tracks(h) /\ SetupPath(h) \notin {ProvisionPath, RenewPath}
      BY PathsDiffer DEF Tracks
    <3>2. /\ thread'[h] \in Thread(h) /\ thread'[h].at = 1 /\ thread'[h].path = SetupPath(h)
          /\ thread'[h].state = "run" /\ 1 <= Len(SetupPath(h))
      BY <2>2, <3>1, StartedIs
    <3> QED
      BY <1>1, <1>2, <1>3, <2>2, <3>1, <3>2 DEF ThreadInv, RenewPath
  <2> QED
    BY <2>1, <2>2 DEF ThreadInv
<1>5. WorkerInv' /\ LedgerInv'
  BY <1>1, <1>2, <1>3 DEF WorkerInv, LedgerInv, ControlInv
<1>6. thread' = [h \in All |-> thread'[h]]
  BY DEF Apply
<1> QED
  BY <1>1, <1>2, <1>4, <1>5, <1>6, Groups DEF ControlInv, cloudVars

LEMMA NextTenantControl ==
  ASSUME ControlInv, NEW h \in Hosted, NextTenant(h)
  PROVE  ControlInv'
<1>0. /\ thread = [o \in All |-> thread[o]] /\ h \in All /\ Host \in All
      /\ mode = "hosted-tenant-k3s" /\ thread[Host].state = "ok"
      /\ UNCHANGED <<mode, worker, joining, joinErr, infra, setup, billed, cloudVars>>
  BY Groups DEF ControlInv, NextTenant, infraVars
<1>1. worker.kind = "setup" /\ worker.step = "instances"
  <2>1. thread[Host] # Idle /\ ThreadInv(Host)
    BY <1>0 DEF ControlInv, Idle
  <2>2. worker.kind = "setup"
    BY <1>0, <2>1 DEF ThreadInv
  <2> QED
    BY <2>2 DEF NextTenant
<1>2. /\ \A o : SetupPath(o)' = SetupPath(o) /\ Thread(o)' = Thread(o) /\ Tracks(o)' = Tracks(o)
      /\ Instances(mode)' = Instances(mode) /\ Instances(mode) = Hosted
  BY <1>0, Groups DEF SetupPath, Tracks, Thread, Instances
<1>3. thread' = [thread EXCEPT ![h] = Started(SetupPath(h))]
  BY DEF NextTenant
<1>4. SetupPath(h) \in Tracks(h) /\ SetupPath(h) \notin {ProvisionPath, RenewPath}
  BY PathsDiffer DEF Tracks
<1>5. /\ thread'[h] \in Thread(h) /\ thread'[h].at = 1 /\ thread'[h].path = SetupPath(h)
      /\ thread'[h].state = "run" /\ 1 <= Len(SetupPath(h))
  BY <1>0, <1>3, <1>4, StartedIs
<1>6. ThreadInv(h)'
  BY <1>0, <1>1, <1>2, <1>4, <1>5 DEF ThreadInv, RenewPath
<1>7. ASSUME NEW o \in All \ {h}
      PROVE  ThreadInv(o)'
  BY <1>0, <1>2, <1>3 DEF ThreadInv, ControlInv
<1>8. WorkerInv' /\ LedgerInv'
  BY <1>0, <1>1, <1>2 DEF WorkerInv, LedgerInv, ControlInv
<1>9. thread' = [o \in All |-> thread'[o]]
  BY <1>0, <1>3
<1> QED
  BY <1>0, <1>6, <1>7, <1>8, <1>9 DEF ControlInv, cloudVars

LEMMA InstallTenantsControl ==
  ASSUME ControlInv, InstallTenants, Hosted # {Host}
  PROVE  ControlInv'
<1>0. /\ \A h \in Hosted \ {Host} : h \in All /\ AtStep(h, {"imported"})
      /\ mode = "hosted-tenant-k3s"
      /\ UNCHANGED <<mode, worker, joining, joinErr, infra, setup, billed, cloudVars>>
      /\ thread' = [h \in All |-> IF h \in Hosted \ {Host} THEN Advanced(h) ELSE thread[h]]
  BY Groups DEF InstallTenants, infraVars
<1>1. PICK t \in Hosted : t # Host
  BY Groups, WorkersAssumption
<1>2. worker.kind = "setup" /\ worker.step = "instances"
  <2>1. Running(t) /\ Step(t) \in SetupSteps /\ t \in All
    BY <1>0, <1>1, StepSets DEF AtStep
  <2> QED
    BY <2>1, StepTells
<1>3. /\ \A o : SetupPath(o)' = SetupPath(o) /\ Thread(o)' = Thread(o) /\ Tracks(o)' = Tracks(o)
      /\ Instances(mode)' = Instances(mode)
  BY <1>0 DEF SetupPath, Tracks, Thread, Instances
<1>4. ASSUME NEW h \in All
      PROVE  ThreadInv(h)'
  <2>1. CASE h \in Hosted \ {Host}
    <3>1. Running(h) /\ thread'[h] = Advanced(h)
      BY <1>0, <2>1 DEF AtStep
    <3>2. /\ thread[h].at \in 1..Len(thread[h].path) /\ Len(thread[h].path) \in Nat
          /\ thread[h] # Idle /\ ThreadInv(h)
      BY <3>1, RunningIs
    <3>3. /\ thread'[h] \in Thread(h) /\ thread'[h].path = thread[h].path
          /\ thread'[h].at >= 1 /\ thread'[h].at <= Len(thread'[h].path)
          /\ thread'[h].state = "ok" => thread'[h].at = Len(thread'[h].path)
      BY <3>1, <3>2, AdvancedIs
    <3> QED
      BY <1>0, <1>3, <3>2, <3>3 DEF ThreadInv
  <2>2. CASE h \notin Hosted \ {Host}
    BY <1>0, <1>3, <2>2 DEF ThreadInv, ControlInv
  <2> QED
    BY <2>1, <2>2
<1>5. WorkerInv' /\ LedgerInv'
  BY <1>0, <1>2, <1>3 DEF WorkerInv, LedgerInv, ControlInv
<1>6. thread' = [h \in All |-> thread'[h]]
  BY <1>0
<1> QED
  BY <1>0, <1>4, <1>5, <1>6 DEF ControlInv, cloudVars

LEMMA NoTenantsControl ==
  ASSUME ControlInv, InstallTenants, Hosted = {Host}
  PROVE  thread' = thread
BY DEF InstallTenants, ControlInv

\* The phases of a cleanup.
LEMMA CleanupControl ==
  ASSUME ControlInv, Estimate \/ Destroy \/ RemoveLocal
  PROVE  ControlInv'
<1>0. /\ worker.kind = "cleanup" /\ worker \in Worker
      /\ UNCHANGED <<mode, joining, joinErr, billed>>
  BY DEF Estimate, Destroy, RemoveLocal, ControlInv
<1>1. Instances(mode)' = Instances(mode)
  BY <1>0 DEF Instances
<1>2. CASE Estimate
  <2>1. PICK cost \in CostEstimates : worker' = [worker EXCEPT !.step = "destroy", !.cost = cost]
    BY <1>2 DEF Estimate
  <2>2. cost \subseteq infra /\ infra' = infra /\ cost \subseteq All
    BY <1>2, <2>1 DEF CostEstimates, Estimate, infraVars, ControlInv
  <2>3. /\ worker' \in Worker /\ worker'.kind = "cleanup" /\ worker'.step = "destroy"
        /\ worker'.cost = cost /\ worker' # NoWorker
    BY <1>0, <2>1, <2>2 DEF Worker, NoWorker
  <2>4. /\ thread' = [h \in All |-> Idle] /\ setup' = "tried" /\ UNCHANGED cloudVars
    BY <1>2 DEF Estimate
  <2>5. \A h \in All : ThreadInv(h)'
    BY <2>4 DEF ThreadInv
  <2>6. \A h \in cost : billed[h] = 0
    BY <2>2 DEF ControlInv, LedgerInv
  <2>7. WorkerInv' /\ LedgerInv'
    BY <1>0, <1>1, <2>2, <2>3, <2>4, <2>6 DEF WorkerInv, LedgerInv, ControlInv
  <2> QED
    BY <1>0, <2>2, <2>3, <2>4, <2>5, <2>7 DEF ControlInv, cloudVars
<1>3. CASE Destroy \/ RemoveLocal
  <2>1. /\ worker.step \in {"destroy", "local"} /\ UNCHANGED <<thread, setup>> /\ setup = "tried"
        /\ infra' = {} /\ \A h \in All : thread[h] = Idle
    BY <1>0, <1>3 DEF Destroy, RemoveLocal, ControlInv, WorkerInv, LedgerInv
  <2>2. /\ worker' \in Worker /\ worker'.kind = "cleanup" /\ worker'.step \in {"local", "ledger"}
        /\ worker'.cost = worker.cost /\ worker' # NoWorker
    BY <1>0, <1>3 DEF Destroy, RemoveLocal, Worker, NoWorker
  <2>3. record' \in {record, [h \in HAs |-> NoRecord]}
    BY <1>3 DEF Destroy, RemoveLocal, cloudVars
  <2>4. \A h \in All : ThreadInv(h)'
    BY <2>1 DEF ThreadInv
  <2>5. WorkerInv' /\ LedgerInv'
    BY <1>0, <1>1, <2>1, <2>2 DEF WorkerInv, LedgerInv, ControlInv
  <2> QED
    BY <1>0, <2>1, <2>2, <2>3, <2>4, <2>5 DEF ControlInv
<1> QED
  BY <1>2, <1>3

\* Nothing that a worker or its goroutines are made of changes.
LEMMA SameControl ==
  ASSUME ControlInv,
         UNCHANGED <<mode, worker, thread, joining, joinErr, infra, record, setup, billed>>
  PROVE  ControlInv'
<1>1. \A o : SetupPath(o)' = SetupPath(o) /\ Thread(o)' = Thread(o)
  BY DEF SetupPath, Tracks, Thread
<1>2. Instances(mode)' = Instances(mode)
  BY DEF Instances
<1>3. \A o \in All : ThreadInv(o)'
  BY <1>1, <1>2 DEF ThreadInv, ControlInv
<1>4. WorkerInv' /\ LedgerInv'
  BY <1>2 DEF WorkerInv, LedgerInv, ControlInv, Quiet
<1> QED
  BY <1>3, <1>4 DEF ControlInv

LEMMA ControlStep == ControlInv /\ [Next]_vars => ControlInv'
<1> SUFFICES ASSUME ControlInv, [Next]_vars
             PROVE  ControlInv'
  OBVIOUS
<1>1. CASE UNCHANGED vars \/ (\E h \in Hosted : MakeToken(h)) \/ \E h \in HAs, n \in Names : RancherWorks(h, n)
  BY <1>1, SameControl DEF vars, infraVars, cloudVars, MakeToken, RancherWorks
<1>2. CASE BeginSetup \/ BeginProvision \/ \E kind \in {"delete", "cleanup"} : BeginDelete(kind)
  BY <1>2, BeginsControl
<1>3. CASE MainStep \/ Kill
  <2>1. CASE InstallTenants
    BY <2>1, InstallTenantsControl, NoTenantsControl, SameControl DEF InstallTenants, infraVars, cloudVars
  <2> QED
    BY <1>3, <2>1, EndsControl, ApplyControl, NextTenantControl, CleanupControl DEF MainStep
<1>4. CASE \E h \in All : ThreadStep(h)
  <2> SUFFICES ASSUME NEW h \in All, ThreadStep(h)
               PROVE  ControlInv'
    BY <1>4
  <2> QED
    BY SetupMovesControl, JoinerStepsControl, FailStepControl
    DEF ThreadStep, NodeWork, SetupMoves, ServerStep, GpuStep
<1>5. CASE \E h \in HAs : DownstreamStep(h)
  BY <1>5, DownMovesControl
<1> QED
  BY <1>1, <1>2, <1>3, <1>4, <1>5 DEF Next

LEMMA ControlInit == Init => ControlInv
<1> SUFFICES ASSUME Init
             PROVE  ControlInv
  OBVIOUS
<1>1. worker \in Worker /\ worker = NoWorker /\ worker.kind = "none"
  BY DEF Init, NoWorker, Worker
<1>2. Quiet /\ \A h \in All : ThreadInv(h)
  BY DEF Init, Quiet, ThreadInv
<1>3. WorkerInv /\ LedgerInv
  BY <1>1, <1>2 DEF Init, WorkerInv, LedgerInv
<1> QED
  BY <1>1, <1>2, <1>3 DEF Init, ControlInv

\* The worker of a run, its goroutines, what exists and what was paid fit
\* together in every state.
THEOREM ControlInvariance == Spec => []ControlInv
<1> QED
  BY ControlInit, ControlStep, PTL DEF Spec

\* However often a destroy stops halfway, is killed and repeated, no instance is
\* in two ledger entries: what is estimated exists and was never paid, and what
\* is paid no longer exists and is not created again (TestHACleanup).
THEOREM LedgerHasNoDoubles == Spec => []BilledOnce
<1>1. ControlInv => BilledOnce
  BY DEF ControlInv, LedgerInv, BilledOnce
<1> QED
  BY <1>1, ControlInvariance, PTL

-----------------------------------------------------------------------------
(* What exists downstream is recorded.                                     *)

\* A goroutine of a setup stays at the steps of a setup.
LEMMA SetupStepNext ==
  ASSUME mode' = mode, NEW o, ThreadInv(o)', Running(o)',
         mode # "ha-rke2" \/ worker'.kind = "setup"
  PROVE  Step(o)' \in SetupSteps
<1>1. SetupPath(o)' = SetupPath(o) /\ Thread(o)' = Thread(o)
  BY DEF SetupPath, Thread, Tracks
<1>2. /\ thread'[o] \in Thread(o) /\ thread'[o].at >= 1 /\ thread'[o].at <= Len(thread'[o].path)
      /\ thread'[o].path = SetupPath(o)
  BY <1>1 DEF ThreadInv, Running, Idle
<1>3. thread'[o].at \in Nat /\ Len(SetupPath(o)) \in Nat
  BY <1>2, TrackLengths DEF Thread
<1>4. thread'[o].at \in 1..Len(SetupPath(o))
  BY <1>2, <1>3
<1> QED
  BY <1>2, <1>4, SetupStepsAre DEF Step

LEMMA StepsDiffer ==
  ASSUME NEW s \in SetupSteps
  PROVE  s \notin Deleting /\ s \notin Noting /\ s \notin Unplanned
BY DEF SetupSteps, Deleting, Noting, Unplanned

LEMMA NoStepInv ==
  ASSUME NEW o, Running(o)' => Step(o)' \in SetupSteps
  PROVE  StepInv(o)'
<1>1. Running(o)' => Step(o)' \notin Deleting \cup Noting \cup Unplanned
  BY StepsDiffer
<1>2. /\ {"dropConfig", "dropSecret", "artifacts", "unrecord"} \subseteq Deleting
      /\ "login" \in Unplanned /\ "plan" \in Unplanned
  BY DEF Deleting, Unplanned
<1> QED
  BY <1>1, <1>2 DEF StepInv

\* Nothing exists where nothing is recorded.
LEMMA NothingExists ==
  ASSUME CloudInv, NEW h \in HAs, record[h] = NoRecord
  PROVE  NoCluster(h) /\ \A n \in Names : ~Exists(h, n)
BY DEF CloudInv, NamedInv, NoCluster, Exists

\* What is downstream stays, and the instances that remain still manage it.
LEMMA CloudSame ==
  ASSUME CloudInv, UNCHANGED cloudVars,
         \A o \in HAs : StepInv(o)' /\ DeletedInv(o)' /\ (o \notin infra' => NoCluster(o))
  PROVE  CloudInv'
<1>1. CloudTypes'
  BY DEF CloudInv, CloudTypes, cloudVars
<1>2. \A o \in HAs : NamedInv(o)' /\ (o \notin infra' => NoCluster(o)')
  BY DEF CloudInv, NamedInv, Exists, NoCluster, cloudVars
<1> QED
  BY <1>1, <1>2 DEF CloudInv

\* Only the cloud of h changes.
LEMMA CloudFrame ==
  ASSUME CloudInv, NEW h \in HAs, CloudTypes', UNCHANGED <<worker, infra>>,
         \A o \in HAs \ {h} : /\ thread'[o] = thread[o] /\ record'[o] = record[o]
                              /\ objects'[o] = objects[o] /\ clusters'[o] = clusters[o]
                              /\ drawn'[o] = drawn[o],
         StepInv(h)', DeletedInv(h)', NamedInv(h)', h \notin infra => NoCluster(h)'
  PROVE  CloudInv'
<1>1. ASSUME NEW o \in HAs \ {h}
      PROVE  /\ StepInv(o)' /\ DeletedInv(o)' /\ NamedInv(o)'
             /\ o \notin infra' => NoCluster(o)'
  <2>1. StepInv(o)'
    BY DEF CloudInv, StepInv, Running, Step, NoCluster, NoObject
  <2>2. DeletedInv(o)' /\ NamedInv(o)' /\ (o \notin infra' => NoCluster(o)')
    BY DEF CloudInv, DeletedInv, NamedInv, Exists, NoCluster
  <2> QED
    BY <2>1, <2>2
<1> QED
  BY <1>1 DEF CloudInv

\* The step that comes after the step of a downstream path.
LEMMA NextStep ==
  ASSUME ControlInv, NEW h \in All, Running(h), Step(h) \notin SetupSteps,
         thread' = [thread EXCEPT ![h] = Advanced(h)]
  PROVE  /\ thread'[h].path = thread[h].path /\ \A o \in All \ {h} : thread'[o] = thread[o]
         /\ Running(h)' => Step(h)' = Follow[Step(h)]
         /\ ~Running(h)' => thread'[h].state = "ok" /\ Step(h) \in {"unrecord", "noteActive"}
         /\ Step(h) = "noteActive" => ~Running(h)'
         /\ Step(h) = "unrecord" /\ thread[h].path = DeletePath => ~Running(h)'
         /\ Step(h) \in Deleting /\ thread[h].path # DeletePath => Running(h)'
<1>1. /\ thread[h].path \in {DeletePath, ProvisionPath, RenewPath}
      /\ thread[h].at \in 1..Len(thread[h].path)
  BY RunningIs, StepTells
<1>2. thread'[h] = Advanced(h) /\ \A o \in All \ {h} : thread'[o] = thread[o]
  BY DEF ControlInv
<1>3. CASE thread[h].at = Len(thread[h].path)
  <2>1. thread'[h].path = thread[h].path /\ thread'[h].state = "ok"
    BY <1>2, <1>3, AdvancedIs
  <2>2. /\ Step(h) \in {"unrecord", "noteActive"}
        /\ ~(thread[h].path # DeletePath /\ Step(h) \in Deleting)
    BY <1>1, <1>3, DownSteps DEF Step
  <2> QED
    BY <1>2, <2>1, <2>2 DEF Running
<1>4. CASE thread[h].at # Len(thread[h].path)
  <2>1. /\ thread'[h].path = thread[h].path /\ thread'[h].state = "run"
        /\ thread'[h].at = thread[h].at + 1
    BY <1>2, <1>4, AdvancedIs
  <2>2. Len(thread[h].path) \in Nat /\ thread[h].at < Len(thread[h].path)
    BY <1>1, <1>4, RunningIs
  <2>3. thread[h].path[thread[h].at + 1] = Follow[thread[h].path[thread[h].at]]
    BY <1>1, <2>2, DownSteps
  <2>4. /\ Step(h) # "noteActive" /\ ~(Step(h) = "unrecord" /\ thread[h].path = DeletePath)
    BY <1>1, <1>4, DownSteps DEF Step
  <2> QED
    BY <1>2, <2>1, <2>3, <2>4 DEF Running, Step
<1> QED
  BY <1>3, <1>4

\* What the steps of provisioning and deleting have in common.
LEMMA DownIs ==
  ASSUME ControlInv, CloudInv, NEW h \in HAs, DownstreamStep(h)
  PROVE  /\ h \in All /\ UNCHANGED <<mode, worker, infra>> /\ Running(h) /\ CloudTypes
         /\ StepInv(h) /\ NamedInv(h) /\ (h \notin infra => NoCluster(h))
         /\ \A o \in HAs \ {h} : thread'[o] = thread[o]
         /\ thread'[h].path = thread[h].path
         /\ Running(h)' => Step(h)' = Follow[Step(h)]
         /\ Step(h) = "noteActive" => ~Running(h)'
         /\ Step(h) = "unrecord" /\ thread[h].path = DeletePath => ~Running(h)'
         /\ (Step(h) = "unrecord" => record'[h] = NoRecord) => DeletedInv(h)'
<1>1. /\ Moves(h) /\ thread' = [thread EXCEPT ![h] = Advanced(h)] /\ h \in All
      /\ Step(h) \notin SetupSteps
      /\ UNCHANGED <<mode, worker, setup, infraVars, billed, joining, joinErr>>
  BY DownMovesAre
<1>2. Running(h) /\ UNCHANGED <<worker, infra>>
  BY <1>1 DEF Moves, infraVars
<1>3. /\ thread'[h].path = thread[h].path /\ \A o \in All \ {h} : thread'[o] = thread[o]
      /\ Running(h)' => Step(h)' = Follow[Step(h)]
      /\ ~Running(h)' => thread'[h].state = "ok" /\ Step(h) \in {"unrecord", "noteActive"}
      /\ Step(h) = "noteActive" => ~Running(h)'
      /\ Step(h) = "unrecord" /\ thread[h].path = DeletePath => ~Running(h)'
  BY <1>1, <1>2, NextStep
<1>4. ASSUME Step(h) = "unrecord" => record'[h] = NoRecord
      PROVE  DeletedInv(h)'
  <2>1. worker.kind = "cleanup" => worker.step = "instances"
    BY <1>1, <1>2, RunningIs DEF ControlInv, WorkerInv
  <2>2. Step(h) = "noteActive" => worker.kind = "provision"
    BY <1>1, <1>2, StepTells, StepSets
  <2> QED
    BY <1>2, <1>3, <1>4, <2>1, <2>2 DEF DeletedInv, Running
<1> QED
  BY <1>1, <1>2, <1>3, <1>4, Groups DEF CloudInv

\* A name is drawn and recorded before anything is created under it.
LEMMA PlansCloud ==
  ASSUME ControlInv, CloudInv, NEW h \in HAs, Login(h) \/ Plan(h)
  PROVE  CloudInv'
<1>0. DownstreamStep(h)
  BY DEF DownstreamStep
<1>1. CASE Login(h)
  <2>1. /\ Step(h) = "login" /\ drawn' = [drawn EXCEPT ![h] = @ + 1]
        /\ UNCHANGED <<record, artifacts, objects, clusters>>
    BY <1>1 DEF Login, AtStep
  <2>2. record[h] = NoRecord /\ drawn[h] < MaxClusters
    BY <1>0, <2>1, DownIs DEF StepInv, Unplanned
  <2>3. CloudTypes' /\ drawn'[h] \in Names /\ \A o \in HAs \ {h} : drawn'[o] = drawn[o]
    BY <2>1, <2>2, WorkersAssumption DEF CloudInv, CloudTypes, Names
  <2>4. StepInv(h)'
    BY <1>0, <2>1, <2>2, <2>3, DownIs DEF StepInv, Follow, Deleting, Noting
  <2>5. NamedInv(h)' /\ DeletedInv(h)' /\ (h \notin infra => NoCluster(h)')
    BY <1>0, <2>1, DownIs DEF NamedInv, Exists, NoCluster
  <2> QED
    BY <1>0, <2>1, <2>3, <2>4, <2>5, DownIs, CloudFrame
<1>2. CASE Plan(h)
  <2>1. /\ Step(h) = "plan" /\ UNCHANGED <<artifacts, objects, clusters, drawn>>
        /\ record' = [record EXCEPT ![h] = [name |-> drawn[h], phase |-> "planned"]]
    BY <1>2 DEF Plan, AtStep
  <2>2. record[h] = NoRecord /\ drawn[h] \in Names
    BY <1>0, <2>1, DownIs DEF StepInv
  <2>3. PICK e \in Recordable : e = [name |-> drawn[h], phase |-> "planned"] /\ e.name = drawn[h]
    <3>1. [name |-> drawn[h], phase |-> "planned"] \in Recordable
      BY <2>2 DEF Recordable
    <3> QED
      BY <3>1
  <2>4. /\ CloudTypes' /\ record'[h] = e /\ e # NoRecord
        /\ \A o \in HAs \ {h} : record'[o] = record[o]
    BY <2>1, <2>3, WorkersAssumption DEF CloudInv, CloudTypes
  <2>5. StepInv(h)'
    BY <1>0, <2>1, <2>2, <2>4, DownIs DEF StepInv, Follow, Deleting, Noting
  <2>6. NamedInv(h)' /\ (h \notin infra => NoCluster(h)') /\ DeletedInv(h)'
    BY <1>0, <2>1, <2>2, DownIs, NothingExists DEF NamedInv, Exists, NoCluster
  <2> QED
    BY <1>0, <2>1, <2>4, <2>5, <2>6, DownIs, CloudFrame
<1> QED
  BY <1>1, <1>2

\* Only what is recorded is created, and only where Rancher runs.
LEMMA CreateCloud ==
  ASSUME ControlInv, CloudInv, NEW h \in HAs, Create(h)
  PROVE  CloudInv'
<1>0. DownstreamStep(h)
  BY DEF DownstreamStep
<1>1. /\ Step(h) \in {"secret", "config", "cluster"} /\ UNCHANGED <<record, artifacts, drawn>>
      /\ \/ /\ clusters' = [clusters EXCEPT ![h][drawn[h]] = "creating"] /\ objects' = objects
            /\ Step(h) = "cluster"
         \/ /\ objects' = [objects EXCEPT ![h] = @ \cup {<<Step(h), drawn[h]>>}]
            /\ clusters' = clusters /\ Step(h) \in {"secret", "config"}
  BY DEF Create, AtStep
<1>2. record[h] # NoRecord /\ record[h].name = drawn[h] /\ drawn[h] \in Names
  BY <1>0, <1>1, DownIs DEF StepInv, Noting
<1>3. h \in infra
  <2>1. worker.kind = "provision" /\ mode = "ha-rke2"
    BY <1>0, <1>1, DownIs, StepTells, StepSets
  <2> QED
    BY <2>1, Groups DEF ControlInv, WorkerInv, LedgerInv
<1>4. CloudTypes' /\ \A o \in HAs \ {h} : objects'[o] = objects[o] /\ clusters'[o] = clusters[o]
  <2>1. CASE Step(h) = "cluster"
    <3>1. clusters' = [clusters EXCEPT ![h][drawn[h]] = "creating"] /\ objects' = objects
      BY <1>1, <2>1
    <3>2. clusters' \in [HAs -> [Names -> Clouds]] /\ \A o \in HAs \ {h} : clusters'[o] = clusters[o]
      BY <1>2, <3>1 DEF CloudInv, CloudTypes, Clouds
    <3> QED
      BY <1>1, <3>1, <3>2 DEF CloudInv, CloudTypes
  <2>2. CASE Step(h) \in {"secret", "config"}
    <3>1. PICK e \in {"secret", "config"} \X Names : e = <<Step(h), drawn[h]>>
      BY <1>2, <2>2
    <3>2. objects' = [objects EXCEPT ![h] = @ \cup {e}] /\ clusters' = clusters
      BY <1>1, <2>2, <3>1
    <3> QED
      BY <1>1, <3>2 DEF CloudInv, CloudTypes
  <2> QED
    BY <1>1, <2>1, <2>2
<1>5. StepInv(h)'
  BY <1>0, <1>1, <1>2, DownIs DEF StepInv, Follow, Deleting, Noting
<1>6. NamedInv(h)'
  <2>1. \A n \in Names : Exists(h, n)' => n = drawn[h] \/ Exists(h, n)
    BY <1>1, <1>2, DownIs, <1>0 DEF Exists, CloudTypes
  <2> QED
    BY <1>0, <1>1, <1>2, <2>1, DownIs DEF NamedInv
<1>7. DeletedInv(h)'
  BY <1>0, <1>1, DownIs
<1> QED
  BY <1>0, <1>1, <1>3, <1>4, <1>5, <1>6, <1>7, DownIs, CloudFrame

\* A phase is noted under the name.
LEMMA NoteCloud ==
  ASSUME ControlInv, CloudInv, NEW h \in HAs, NotePhase(h)
  PROVE  CloudInv'
<1>0. DownstreamStep(h)
  BY DEF DownstreamStep
<1>1. /\ Step(h) \in {"noteSecret", "noteConfig", "noteCluster", "noteId", "noteActive", "mark"}
      /\ UNCHANGED <<artifacts, objects, clusters, drawn>>
      /\ record' = [record EXCEPT ![h].phase = NotedPhase[Step(h)]]
  BY DEF NotePhase, AtStep, NotedPhase, Write
<1>3. record[h] # NoRecord /\ record[h] \in Recordable
  BY <1>0, <1>1, DownIs DEF StepInv, Noting, Deleting, CloudTypes
<1>2. PICK p \in {"credential-created", "machine-config-created", "provisioning",
                  "active-pending-artifacts", "active", "deleting"} : p = NotedPhase[Step(h)]
  BY <1>1 DEF NotedPhase
<1>4. PICK e \in Recordable : e = [record[h] EXCEPT !.phase = p] /\ e.name = record[h].name
  <2>1. [record[h] EXCEPT !.phase = p] \in Recordable
    BY <1>2, <1>3 DEF Recordable
  <2>2. [record[h] EXCEPT !.phase = p].name = record[h].name
    BY <1>3 DEF Recordable
  <2> QED
    BY <2>1, <2>2
<1>5. record' = [record EXCEPT ![h] = e]
  BY <1>1, <1>2, <1>4
<1>6. /\ CloudTypes' /\ record'[h] = e /\ e # NoRecord
      /\ \A o \in HAs \ {h} : record'[o] = record[o]
  BY <1>1, <1>4, <1>5, WorkersAssumption DEF CloudInv, CloudTypes
<1>7. StepInv(h)'
  BY <1>0, <1>1, <1>3, <1>4, <1>6, DownIs DEF StepInv, Follow, Deleting, Noting
<1>8. NamedInv(h)' /\ (h \notin infra => NoCluster(h)') /\ DeletedInv(h)'
  BY <1>0, <1>1, <1>3, <1>4, <1>6, DownIs DEF NamedInv, Exists, NoCluster
<1> QED
  BY <1>0, <1>1, <1>6, <1>7, <1>8, DownIs, CloudFrame

\* Waiting for a cluster, its artifacts and its deletion.
LEMMA WaitCloud ==
  ASSUME ControlInv, CloudInv, NEW h \in HAs,
         AwaitActive(h) \/ WriteArtifact(h) \/ DropCluster(h) \/ AwaitGone(h)
  PROVE  CloudInv'
<1>0. DownstreamStep(h)
  BY DEF DownstreamStep
<1>1. CASE AwaitActive(h) \/ WriteArtifact(h)
  <2>1. /\ Step(h) \in {"await", "kubeconfig", "env"} /\ UNCHANGED <<record, objects, clusters, drawn>>
        /\ artifacts' = artifacts \/ artifacts' = [artifacts EXCEPT ![h] = @ \cup {Step(h)}]
    BY <1>1 DEF AwaitActive, WriteArtifact, AtStep, cloudVars
  <2>2. CloudTypes'
    <3>1. Step(h) \in {"kubeconfig", "env"} \/ artifacts' = artifacts
      BY <1>1 DEF AwaitActive, WriteArtifact, AtStep, cloudVars
    <3> QED
      BY <2>1, <3>1 DEF CloudInv, CloudTypes
  <2>3. StepInv(h)'
    BY <1>0, <2>1, DownIs DEF StepInv, Follow, Deleting, Noting
  <2>4. NamedInv(h)' /\ (h \notin infra => NoCluster(h)') /\ DeletedInv(h)'
    BY <1>0, <2>1, DownIs DEF NamedInv, Exists, NoCluster
  <2> QED
    BY <1>0, <2>1, <2>2, <2>3, <2>4, DownIs, CloudFrame
<1>2. CASE DropCluster(h)
  <2> DEFINE r == record[h].name
  <2>1. /\ Step(h) = "drop" /\ UNCHANGED <<record, artifacts, objects, drawn>>
        /\ clusters' = [clusters EXCEPT ![h][r] = IF @ = "absent" THEN @ ELSE "deleting"]
    BY <1>2 DEF DropCluster, AtStep
  <2>2. record[h] # NoRecord /\ r \in Names
    BY <1>0, <2>1, DownIs DEF StepInv, Deleting, CloudTypes, Recordable
  <2>3. CloudTypes' /\ \A o \in HAs \ {h} : clusters'[o] = clusters[o]
    BY <2>1, <2>2 DEF CloudInv, CloudTypes, Clouds
  <2>4. \A n \in Names : clusters'[h][n] # "absent" => clusters[h][n] # "absent"
    BY <2>1, <2>2 DEF CloudInv, CloudTypes
  <2>5. StepInv(h)'
    BY <1>0, <2>1, <2>2, DownIs DEF StepInv, Follow, Deleting, Noting
  <2>6. NamedInv(h)' /\ (h \notin infra => NoCluster(h)') /\ DeletedInv(h)'
    BY <1>0, <2>1, <2>4, DownIs DEF NamedInv, Exists, NoCluster
  <2> QED
    BY <1>0, <2>1, <2>3, <2>5, <2>6, DownIs, CloudFrame
<1>3. CASE AwaitGone(h)
  <2>1. /\ Step(h) = "gone" /\ UNCHANGED <<record, artifacts, objects, clusters, drawn>>
        /\ clusters[h][record[h].name] = "absent"
    BY <1>3 DEF AwaitGone, AtStep, cloudVars
  <2>2. NoCluster(h)
    BY <1>0, <2>1, DownIs DEF NamedInv, Exists, NoCluster
  <2>3. CloudTypes'
    BY <2>1 DEF CloudInv, CloudTypes
  <2>4. StepInv(h)'
    BY <1>0, <2>1, <2>2, DownIs DEF StepInv, Follow, Deleting, Noting, NoCluster
  <2>5. NamedInv(h)' /\ (h \notin infra => NoCluster(h)') /\ DeletedInv(h)'
    BY <1>0, <2>1, DownIs DEF NamedInv, Exists, NoCluster
  <2> QED
    BY <1>0, <2>1, <2>3, <2>4, <2>5, DownIs, CloudFrame
<1> QED
  BY <1>1, <1>2, <1>3

\* The record goes last, when nothing it names exists.
LEMMA RemoveCloud ==
  ASSUME ControlInv, CloudInv, NEW h \in HAs, DropObject(h) \/ RemoveArtifacts(h)
  PROVE  CloudInv'
<1>0. DownstreamStep(h)
  BY DEF DownstreamStep
<1>1. CASE DropObject(h)
  <2>0. PICK kind \in {"config", "secret"} :
          kind = IF Step(h) = "dropConfig" THEN "config" ELSE "secret"
    OBVIOUS
  <2>1. /\ Step(h) \in {"dropConfig", "dropSecret"} /\ UNCHANGED <<record, artifacts, clusters, drawn>>
        /\ objects' = [objects EXCEPT ![h] = @ \ {<<kind, record[h].name>>}]
    BY <1>1, <2>0 DEF DropObject, AtStep
  <2>2. record[h] # NoRecord /\ NoCluster(h)
    BY <1>0, <2>1, DownIs DEF StepInv, Deleting
  <2>3. CloudTypes' /\ (\A o \in HAs \ {h} : objects'[o] = objects[o])
        /\ objects'[h] = objects[h] \ {<<kind, record[h].name>>}
    BY <2>1 DEF CloudInv, CloudTypes
  <2>4. NoObject(h, kind)'
    <3>1. \A n \in Names : <<kind, n>> \in objects'[h] => Exists(h, n) /\ n # record[h].name
      BY <2>0, <2>3 DEF Exists
    <3>2. \A n \in Names : <<kind, n>> \notin objects'[h]
      BY <1>0, <3>1, DownIs DEF NamedInv
    <3> QED
      BY <3>2 DEF NoObject
  <2>5. NoObject(h, "config") => NoObject(h, "config")'
    BY <2>3 DEF NoObject
  <2>6. StepInv(h)'
    <3>1. CASE Step(h) = "dropConfig"
      BY <1>0, <2>0, <2>1, <2>2, <2>4, <3>1, DownIs DEF StepInv, Follow, Deleting, Noting, NoCluster
    <3>2. CASE Step(h) = "dropSecret"
      BY <1>0, <2>0, <2>1, <2>2, <2>4, <2>5, <3>2, DownIs DEF StepInv, Follow, Deleting, Noting, NoCluster
    <3> QED
      BY <2>1, <3>1, <3>2
  <2>7. NamedInv(h)' /\ (h \notin infra => NoCluster(h)') /\ DeletedInv(h)'
    BY <1>0, <2>1, <2>3, DownIs DEF NamedInv, Exists, NoCluster
  <2> QED
    BY <1>0, <2>1, <2>3, <2>6, <2>7, DownIs, CloudFrame
<1>2. CASE RemoveArtifacts(h) /\ Step(h) = "artifacts"
  <2>1. UNCHANGED <<record, objects, clusters, drawn>> /\ artifacts' = [artifacts EXCEPT ![h] = {}]
    BY <1>2 DEF RemoveArtifacts
  <2>2. CloudTypes'
    BY <2>1 DEF CloudInv, CloudTypes
  <2>3. StepInv(h)'
    BY <1>0, <1>2, <2>1, DownIs DEF StepInv, Follow, Deleting, Noting, NoCluster, NoObject
  <2>4. NamedInv(h)' /\ (h \notin infra => NoCluster(h)') /\ DeletedInv(h)'
    BY <1>0, <1>2, <2>1, DownIs DEF NamedInv, Exists, NoCluster
  <2> QED
    BY <1>0, <2>1, <2>2, <2>3, <2>4, DownIs, CloudFrame
<1>3. CASE RemoveArtifacts(h) /\ Step(h) = "unrecord"
  <2>1. UNCHANGED <<artifacts, objects, clusters, drawn>> /\ record' = [record EXCEPT ![h] = NoRecord]
    BY <1>3 DEF RemoveArtifacts
  <2>2. CloudTypes' /\ record'[h] = NoRecord /\ \A o \in HAs \ {h} : record'[o] = record[o]
    BY <2>1 DEF CloudInv, CloudTypes
  <2>3. /\ NoCluster(h) /\ NoObject(h, "config") /\ NoObject(h, "secret")
        /\ thread[h].path # DeletePath => drawn[h] < MaxClusters
    BY <1>0, <1>3, DownIs DEF StepInv, Deleting
  <2>4. StepInv(h)'
    BY <1>0, <1>3, <2>1, <2>2, <2>3, DownIs DEF StepInv, Follow, Deleting, Noting
  <2>5. NamedInv(h)' /\ (h \notin infra => NoCluster(h)') /\ DeletedInv(h)'
    BY <1>0, <1>3, <2>1, <2>2, <2>3, DownIs DEF NamedInv, Exists, NoCluster, NoObject
  <2> QED
    BY <1>0, <2>1, <2>2, <2>4, <2>5, DownIs, CloudFrame
<1> QED
  BY <1>1, <1>2, <1>3 DEF RemoveArtifacts, AtStep

\* A goroutine that does not move knows what it knew.
LEMMA CloudKeeps ==
  ASSUME CloudInv, UNCHANGED <<worker, cloudVars>>, NEW o \in HAs, thread'[o] = thread[o]
  PROVE  StepInv(o)' /\ DeletedInv(o)'
<1>1. StepInv(o)'
  BY DEF CloudInv, StepInv, Running, Step, NoCluster, NoObject, cloudVars
<1>2. DeletedInv(o)'
  BY DEF CloudInv, DeletedInv, cloudVars
<1> QED
  BY <1>1, <1>2

\* A setup has nothing to do with what is downstream.
LEMMA SetupCloud ==
  ASSUME ControlInv', CloudInv, UNCHANGED <<mode, cloudVars>>, worker'.kind = "setup",
         infra \subseteq infra'
  PROVE  CloudInv'
<1>1. ASSUME NEW o \in HAs
      PROVE  StepInv(o)' /\ DeletedInv(o)'
  <2>1. ThreadInv(o)'
    BY Groups DEF ControlInv
  <2>2. Running(o)' => Step(o)' \in SetupSteps
    BY <2>1, SetupStepNext
  <2>3. StepInv(o)'
    BY <2>2, NoStepInv
  <2>4. DeletedInv(o)'
    BY DEF DeletedInv
  <2> QED
    BY <2>3, <2>4
<1>2. \A o \in HAs : o \notin infra' => NoCluster(o)
  BY DEF CloudInv
<1> QED
  BY <1>1, <1>2, CloudSame

LEMMA EndedCloud ==
  ASSUME CloudInv, End, UNCHANGED cloudVars, \A o \in HAs : o \notin infra' => NoCluster(o)
  PROVE  CloudInv'
<1>1. ASSUME NEW o \in HAs
      PROVE  StepInv(o)' /\ DeletedInv(o)'
  <2>1. ~Running(o)' /\ worker'.kind = "none"
    BY Groups DEF End, Running, Idle, NoWorker
  <2> QED
    BY <2>1 DEF StepInv, DeletedInv
<1> QED
  BY <1>1, CloudSame

\* A cleanup that has come to the destroy has nothing downstream left.
LEMMA DestroyIsLate ==
  ASSUME CloudInv, worker.kind = "cleanup", worker.step # "instances", NEW o \in HAs
  PROVE  record[o] = NoRecord /\ NoCluster(o) /\ \A n \in Names : ~Exists(o, n)
<1>1. record[o] = NoRecord
  BY DEF CloudInv, DeletedInv
<1> QED
  BY <1>1, NothingExists

LEMMA EndsCloud ==
  ASSUME ControlInv, CloudInv,
         Kill \/ ApplyFails \/ EndSetup \/ EndDownstream \/ CleanupFails \/ RecordCost
  PROVE  CloudInv'
<1>1. CASE Kill \/ EndDownstream \/ EndSetup \/ RecordCost
  <2>1. End /\ infra' = infra /\ UNCHANGED cloudVars
    BY <1>1 DEF Kill, EndDownstream, EndSetup, RecordCost, infraVars
  <2> QED
    BY <2>1, EndedCloud DEF CloudInv
<1>2. CASE ApplyFails
  <2>1. End /\ infra = {} /\ UNCHANGED cloudVars
    BY <1>2 DEF ApplyFails, ControlInv, WorkerInv
  <2> QED
    BY <2>1, EndedCloud DEF CloudInv
<1>3. CASE CleanupFails
  <2>1. /\ End /\ UNCHANGED cloudVars /\ worker.kind = "cleanup"
        /\ infra' = infra \/ worker.step = "destroy"
    BY <1>3 DEF CleanupFails
  <2>2. \A o \in HAs : o \notin infra' => NoCluster(o)
    BY <2>1, DestroyIsLate DEF CloudInv
  <2> QED
    BY <2>1, <2>2, EndedCloud
<1> QED
  BY <1>1, <1>2, <1>3

\* A provisioning draws a new name, a delete begins with what is recorded.
LEMMA BeginsCloud ==
  ASSUME ControlInv, CloudInv,
         BeginProvision \/ \E kind \in {"delete", "cleanup"} : BeginDelete(kind)
  PROVE  CloudInv'
<1>1. UNCHANGED <<infra, cloudVars>>
  BY DEF BeginProvision, BeginDelete, infraVars
<1>2. DeletePath[1] = "mark" /\ ProvisionPath[1] = "login" /\ RenewPath[1] = "mark"
  BY RenewIs, ProvisionSteps DEF DeletePath
<1>3. ASSUME NEW o \in HAs, NEW p, thread'[o] = Started(p)
      PROVE  Running(o)' /\ thread'[o].path = p /\ thread'[o].state = "run" /\ Step(o)' = p[1]
  BY <1>3 DEF Started, Running, Step
<1>4. ASSUME NEW o \in HAs, thread'[o] = Idle
      PROVE  ~Running(o)'
  BY <1>4 DEF Idle, Running
<1>5. CASE BeginProvision
  <2> DEFINE work == {h \in Planned : record[h] = NoRecord \/ ~Reusable(h)}
  <2>1. ASSUME NEW o \in HAs
        PROVE  StepInv(o)' /\ DeletedInv(o)'
    <3>1. DeletedInv(o)'
      BY <1>5 DEF BeginProvision, NoWorker, DeletedInv
    <3>2. CASE o \notin work
      <4>1. thread'[o] = Idle
        BY <1>5, <3>2, Groups DEF BeginProvision
      <4> QED
        BY <1>4, <3>1, <4>1 DEF StepInv
    <3>3. CASE o \in work
      <4>1. thread'[o] = Started(IF record[o] = NoRecord THEN ProvisionPath ELSE RenewPath)
        BY <1>5, <3>3, Groups DEF BeginProvision, RenewPath
      <4>2. drawn[o] < MaxClusters
        <5>1. drawn[o] < (IF o \in Retried THEN MaxClusters ELSE 1) /\ drawn[o] \in 0..MaxClusters
          BY <1>5, <3>3 DEF BeginProvision, CloudInv, CloudTypes
        <5> QED
          BY <5>1, WorkersAssumption
      <4>3. CASE record[o] = NoRecord
        <5>1. Step(o)' = "login"
          BY <1>2, <1>3, <4>1, <4>3
        <5> QED
          BY <1>1, <3>1, <4>2, <4>3, <5>1 DEF StepInv, Deleting, Noting, cloudVars
      <4>4. CASE record[o] # NoRecord
        <5>1. Step(o)' = "mark"
          BY <1>2, <1>3, <4>1, <4>4
        <5> QED
          BY <1>1, <3>1, <4>2, <4>4, <5>1 DEF StepInv, Deleting, Noting, cloudVars
      <4> QED
        BY <4>3, <4>4
    <3> QED
      BY <3>2, <3>3
  <2> QED
    BY <1>1, <2>1, CloudSame DEF CloudInv
<1>6. ASSUME NEW kind \in {"delete", "cleanup"}, BeginDelete(kind)
      PROVE  CloudInv'
  <2>1. ASSUME NEW o \in HAs
        PROVE  StepInv(o)' /\ DeletedInv(o)'
    <3>1. CASE record[o] = NoRecord
      <4>1. thread'[o] = Idle
        BY <1>6, <3>1, Groups DEF BeginDelete, Recorded
      <4> QED
        BY <1>1, <1>4, <3>1, <4>1 DEF StepInv, DeletedInv, cloudVars
    <3>2. CASE record[o] # NoRecord
      <4>1. thread'[o] = Started(DeletePath)
        BY <1>6, <3>2, Groups DEF BeginDelete, Recorded
      <4>2. Step(o)' = "mark" /\ thread'[o].path = DeletePath /\ thread'[o].state = "run"
        BY <1>2, <1>3, <4>1
      <4>3. worker'.step = "instances"
        BY <1>6 DEF BeginDelete, NoWorker
      <4> QED
        BY <1>1, <3>2, <4>2, <4>3 DEF StepInv, DeletedInv, Deleting, Noting, cloudVars
    <3> QED
      BY <3>1, <3>2
  <2> QED
    BY <1>1, <2>1, CloudSame DEF CloudInv
<1> QED
  BY <1>5, <1>6

\* The record of a failed step keeps its name.
LEMMA FailStepCloud ==
  ASSUME ControlInv, CloudInv, NEW h \in All, FailStep(h)
  PROVE  CloudInv'
<1>0. ControlInv' /\ Running(h) /\ UNCHANGED <<mode, worker, infra, artifacts, objects, clusters, drawn>>
  BY FailStepControl DEF FailStep, infraVars
<1>1. CASE Step(h) \in SetupSteps
  <2>1. worker.kind = "setup"
    BY <1>0, <1>1, StepTells
  <2>2. record' = record
    BY <1>1, FailStepIs
  <2> QED
    BY <1>0, <2>1, <2>2, SetupCloud DEF cloudVars
<1>2. CASE Step(h) \notin SetupSteps
  <2>1. h \in HAs
    BY <1>0, <1>2, StepTells
  <2>2. thread' = [thread EXCEPT ![h] = Failed(h)] /\ thread = [o \in All |-> thread[o]]
    BY FailStepIs DEF ControlInv
  <2>3. /\ thread'[h].state = "failed" /\ \A o \in All \ {h} : thread'[o] = thread[o]
    BY <1>0, <2>2, AdvancedIs
  <2>4. worker.kind = "cleanup" => worker.step = "instances"
    BY <1>0, RunningIs DEF ControlInv, WorkerInv
  <2>5. StepInv(h)' /\ DeletedInv(h)'
    BY <1>0, <2>3, <2>4 DEF StepInv, DeletedInv, Running
  <2>6. /\ CloudTypes' /\ \A o \in HAs \ {h} : record'[o] = record[o]
        /\ record[h] # NoRecord => record'[h] # NoRecord /\ record'[h].name = record[h].name
    <3>1. CASE record' = record
      BY <1>0, <3>1 DEF CloudInv, CloudTypes
    <3>2. CASE FailurePhase(h) # "none" /\ record' = [record EXCEPT ![h].phase = FailurePhase(h)]
      <4>1. /\ FailurePhase(h) \in {"failed", "cleanup-failed"}
            /\ Step(h) \in Noting \cup Deleting
        BY <3>2 DEF FailurePhase, Deleting
      <4>2. record[h] # NoRecord /\ record[h] \in Recordable
        BY <1>0, <2>1, <4>1 DEF CloudInv, StepInv, CloudTypes
      <4>3. PICK p \in {"failed", "cleanup-failed"} : p = FailurePhase(h)
        BY <4>1
      <4>4. PICK e \in Recordable : e = [record[h] EXCEPT !.phase = p] /\ e.name = record[h].name
        <5>1. [record[h] EXCEPT !.phase = p] \in Recordable
          BY <4>2, <4>3 DEF Recordable
        <5>2. [record[h] EXCEPT !.phase = p].name = record[h].name
          BY <4>2 DEF Recordable
        <5> QED
          BY <5>1, <5>2
      <4>5. record' = [record EXCEPT ![h] = e]
        BY <3>2, <4>3, <4>4
      <4> QED
        BY <1>0, <2>1, <4>4, <4>5, WorkersAssumption DEF CloudInv, CloudTypes
    <3> QED
      BY <3>1, <3>2 DEF FailStep
  <2>7. NamedInv(h)' /\ (h \notin infra => NoCluster(h)')
    BY <1>0, <2>1, <2>6 DEF CloudInv, NamedInv, Exists, NoCluster
  <2> QED
    BY <1>0, <2>1, <2>3, <2>5, <2>6, <2>7, CloudFrame, Groups
<1> QED
  BY <1>1, <1>2

\* A destroy begins when every downstream of the cleanup is gone.
LEMMA CleanupCloud ==
  ASSUME ControlInv, CloudInv, Estimate \/ Destroy \/ RemoveLocal
  PROVE  CloudInv'
<1>1. CASE Estimate
  <2>1. /\ worker.kind = "cleanup" /\ worker.step = "instances" /\ Settled
        /\ \A h \in HAs : thread[h].state # "failed"
        /\ thread' = [h \in All |-> Idle] /\ UNCHANGED <<infra, cloudVars>>
    BY <1>1 DEF Estimate, infraVars
  <2>2. ASSUME NEW o \in HAs
        PROVE  record[o] = NoRecord
    <3>1. CASE mode = "ha-rke2"
      <4>1. thread[o].state \in {"idle", "ok"}
        BY <2>1, <3>1, Groups DEF Settled
      <4> QED
        BY <2>1, <4>1 DEF CloudInv, DeletedInv
    <3>2. CASE mode # "ha-rke2"
      BY <3>2 DEF ControlInv
    <3> QED
      BY <3>1, <3>2
  <2>3. ASSUME NEW o \in HAs
        PROVE  StepInv(o)' /\ DeletedInv(o)'
    BY <2>1, <2>2, Groups DEF StepInv, DeletedInv, Running, Idle, cloudVars
  <2> QED
    BY <2>1, <2>3, CloudSame DEF CloudInv
<1>2. CASE Destroy \/ RemoveLocal
  <2>1. /\ worker.kind = "cleanup" /\ worker.step # "instances"
        /\ UNCHANGED <<thread, objects, clusters, drawn>>
    BY <1>2 DEF Destroy, RemoveLocal, cloudVars
  <2>2. \A o \in HAs : record[o] = NoRecord /\ NoCluster(o) /\ \A n \in Names : ~Exists(o, n)
    BY <2>1, DestroyIsLate
  <2>3. CloudTypes' /\ \A o \in HAs : record'[o] = record[o]
    BY <1>2, <2>1, <2>2 DEF Destroy, RemoveLocal, cloudVars, CloudInv, CloudTypes
  <2>4. ASSUME NEW o \in HAs
        PROVE  StepInv(o)' /\ DeletedInv(o)' /\ NamedInv(o)' /\ NoCluster(o)'
    <3>1. ~Running(o)
      BY <2>1, Groups DEF ControlInv, WorkerInv, Running, Idle
    <3>2. StepInv(o)' /\ DeletedInv(o)'
      BY <2>1, <2>2, <2>3, <3>1 DEF StepInv, DeletedInv, Running
    <3>3. NamedInv(o)' /\ NoCluster(o)'
      BY <2>1, <2>2 DEF NamedInv, Exists, NoCluster
    <3> QED
      BY <3>2, <3>3
  <2> QED
    BY <2>3, <2>4 DEF CloudInv
<1> QED
  BY <1>1, <1>2

\* Rancher brings up or finalizes what was created under a recorded name.
LEMMA RancherCloud ==
  ASSUME CloudInv, NEW h \in HAs, NEW n \in Names, RancherWorks(h, n)
  PROVE  CloudInv'
<1>1. /\ h \in infra /\ UNCHANGED <<worker, infra, thread, record, artifacts, objects, drawn>>
      /\ clusters[h][n] # "absent"
      /\ \E s \in {"active", "absent"} : clusters' = [clusters EXCEPT ![h][n] = s]
  BY DEF RancherWorks, infraVars
<1>2. CloudTypes' /\ \A o \in HAs \ {h} : clusters'[o] = clusters[o]
  BY <1>1 DEF CloudInv, CloudTypes, Clouds
<1>3. \A m \in Names : clusters'[h][m] # "absent" => clusters[h][m] # "absent"
  BY <1>1 DEF CloudInv, CloudTypes
<1>4. StepInv(h)'
  BY <1>1, <1>3 DEF CloudInv, StepInv, Running, Step, NoCluster, NoObject
<1>5. DeletedInv(h)' /\ NamedInv(h)'
  BY <1>1, <1>3 DEF CloudInv, DeletedInv, NamedInv, Exists
<1> QED
  BY <1>1, <1>2, <1>4, <1>5, CloudFrame

LEMMA CloudStep == ControlInv /\ CloudInv /\ [Next]_vars => CloudInv'
<1> SUFFICES ASSUME ControlInv, CloudInv, [Next]_vars
             PROVE  CloudInv'
  OBVIOUS
<1>0. ControlInv'
  BY ControlStep
<1>1. ASSUME UNCHANGED <<worker, thread, infra, cloudVars>>
      PROVE  CloudInv'
  BY <1>1, CloudKeeps, CloudSame DEF CloudInv
<1>2. CASE UNCHANGED vars \/ \E h \in Hosted : MakeToken(h)
  BY <1>1, <1>2 DEF vars, infraVars, MakeToken
<1>3. CASE BeginSetup
  <2>1. worker'.kind = "setup" /\ UNCHANGED <<mode, infra, cloudVars>>
    BY <1>3 DEF BeginSetup, NoWorker, infraVars
  <2> QED
    BY <1>0, <2>1, SetupCloud
<1>4. CASE MainStep \/ Kill
  <2>1. CASE Apply
    <3>1. worker'.kind = "setup" /\ infra = {} /\ UNCHANGED <<mode, cloudVars>>
      BY <2>1 DEF Apply, ControlInv, WorkerInv, Worker
    <3> QED
      BY <1>0, <3>1, SetupCloud
  <2>2. CASE InstallTenants
    <3>1. UNCHANGED <<mode, worker, infra, cloudVars>>
      BY <2>2 DEF InstallTenants, infraVars
    <3>2. CASE Hosted = {Host}
      BY <1>1, <2>2, <3>1, <3>2, NoTenantsControl
    <3>3. CASE Hosted # {Host}
      <4>1. PICK t \in Hosted : t # Host
        BY <3>3, Groups, WorkersAssumption
      <4>2. Running(t) /\ Step(t) \in SetupSteps /\ t \in All
        BY <2>2, <4>1, Groups, StepSets DEF InstallTenants, AtStep
      <4>3. worker.kind = "setup"
        BY <4>2, StepTells
      <4> QED
        BY <1>0, <3>1, <4>3, SetupCloud
    <3> QED
      BY <3>2, <3>3
  <2>3. ASSUME NEW h \in Hosted, NextTenant(h)
        PROVE  CloudInv'
    <3>1. UNCHANGED <<mode, worker, infra, cloudVars>> /\ mode = "hosted-tenant-k3s" /\ thread[Host].state = "ok"
      BY <2>3 DEF NextTenant, infraVars
    <3>2. worker.kind = "setup"
      <4>1. thread[Host] # Idle /\ ThreadInv(Host)
        BY <3>1, Groups DEF ControlInv, Idle
      <4> QED
        BY <3>1, <4>1 DEF ThreadInv
    <3> QED
      BY <1>0, <3>1, <3>2, SetupCloud
  <2> QED
    BY <1>4, <2>1, <2>2, <2>3, EndsCloud, CleanupCloud DEF MainStep
<1>5. ASSUME NEW h \in All, ThreadStep(h)
      PROVE  CloudInv'
  <2>1. CASE SetupMoves(h)
    <3>1. worker.kind = "setup" /\ UNCHANGED <<mode, worker, infra, cloudVars>>
      BY <2>1, SetupMovesAre, StepTells DEF Moves
    <3> QED
      BY <1>0, <3>1, SetupCloud
  <2>2. ASSUME NEW n \in Joiners, JoinerStep(h, n) \/ JoinerFails(h, n)
        PROVE  CloudInv'
    BY <1>1, <2>2 DEF JoinerStep, JoinerFails, infraVars
  <2> QED
    BY <1>5, <2>1, <2>2, FailStepCloud DEF ThreadStep, NodeWork, SetupMoves, ServerStep, GpuStep
<1>6. ASSUME NEW h \in HAs, DownstreamStep(h)
      PROVE  CloudInv'
  BY <1>6, PlansCloud, CreateCloud, NoteCloud, WaitCloud, RemoveCloud DEF DownstreamStep
<1> QED
  BY <1>2, <1>3, <1>4, <1>5, <1>6, BeginsCloud, RancherCloud DEF Next

LEMMA CloudInit == Init => CloudInv
<1> SUFFICES ASSUME Init
             PROVE  CloudInv
  OBVIOUS
<1>1. CloudTypes
  BY WorkersAssumption DEF Init, CloudTypes, Absent, Clouds
<1>2. ASSUME NEW h \in HAs
      PROVE  StepInv(h) /\ DeletedInv(h) /\ NamedInv(h) /\ NoCluster(h)
  BY Groups DEF Init, StepInv, DeletedInv, NamedInv, NoCluster, Exists, Running, Idle, NoWorker, Absent
<1> QED
  BY <1>1, <1>2 DEF CloudInv

LEMMA CloudInvariance == Spec => []CloudInv
<1> QED
  BY ControlInvariance, CloudInit, CloudStep, PTL DEF Spec

\* Whatever exists at Linode or in Rancher is named by the record on disk, for
\* every number of instances and of clusters drawn, whenever a step fails, the
\* write of its failure fails, or the worker is killed (provisionLinodeDownstreamForHA,
\* deleteLinodeDownstream).
THEOREM DownstreamIsRecorded == Spec => []CreatedIsRecorded
<1>1. CloudInv => CreatedIsRecorded
  BY DEF CloudInv, NamedInv, Exists, CreatedIsRecorded
<1> QED
  BY <1>1, CloudInvariance, PTL

\* No destroy, complete or not, leaves a cluster without the Rancher that
\* manages it (TestHACleanup).
THEOREM DownstreamIsManaged == Spec => []NoOrphanedDownstream
<1>1. CloudInv => NoOrphanedDownstream
  BY DEF CloudInv, NoCluster, NoOrphanedDownstream
<1> QED
  BY <1>1, CloudInvariance, PTL

-----------------------------------------------------------------------------
(* What a setup that reports success has reached.                          *)

\* Where a goroutine of a setup is, by the step it is at.
LEMMA Positions ==
  ASSUME ControlInv, NEW h \in All, Running(h), Step(h) \in SetupSteps
  PROVE  LET at == thread[h].at s == Step(h) IN
           /\ at \in Nat /\ at >= 1 /\ at <= 12 /\ thread[h].path = SetupPath(h)
           /\ (s = "first" <=> at = 1) /\ (s = "token" <=> at = 2) /\ (s = "join" <=> at = 3)
           /\ ~IsTenant(h) =>
                /\ (s = "save" => at = 4) /\ (s = "install" => at = 5) /\ (s = "stable" => at = 6)
                /\ s \notin {"import", "manifest", "apply", "active", "imported"}
           /\ IsTenant(h) =>
                /\ (s = "import" => at = 4) /\ (s = "manifest" => at = 5)
                /\ (s = "save" => at \in {6, 10}) /\ (s = "apply" => at = 7)
                /\ (s = "active" => at = 8) /\ (s = "imported" => at = 9)
                /\ (s = "install" => at = 11) /\ (s = "stable" => at = 12)
<1>1. /\ thread[h].path = SetupPath(h) /\ thread[h].at \in 1..Len(SetupPath(h))
      /\ mode \in Modes /\ mode # "linode-docker-cattle"
  BY StepTells, RunningIs DEF ControlInv
<1>2. mode = "ha-rke2" \/ mode = "hosted-tenant-k3s"
  BY <1>1 DEF Modes
<1>3. /\ Len(SetupPath(h)) \in {5, 6, 12} /\ Step(h) = SetupPath(h)[thread[h].at]
      /\ Step(h) = "first" <=> thread[h].at = 1
      /\ Step(h) = "token" <=> thread[h].at = 2
      /\ Step(h) = "join" <=> thread[h].at = 3
  BY <1>1, SetupStepsAre DEF Step
<1>4. thread[h].at \in 1..12
  BY <1>1, <1>3
<1>5. CASE ~IsTenant(h)
  <2>1. IsHA(SetupPath(h)) \/ IsHost(SetupPath(h))
    BY <1>2, <1>5, SetupPathIs DEF IsTenant
  <2>2. /\ SetupPath(h)[4] = "save" /\ SetupPath(h)[5] = "install"
        /\ Len(SetupPath(h)) = 5 \/ (Len(SetupPath(h)) = 6 /\ SetupPath(h)[6] = "stable")
    BY <2>1 DEF IsHA, IsHost
  <2>3. thread[h].at \in {1, 2, 3, 4, 5, 6}
    <3>1. PICK n \in {5, 6} : n = Len(SetupPath(h))
      BY <2>2, Zenon
    <3>2. thread[h].at \in 1..n
      BY <1>1, <3>1, Zenon
    <3> QED
      BY <3>2
  <2> QED
    BY <1>1, <1>3, <1>4, <1>5, <2>2, <2>3
<1>6. CASE IsTenant(h)
  <2>1. IsTenantPath(SetupPath(h))
    BY <1>6, SetupPathIs DEF IsTenant
  <2>2. thread[h].at \in {1, 2, 3, 4, 5, 6, 7, 8, 9, 10, 11, 12}
    BY <1>4
  <2> QED
    BY <1>1, <1>3, <1>4, <1>6, <2>1, <2>2 DEF IsTenantPath
<1> QED
  BY <1>5, <1>6

\* What is done when a goroutine goes on, and when it fails or waits.
LEMMA DoneNext ==
  ASSUME ControlInv, NEW h \in All, Running(h)
  PROVE  /\ \A k \in Nat : Done(h, k) <=> thread[h].at > k
         /\ thread'[h] = Advanced(h) =>
              thread'[h] # Idle /\ \A k \in Nat : Done(h, k)' <=> thread[h].at >= k
         /\ thread'[h] = Failed(h) =>
              thread'[h] # Idle /\ \A k \in Nat : Done(h, k)' <=> Done(h, k)
<1>1. /\ thread[h].state = "run" /\ thread[h].at \in Nat /\ thread[h].path \in Tracks(h)
  BY RunningIs DEF Running
<1>2. \A k \in Nat : Done(h, k) <=> thread[h].at > k
  BY <1>1 DEF Done
<1>3. ASSUME thread'[h] = Advanced(h)
      PROVE  thread'[h] # Idle /\ \A k \in Nat : Done(h, k)' <=> thread[h].at >= k
  <2>1. thread'[h] # Idle
    BY <1>1, <1>3, AdvancedIs, PathsDiffer DEF Idle
  <2>2. \/ thread'[h].at = thread[h].at /\ thread'[h].state = "ok"
        \/ thread'[h].at = thread[h].at + 1 /\ thread'[h].state = "run"
    BY <1>3, AdvancedIs
  <2>3. \A k \in Nat : Done(h, k)' <=> thread[h].at >= k
    BY <1>1, <2>2 DEF Done
  <2> QED
    BY <2>1, <2>3
<1>4. ASSUME thread'[h] = Failed(h)
      PROVE  thread'[h] # Idle /\ \A k \in Nat : Done(h, k)' <=> Done(h, k)
  <2>1. thread'[h].at = thread[h].at /\ thread'[h].state = "failed" /\ thread'[h] # Idle
    BY <1>4, AdvancedIs DEF Idle
  <2> QED
    BY <1>1, <1>2, <2>1 DEF Done
<1> QED
  BY <1>2, <1>3, <1>4

\* The goroutines that do not move.
LEMMA ReachedFrame ==
  ASSUME NEW o \in All, ReachedInv(o), mode' = mode, thread'[o] = thread[o], nodes'[o] = nodes[o],
         joining'[o] = joining[o], joinErr'[o] = joinErr[o], rancher \subseteq rancher',
         files[o] # {} => files'[o] # {}, imports'.joined[o] = imports.joined[o],
         Imported(o) => Imported(o)'
  PROVE  ReachedInv(o)'
<1>1. IsTenant(o)' <=> IsTenant(o)
  BY DEF IsTenant
<1>2. \A k : Done(o, k)' <=> Done(o, k)
  BY DEF Done
<1>3. \A n : IsActive(o, n)' <=> IsActive(o, n)
  BY DEF IsActive
<1>4. CASE thread[o] = Idle
  BY <1>3, <1>4 DEF ReachedInv, Untouched
<1>5. CASE thread[o] # Idle
  <2>1. NodesInv(o)'
    BY <1>2, <1>3, <1>5 DEF ReachedInv, NodesInv, JoinersOf
  <2>2. ~IsTenant(o) => (Done(o, 5)' => o \in rancher' /\ files'[o] # {}) /\ imports'.joined[o] = 0
    BY <1>2, <1>5 DEF ReachedInv
  <2>3. IsTenant(o) => TenantInv(o)'
    BY <1>2, <1>5 DEF ReachedInv, TenantInv
  <2> QED
    BY <1>1, <1>5, <2>1, <2>2, <2>3 DEF ReachedInv
<1> QED
  BY <1>4, <1>5

\* While a setup runs, nothing else is to be shown.
LEMMA SetupProgress ==
  ASSUME ControlInv', SetupTypes', worker'.kind = "setup", \A h \in All : ReachedInv(h)'
  PROVE  ProgressInv'
BY DEF ProgressInv, ControlInv, WorkerInv, SetupIsComplete

\* A goroutine that begins where nothing was touched.
LEMMA StartedReached ==
  ASSUME NEW o \in All, mode' = mode, nodes'[o] = nodes[o], imports' = imports, Untouched(o),
         joining'[o] = {}, thread'[o] = Started(SetupPath(o))
  PROVE  ReachedInv(o)'
<1>1. thread'[o].at = 1 /\ thread'[o].state = "run" /\ thread'[o] # Idle
  BY StartedIs DEF Tracks
<1>2. \A k \in {1, 2, 3, 5, 8, 11} : ~Done(o, k)'
  BY <1>1 DEF Done
<1>3. \A n : IsActive(o, n)' <=> IsActive(o, n)
  BY DEF IsActive
<1>4. NodesInv(o)'
  BY <1>2, <1>3 DEF NodesInv, Untouched
<1>5. TenantInv(o)'
  BY <1>2 DEF TenantInv, Untouched
<1> QED
  BY <1>1, <1>2, <1>4, <1>5 DEF ReachedInv, Untouched

\* The node goroutines and the first node.
LEMMA NodesReached ==
  ASSUME ControlInv, ProgressInv, NEW h \in All, NodeWork(h)
  PROVE  ProgressInv'
<1>0. ControlInv' /\ SetupTypes /\ thread = [o \in All |-> thread[o]]
  BY ControlStep DEF Next, ThreadStep, ControlInv, ProgressInv
<1>1. CASE FirstStep(h)
  <2>1. /\ Running(h) /\ Step(h) = "first" /\ nodes' = [nodes EXCEPT ![h]["first"] = NodeSteps[@]]
        /\ IF nodes'[h]["first"] = "active" THEN Advance(h) ELSE UNCHANGED thread
        /\ UNCHANGED <<mode, worker, joining, joinErr, infra, files, rancher, imports>>
    BY <1>1 DEF FirstStep, AtStep, Progress
  <2>2. worker.kind = "setup" /\ thread[h].at = 1 /\ Step(h) \in SetupSteps
    BY <2>1, StepTells, Positions, StepSets
  <2>3. ReachedInv(h) /\ thread[h] # Idle /\ ~IsActive(h, "first")
    <3>1. ReachedInv(h) /\ thread[h] # Idle /\ ~Done(h, 1)
      BY <2>1, <2>2, RunningIs, DoneNext DEF ProgressInv
    <3> QED
      BY <3>1 DEF ReachedInv, NodesInv
  <2>4. nodes[h]["first"] \in {"bare", "configured", "installed"}
    BY <1>0, <2>3 DEF SetupTypes, IsActive, NodeStates
  <2>5. PICK s \in {"configured", "installed", "active"} : s = NodeSteps[nodes[h]["first"]]
    BY <2>4 DEF NodeSteps
  <2>6. nodes' = [nodes EXCEPT ![h]["first"] = s]
    BY <2>1, <2>5
  <2>7. /\ SetupTypes' /\ nodes'[h]["first"] = s
        /\ \A n \in Joiners : nodes'[h][n] = nodes[h][n]
        /\ \A o \in All \ {h} : nodes'[o] = nodes[o]
    <3>1. nodes \in [All -> [Joiners \cup {"first"} -> NodeStates]] /\ s \in NodeStates
      BY <1>0 DEF SetupTypes, NodeStates
    <3>2. /\ nodes' \in [All -> [Joiners \cup {"first"} -> NodeStates]]
          /\ nodes'[h] = [nodes[h] EXCEPT !["first"] = s]
          /\ \A o \in All \ {h} : nodes'[o] = nodes[o]
      BY <2>6, <3>1
    <3>3. nodes'[h]["first"] = s /\ \A n \in Joiners : nodes'[h][n] = nodes[h][n]
      BY <3>1, <3>2, WorkersAssumption
    <3> QED
      BY <1>0, <2>1, <3>2, <3>3 DEF SetupTypes
  <2>8. /\ \A o \in All \ {h} : thread'[o] = thread[o]
        /\ thread'[h] # Idle /\ \A k \in {1, 2, 3, 5, 8, 11} : Done(h, k)' <=> k = 1 /\ s = "active"
    <3>1. CASE s = "active"
      <4>1. thread'[h] = Advanced(h) /\ \A o \in All \ {h} : thread'[o] = thread[o]
        BY <1>0, <2>1, <2>7, <3>1 DEF Advance
      <4> QED
        BY <2>1, <2>2, <3>1, <4>1, DoneNext
    <3>2. CASE s # "active"
      <4>1. thread' = thread
        BY <2>1, <2>7, <3>2
      <4> QED
        BY <2>1, <2>2, <2>3, <3>2, <4>1, DoneNext DEF Done
    <3> QED
      BY <3>1, <3>2
  <2>9. ReachedInv(h)'
    <3>1. \A k \in {1, 2, 3, 5, 8, 11} : ~Done(h, k)
      BY <2>1, <2>2, DoneNext
    <3>2. NodesInv(h)'
      BY <2>1, <2>3, <2>7, <2>8, <3>1 DEF ReachedInv, NodesInv, IsActive
    <3>3. IsTenant(h)' <=> IsTenant(h)
      BY <2>1 DEF IsTenant
    <3>4. IsTenant(h) => TenantInv(h)'
      BY <2>1, <2>3, <2>8, <3>1 DEF ReachedInv, TenantInv
    <3> QED
      BY <2>1, <2>3, <2>8, <3>2, <3>3, <3>4 DEF ReachedInv
  <2>a. ASSUME NEW o \in All \ {h}
        PROVE  ReachedInv(o)'
    BY <2>1, <2>2, <2>7, <2>8, ReachedFrame DEF ProgressInv, Imported
  <2> QED
    BY <1>0, <2>1, <2>2, <2>7, <2>9, <2>a, SetupProgress
<1>2. ASSUME NEW n \in Joiners, JoinerStep(h, n) \/ JoinerFails(h, n)
      PROVE  ProgressInv'
  <2>1. /\ n \in joining[h] /\ UNCHANGED <<mode, worker, thread, infra, files, rancher, imports>>
        /\ worker.kind = "setup"
    BY <1>2 DEF JoinerStep, JoinerFails, infraVars, ControlInv
  <2>2. ReachedInv(h) /\ \A o \in All \ {h} : ReachedInv(o)
    BY <2>1 DEF ProgressInv
  <2>3. thread[h] # Idle /\ NodesInv(h) /\ ~IsActive(h, n)
    BY <2>1, <2>2 DEF ReachedInv, NodesInv
  <2>4. nodes \in [All -> [Joiners \cup {"first"} -> NodeStates]] /\ n # "first"
    BY <1>0, WorkersAssumption DEF SetupTypes
  <2>5. /\ SetupTypes'
        /\ \A o \in All \ {h} : /\ nodes'[o] = nodes[o] /\ joining'[o] = joining[o]
                                 /\ joinErr'[o] = joinErr[o]
        /\ \A m \in (Joiners \cup {"first"}) \ {n} : nodes'[h][m] = nodes[h][m]
        /\ joining'[h] \subseteq joining[h] /\ \A m \in joining[h] \ {n} : m \in joining'[h]
        /\ joinErr[h] => joinErr'[h]
        /\ n \in joining'[h] => ~IsActive(h, n)'
        /\ IsActive(h, n)' \/ n \in joining'[h] \/ joinErr'[h]
    <3>1. CASE JoinerStep(h, n)
      <4>1. nodes[h][n] \in {"bare", "configured", "installed"}
        BY <2>3, <2>4 DEF IsActive, NodeStates
      <4>2. PICK s \in {"configured", "installed", "active"} : s = NodeSteps[nodes[h][n]]
        BY <4>1 DEF NodeSteps
      <4>3. nodes' = [nodes EXCEPT ![h][n] = s] /\ joinErr' = joinErr
        BY <3>1, <4>2 DEF JoinerStep, Progress
      <4>4. nodes'[h] = [nodes[h] EXCEPT ![n] = s] /\ \A o \in All \ {h} : nodes'[o] = nodes[o]
        BY <2>4, <4>3
      <4>5. nodes'[h][n] = s /\ \A m \in (Joiners \cup {"first"}) \ {n} : nodes'[h][m] = nodes[h][m]
        BY <2>4, <4>4
      <4>6. nodes' \in [All -> [Joiners \cup {"first"} -> NodeStates]]
        BY <2>4, <4>2, <4>3 DEF NodeStates
      <4>7. joining' = [joining EXCEPT ![h] = IF s = "active" THEN @ \ {n} ELSE @]
        BY <3>1, <4>5 DEF JoinerStep
      <4>8. joining'[h] = (IF s = "active" THEN joining[h] \ {n} ELSE joining[h])
            /\ \A o \in All \ {h} : joining'[o] = joining[o]
        BY <4>7 DEF ControlInv
      <4> QED
        BY <1>0, <2>1, <4>2, <4>3, <4>4, <4>5, <4>6, <4>8 DEF SetupTypes, IsActive
    <3>2. CASE JoinerFails(h, n)
      <4>1. UNCHANGED nodes /\ joining' = [joining EXCEPT ![h] = @ \ {n}]
            /\ joinErr' = [joinErr EXCEPT ![h] = TRUE]
        BY <3>2 DEF JoinerFails, infraVars
      <4> QED
        BY <1>0, <2>1, <4>1 DEF SetupTypes, ControlInv
    <3> QED
      BY <1>2, <3>1, <3>2
  <2>6. NodesInv(h)'
    <3>1. \A k : Done(h, k)' <=> Done(h, k)
      BY <2>1 DEF Done
    <3>2. JoinersOf' = JoinersOf /\ JoinersOf \subseteq Joiners
      BY <2>1 DEF JoinersOf
    <3>3. Done(h, 2)
      BY <2>1, <2>3 DEF NodesInv
    <3>4. \A m \in (Joiners \cup {"first"}) \ {n} : IsActive(h, m)' <=> IsActive(h, m)
      BY <2>5 DEF IsActive
    <3>5. Done(h, 1)' <=> IsActive(h, "first")'
      BY <2>3, <2>4, <3>1, <3>4 DEF NodesInv
    <3>6. \A m \in JoinersOf' : IsActive(h, m)' \/ m \in joining'[h] \/ joinErr'[h]
      BY <2>3, <2>5, <3>2, <3>3, <3>4 DEF NodesInv
    <3>7. Done(h, 3)' => \A m \in JoinersOf' : IsActive(h, m)'
      BY <2>3, <3>1, <3>2, <3>4 DEF NodesInv
    <3>8. \A m \in joining'[h] : ~IsActive(h, m)'
      BY <1>0, <2>3, <2>5, <3>4 DEF NodesInv, ControlInv
    <3> QED
      BY <3>1, <3>3, <3>5, <3>6, <3>7, <3>8 DEF NodesInv
  <2>7. ReachedInv(h)'
    BY <2>1, <2>2, <2>3, <2>6 DEF ReachedInv, IsTenant, TenantInv, Done, Imported
  <2>8. ASSUME NEW o \in All \ {h}
        PROVE  ReachedInv(o)'
    BY <2>1, <2>2, <2>5, ReachedFrame DEF Imported
  <2> QED
    BY <1>0, <2>1, <2>5, <2>7, <2>8, SetupProgress
<1> QED
  BY <1>1, <1>2 DEF NodeWork, ServerStep, GpuStep

\* The steps on the way to Rancher leave the nodes alone, and what they reach stays.
Reaches(h) ==
  /\ UNCHANGED <<mode, worker, nodes, joining, joinErr>> /\ SetupTypes'
  /\ rancher \subseteq rancher' /\ \A o \in All : files[o] # {} => files'[o] # {}
  /\ \A o \in All \ {h} : imports'.joined[o] = imports.joined[o]
  /\ \A o \in All : Imported(o) => Imported(o)'
  /\ imports'.joined[h] = imports.joined[h] \/ (IsTenant(h) /\ thread[h].at = 5)
  /\ ~IsTenant(h) /\ thread[h].at = 5 => h \in rancher' /\ files'[h] # {}
  /\ IsTenant(h) /\ thread[h].at = 8 => Imported(h)'
  /\ IsTenant(h) /\ thread[h].at = 11 => h \in rancher' /\ files'[h] # {}

LEMMA LateReached ==
  ASSUME ControlInv, ControlInv', ProgressInv, NEW h \in All, Running(h), Step(h) \in SetupSteps,
         thread' = [thread EXCEPT ![h] = Advanced(h)], thread[h].at >= 4, Reaches(h)
  PROVE  ProgressInv'
<1> USE DEF Reaches
<1>1. worker.kind = "setup" /\ thread[h] # Idle /\ thread[h].at \in Nat
  BY StepTells, RunningIs, Positions
<1>2. thread'[h] = Advanced(h) /\ \A o \in All \ {h} : thread'[o] = thread[o]
  BY DEF ControlInv
<1>3. /\ thread'[h] # Idle /\ \A k \in Nat : Done(h, k)' <=> thread[h].at >= k
      /\ \A k \in Nat : Done(h, k) <=> thread[h].at > k
  BY <1>2, DoneNext
<1>4. ReachedInv(h)
  BY <1>1 DEF ProgressInv
<1>5. NodesInv(h)'
  <2>1. NodesInv(h) /\ Done(h, 1) /\ Done(h, 2) /\ Done(h, 3) /\ Done(h, 1)' /\ Done(h, 2)' /\ Done(h, 3)'
    BY <1>1, <1>3, <1>4 DEF ReachedInv
  <2> QED
    BY <2>1 DEF NodesInv, IsActive, JoinersOf
<1>6. IsTenant(h)' <=> IsTenant(h)
  BY DEF IsTenant
<1>7. CASE ~IsTenant(h)
  <2>1. (Done(h, 5) => h \in rancher /\ files[h] # {}) /\ imports.joined[h] = 0
    BY <1>1, <1>4, <1>7 DEF ReachedInv
  <2>2. Done(h, 5)' => Done(h, 5) \/ thread[h].at = 5
    BY <1>1, <1>3
  <2>3. ReachedInv(h)'
    BY <1>3, <1>5, <1>6, <1>7, <2>1, <2>2 DEF ReachedInv
  <2> QED
    BY <1>1, <1>2, <2>3, ReachedFrame, SetupProgress DEF ProgressInv
<1>8. CASE IsTenant(h)
  <2>1. TenantInv(h)
    BY <1>1, <1>4, <1>8 DEF ReachedInv
  <2>2. /\ Done(h, 8)' => Done(h, 8) \/ thread[h].at = 8
        /\ Done(h, 11)' => Done(h, 11) \/ thread[h].at = 11
        /\ ~Done(h, 5)' => ~Done(h, 5) /\ thread[h].at # 5
    BY <1>1, <1>3
  <2>3. TenantInv(h)'
    BY <2>1, <2>2, <1>8 DEF TenantInv
  <2>4. ReachedInv(h)'
    BY <1>3, <1>5, <1>6, <1>8, <2>3 DEF ReachedInv
  <2> QED
    BY <1>1, <1>2, <2>4, ReachedFrame, SetupProgress DEF ProgressInv
<1> QED
  BY <1>7, <1>8

\* The token of the first node lets the others join, and all of them are waited for.
LEMMA JoinReached ==
  ASSUME ControlInv, ControlInv', ProgressInv, NEW h \in All, GetToken(h) \/ Join(h)
  PROVE  ProgressInv'
<1>1. /\ Running(h) /\ Step(h) \in {"token", "join"} /\ UNCHANGED <<mode, worker, joinErr, infraVars>>
  BY DEF GetToken, Join, AtStep
<1>2. /\ worker.kind = "setup" /\ thread[h] # Idle /\ Step(h) \in SetupSteps
      /\ thread[h].at = (IF Step(h) = "token" THEN 2 ELSE 3)
      /\ \A k \in Nat : Done(h, k) <=> thread[h].at > k
  BY <1>1, StepTells, RunningIs, Positions, StepSets, DoneNext
<1>3. ReachedInv(h) /\ NodesInv(h) /\ SetupTypes
  BY <1>2 DEF ProgressInv, ReachedInv
<1>4. SetupTypes'
  BY <1>1, <1>3 DEF SetupTypes, infraVars
<1>5. /\ IsTenant(h)' <=> IsTenant(h)
      /\ \A n : IsActive(h, n)' <=> IsActive(h, n)
      /\ JoinersOf' = JoinersOf
  BY <1>1 DEF IsTenant, IsActive, JoinersOf, infraVars
<1>6. ASSUME NodesInv(h)', thread'[h] # Idle, ~Done(h, 5)', ~Done(h, 8)', ~Done(h, 11)'
      PROVE  ReachedInv(h)'
  <2>1. imports.joined[h] = 0
    BY <1>2, <1>3 DEF ReachedInv, TenantInv
  <2> QED
    BY <1>1, <1>6, <2>1 DEF ReachedInv, TenantInv, infraVars
<1>7. CASE GetToken(h)
  <2>1. Step(h) = "token" /\ thread' = [thread EXCEPT ![h] = Advanced(h)]
        /\ joining' = [joining EXCEPT ![h] = JoinersOf]
    BY <1>7 DEF GetToken, AtStep, Advance
  <2>2. /\ thread'[h] = Advanced(h) /\ joining'[h] = JoinersOf
        /\ \A o \in All \ {h} : thread'[o] = thread[o] /\ joining'[o] = joining[o]
    BY <2>1 DEF ControlInv
  <2>3. /\ thread'[h] # Idle /\ Done(h, 1)' /\ Done(h, 2)' /\ ~Done(h, 3)'
        /\ ~Done(h, 5)' /\ ~Done(h, 8)' /\ ~Done(h, 11)' /\ Done(h, 1) /\ ~Done(h, 2)
    BY <1>1, <1>2, <2>1, <2>2, DoneNext
  <2>4. JoinersOf \subseteq Joiners
    BY DEF JoinersOf
  <2>5. NodesInv(h)'
    BY <1>3, <1>5, <2>2, <2>3, <2>4 DEF NodesInv
  <2> QED
    BY <1>1, <1>2, <1>4, <1>6, <2>2, <2>3, <2>5, ReachedFrame, SetupProgress
    DEF ProgressInv, Imported, infraVars
<1>8. CASE Join(h)
  <2>1. /\ Step(h) = "join" /\ joining[h] = {} /\ joining' = joining
        /\ thread' = [thread EXCEPT ![h] = IF joinErr[h] THEN Failed(h) ELSE Advanced(h)]
    BY <1>8 DEF Join, AtStep, Failed
  <2>2. /\ thread'[h] = (IF joinErr[h] THEN Failed(h) ELSE Advanced(h))
        /\ \A o \in All \ {h} : thread'[o] = thread[o]
    BY <2>1 DEF ControlInv
  <2>3. /\ thread'[h] # Idle /\ Done(h, 1)' /\ Done(h, 2)' /\ ~Done(h, 5)' /\ ~Done(h, 8)'
        /\ ~Done(h, 11)' /\ Done(h, 1) /\ Done(h, 2) /\ (Done(h, 3)' => ~joinErr[h])
    BY <1>1, <1>2, <2>1, <2>2, DoneNext
  <2>4. NodesInv(h)'
    BY <1>1, <1>3, <1>5, <2>1, <2>3 DEF NodesInv
  <2> QED
    BY <1>1, <1>2, <1>4, <1>6, <2>1, <2>2, <2>3, <2>4, ReachedFrame, SetupProgress
    DEF ProgressInv, Imported, infraVars
<1> QED
  BY <1>7, <1>8

\* The steps of one instance after its nodes are up.
LEMMA RancherReached ==
  ASSUME ControlInv, ControlInv', ProgressInv, NEW h \in All,
         SaveKubeconfig(h) \/ Install(h) \/ Stable(h) \/ CreateImport(h) \/ FindManifest(h)
         \/ ApplyManifest(h) \/ TenantActive(h)
  PROVE  ProgressInv'
<1>1. /\ Running(h) /\ thread' = [thread EXCEPT ![h] = Advanced(h)]
      /\ Step(h) \in SetupSteps \ {"first", "token", "join"}
      /\ UNCHANGED <<mode, worker, nodes, joining, joinErr>>
  BY StepSets DEF SaveKubeconfig, Install, Stable, CreateImport, FindManifest, ApplyManifest,
     TenantActive, AtStep, Advance, infraVars
<1>2. thread[h].at \in Nat /\ thread[h].at >= 4
  BY <1>1, Positions
<1>3. SetupTypes /\ ReachedInv(h) /\ thread[h] # Idle
  BY <1>1, StepTells, RunningIs DEF ProgressInv
<1>4. CASE SaveKubeconfig(h)
  <2>1. /\ Step(h) = "save" /\ UNCHANGED <<rancher, imports>>
        /\ files' = files \/ files' = [files EXCEPT ![h] = {"kubeconfig"}]
    BY <1>4 DEF SaveKubeconfig, AtStep
  <2>2. SetupTypes' /\ \A o \in All : files[o] # {} => files'[o] # {}
    BY <1>1, <1>3, <2>1 DEF SetupTypes
  <2>3. thread[h].at \in {4, 6, 10} /\ (~IsTenant(h) => thread[h].at = 4)
    BY <1>1, <2>1, Positions
  <2>r. Reaches(h)
    BY <1>1, <1>2, <2>1, <2>2, <2>3 DEF Reaches, Imported
  <2> QED
    BY <1>1, <1>2, <2>r, LateReached
<1>5. CASE Install(h)
  <2>1. /\ Step(h) = "install" /\ files[h] # {} /\ rancher' = rancher \cup {h}
        /\ UNCHANGED <<files, imports>>
    BY <1>5 DEF Install, AtStep
  <2>2. SetupTypes'
    BY <1>1, <1>3, <2>1 DEF SetupTypes
  <2>3. thread[h].at \in {5, 11} /\ (IsTenant(h) => thread[h].at = 11)
    BY <1>1, <2>1, Positions
  <2>r. Reaches(h)
    BY <1>1, <1>2, <2>1, <2>2, <2>3 DEF Reaches, Imported
  <2> QED
    BY <1>1, <1>2, <2>r, LateReached
<1>6. CASE Stable(h) \/ ApplyManifest(h) \/ TenantActive(h)
  <2>1. /\ Step(h) \in {"stable", "apply", "active"} /\ UNCHANGED infraVars
        /\ Step(h) = "active" => Imported(h)
    BY <1>6 DEF Stable, ApplyManifest, TenantActive, AtStep, Imported
  <2>2. SetupTypes'
    BY <1>3, <2>1 DEF SetupTypes, infraVars
  <2>3. /\ thread[h].at \in {6, 7, 8, 12} /\ (thread[h].at = 8 => Step(h) = "active")
    BY <1>1, <2>1, Positions
  <2>r. Reaches(h)
    BY <1>1, <1>2, <2>1, <2>2, <2>3 DEF Reaches, Imported, infraVars
  <2> QED
    BY <1>1, <1>2, <2>r, LateReached
<1>7. CASE CreateImport(h)
  <2>1. /\ Step(h) = "import" /\ UNCHANGED <<files, rancher>>
        /\ imports' = [imports EXCEPT !.created = @ \cup {h}]
    BY <1>7 DEF CreateImport, AtStep
  <2>2. SetupTypes' /\ imports'.joined = imports.joined
    BY <1>1, <1>3, <2>1 DEF SetupTypes
  <2>3. thread[h].at = 4
    BY <1>1, <2>1, Positions
  <2>r. Reaches(h)
    BY <1>1, <1>2, <2>1, <2>2, <2>3 DEF Reaches, Imported
  <2> QED
    BY <1>1, <1>2, <2>r, LateReached
<1>8. CASE FindManifest(h)
  <2>1. /\ Step(h) = "manifest" /\ UNCHANGED <<files, rancher>> /\ imports.tokens # <<>>
        /\ imports' = [imports EXCEPT !.joined[h] = imports.tokens[Len(imports.tokens)]]
    BY <1>8 DEF FindManifest, AtStep
  <2>2. imports.tokens[Len(imports.tokens)] \in All
    BY <1>3, <2>1 DEF SetupTypes
  <2>3. PICK t \in All : t = imports.tokens[Len(imports.tokens)]
    BY <2>2
  <2>4. /\ imports.joined \in [All -> All \cup {0}]
        /\ imports' = [imports EXCEPT !.joined = [imports.joined EXCEPT ![h] = t]]
    BY <1>3, <2>1, <2>3 DEF SetupTypes
  <2>5. PICK j \in [All -> All \cup {0}] : j = [imports.joined EXCEPT ![h] = t]
    BY <2>3, <2>4
  <2>6. imports'.joined = j /\ SetupTypes'
    BY <1>1, <1>3, <2>1, <2>4, <2>5 DEF SetupTypes
  <2>7. thread[h].at = 5 /\ IsTenant(h)
    BY <1>1, <2>1, Positions
  <2>8. imports.joined[h] = 0
    <3>1. TenantInv(h) /\ ~Done(h, 5)
      BY <1>1, <1>3, <2>7, DoneNext DEF ReachedInv
    <3> QED
      BY <3>1 DEF TenantInv
  <2>9. \A o \in All \ {h} : imports'.joined[o] = imports.joined[o]
    BY <2>4, <2>5, <2>6
  <2>a. \A o \in All : Imported(o) => Imported(o)'
    <3>1. \A o \in All : o # 0
      BY WorkersAssumption DEF All
    <3> QED
      BY <2>8, <2>9, <3>1, Groups DEF Imported
  <2>r. Reaches(h)
    BY <1>1, <1>2, <2>1, <2>6, <2>7, <2>9, <2>a DEF Reaches
  <2> QED
    BY <1>1, <1>2, <2>r, LateReached
<1> QED
  BY <1>4, <1>5, <1>6, <1>7, <1>8

\* What a setup has reached is not touched by the other workers.
LEMMA ProgressSame ==
  ASSUME ProgressInv, UNCHANGED <<mode, nodes, files, rancher, imports>>,
         setup' = setup \/ setup' = "tried", worker'.kind # "setup"
  PROVE  ProgressInv'
<1>1. SetupTypes'
  BY DEF ProgressInv, SetupTypes
<1>2. setup' = "none" => \A h \in All : Untouched(h)'
  BY DEF ProgressInv, Untouched, IsActive
<1>3. SetupIsComplete'
  <2>1. Instances(mode)' = Instances(mode) /\ JoinersOf' = JoinersOf
    BY DEF Instances, JoinersOf
  <2> QED
    BY <2>1 DEF ProgressInv, SetupIsComplete
<1> QED
  BY <1>1, <1>2, <1>3 DEF ProgressInv

LEMMA ProgressKeeps ==
  ASSUME ControlInv', ProgressInv, imports'.joined = imports.joined, SetupTypes',
         UNCHANGED <<mode, worker, setup, thread, nodes, joining, joinErr, files, rancher>>
  PROVE  ProgressInv'
<1>1. CASE worker.kind = "setup"
  <2>1. ASSUME NEW o \in All
        PROVE  ReachedInv(o)'
    <3>1. ReachedInv(o) /\ (Imported(o) => Imported(o)')
      BY <1>1 DEF ProgressInv, Imported
    <3> QED
      BY <3>1, ReachedFrame
  <2> QED
    BY <1>1, <2>1, SetupProgress
<1>2. CASE worker.kind # "setup"
  <2>1. Instances(mode)' = Instances(mode) /\ JoinersOf' = JoinersOf
    BY DEF Instances, JoinersOf
  <2>2. SetupIsComplete'
    BY <2>1 DEF ProgressInv, SetupIsComplete
  <2> QED
    BY <1>2, <2>2 DEF ProgressInv, Untouched, IsActive
<1> QED
  BY <1>1, <1>2

LEMMA FailStepProgress ==
  ASSUME ControlInv, ControlInv', ProgressInv, NEW h \in All, FailStep(h)
  PROVE  ProgressInv'
<1>1. /\ Running(h) /\ thread' = [thread EXCEPT ![h] = Failed(h)]
      /\ UNCHANGED <<mode, worker, setup, infraVars, joining, joinErr>>
  BY FailStepIs DEF FailStep
<1>2. CASE worker.kind # "setup"
  BY <1>1, <1>2, ProgressSame DEF infraVars
<1>3. CASE worker.kind = "setup"
  <2>1. /\ thread'[h] = Failed(h) /\ \A o \in All \ {h} : thread'[o] = thread[o]
    BY <1>1 DEF ControlInv
  <2>2. /\ thread'[h] # Idle /\ \A k \in {1, 2, 3, 5, 8, 11} : Done(h, k)' <=> Done(h, k)
    BY <1>1, <2>1, DoneNext
  <2>3. ReachedInv(h) /\ thread[h] # Idle
    BY <1>1, <1>3, RunningIs DEF ProgressInv
  <2>4. NodesInv(h)'
    BY <1>1, <2>2, <2>3 DEF ReachedInv, NodesInv, IsActive, JoinersOf, infraVars
  <2>5. IsTenant(h)' <=> IsTenant(h)
    BY <1>1 DEF IsTenant
  <2>6. IsTenant(h) => TenantInv(h)'
    BY <1>1, <2>2, <2>3 DEF ReachedInv, TenantInv, Imported, infraVars
  <2>7. ReachedInv(h)'
    BY <1>1, <2>2, <2>3, <2>4, <2>5, <2>6 DEF ReachedInv, infraVars
  <2>8. ASSUME NEW o \in All \ {h}
        PROVE  ReachedInv(o)'
    BY <1>1, <1>3, <2>1, ReachedFrame DEF ProgressInv, Imported, infraVars
  <2>9. SetupTypes'
    BY <1>1 DEF ProgressInv, SetupTypes, infraVars
  <2> QED
    BY <1>1, <1>3, <2>7, <2>8, <2>9, SetupProgress
<1> QED
  BY <1>2, <1>3

\* The goroutines begin: all instances, the host, or the next tenant.
LEMMA BeginsProgress ==
  ASSUME ControlInv, ControlInv', ProgressInv,
         BeginSetup \/ Apply \/ \E h \in Hosted : NextTenant(h)
  PROVE  ProgressInv'
<1>1. UNCHANGED <<mode, nodes, files, rancher, imports, joining, joinErr>> /\ SetupTypes'
  BY DEF BeginSetup, Apply, NextTenant, infraVars, ProgressInv, SetupTypes
<1>2. CASE BeginSetup
  <2>1. /\ worker'.kind = "setup" /\ setup = "none" /\ thread' = thread /\ Quiet
    BY <1>2 DEF BeginSetup, NoWorker, ControlInv, WorkerInv
  <2>2. \A o \in All : ReachedInv(o)'
    BY <1>1, <2>1 DEF ProgressInv, ReachedInv, Untouched, IsActive, Quiet
  <2> QED
    BY <1>1, <2>1, <2>2, SetupProgress
<1>3. CASE Apply
  <2>1. worker.kind = "setup" /\ worker'.kind = "setup" /\ Quiet
    BY <1>3 DEF Apply, ControlInv, WorkerInv, Worker
  <2>2. ASSUME NEW o \in All
        PROVE  ReachedInv(o)'
    <3>1. Untouched(o) /\ joining'[o] = {}
      BY <1>1, <2>1 DEF Quiet, ProgressInv, ReachedInv
    <3>2. thread'[o] = Idle \/ thread'[o] = Started(SetupPath(o))
      BY <1>3 DEF Apply
    <3>3. CASE thread'[o] = Idle
      BY <1>1, <3>1, <3>3 DEF ReachedInv, Untouched, IsActive
    <3> QED
      BY <1>1, <3>1, <3>2, <3>3, StartedReached
  <2> QED
    BY <1>1, <2>1, <2>2, SetupProgress
<1>4. ASSUME NEW h \in Hosted, NextTenant(h)
      PROVE  ProgressInv'
  <2>1. /\ thread[h] = Idle /\ thread' = [thread EXCEPT ![h] = Started(SetupPath(h))]
        /\ worker' = worker /\ mode = "hosted-tenant-k3s" /\ thread[Host].state = "ok" /\ h \in All
    BY <1>4, Groups DEF NextTenant
  <2>2. worker.kind = "setup"
    <3>1. thread[Host] # Idle /\ ThreadInv(Host)
      BY <2>1, Groups DEF ControlInv, Idle
    <3> QED
      BY <2>1, <3>1 DEF ThreadInv
  <2>3. thread'[h] = Started(SetupPath(h)) /\ \A o \in All \ {h} : thread'[o] = thread[o]
    BY <2>1 DEF ControlInv
  <2>4. ReachedInv(h)'
    <3>1. Untouched(h) /\ joining'[h] = {}
      BY <1>1, <2>1, <2>2 DEF ProgressInv, ReachedInv
    <3> QED
      BY <1>1, <2>1, <2>3, <3>1, StartedReached
  <2>5. ASSUME NEW o \in All \ {h}
        PROVE  ReachedInv(o)'
    BY <1>1, <2>2, <2>3, ReachedFrame DEF ProgressInv, Imported
  <2> QED
    BY <1>1, <2>1, <2>2, <2>4, <2>5, SetupProgress
<1> QED
  BY <1>2, <1>3, <1>4

LEMMA InstallTenantsProgress ==
  ASSUME ControlInv, ControlInv', ProgressInv, InstallTenants
  PROVE  ProgressInv'
<1>1. /\ UNCHANGED <<mode, worker, setup, nodes, files, rancher, imports, joining, joinErr>>
      /\ SetupTypes' /\ mode = "hosted-tenant-k3s"
  BY DEF InstallTenants, infraVars, ProgressInv, SetupTypes
<1>2. CASE Hosted = {Host}
  BY <1>1, <1>2, NoTenantsControl, ProgressKeeps
<1>3. CASE Hosted # {Host}
  <2>1. /\ \A h \in Hosted \ {Host} : /\ h \in All /\ Running(h) /\ Step(h) = "imported"
                                      /\ thread'[h] = Advanced(h)
        /\ \A h \in All \ (Hosted \ {Host}) : thread'[h] = thread[h]
    BY Groups DEF InstallTenants, AtStep
  <2>2. PICK t \in Hosted : t # Host
    BY <1>3, Groups, WorkersAssumption
  <2>3. worker.kind = "setup"
    BY <2>1, <2>2, StepTells, StepSets
  <2>4. ASSUME NEW h \in Hosted \ {Host}
        PROVE  ReachedInv(h)'
    <3>1. IsTenant(h) /\ IsTenant(h)'
      BY <1>1 DEF IsTenant
    <3>2. thread[h].at = 9
      BY <2>1, <3>1, Positions, StepSets
    <3>3. thread'[h] # Idle /\ \A k \in {1, 2, 3, 5, 8, 11} : Done(h, k)' <=> Done(h, k)
      BY <2>1, <3>2, DoneNext
    <3>4. ReachedInv(h) /\ thread[h] # Idle
      BY <2>1, <2>3, RunningIs DEF ProgressInv
    <3>5. NodesInv(h)'
      BY <1>1, <3>3, <3>4 DEF ReachedInv, NodesInv, IsActive, JoinersOf
    <3>6. TenantInv(h)'
      BY <1>1, <3>1, <3>3, <3>4 DEF ReachedInv, TenantInv, Imported
    <3> QED
      BY <3>1, <3>3, <3>5, <3>6 DEF ReachedInv
  <2>5. ASSUME NEW o \in All \ (Hosted \ {Host})
        PROVE  ReachedInv(o)'
    BY <1>1, <2>1, <2>3, ReachedFrame DEF ProgressInv, Imported
  <2> QED
    BY <1>1, <2>3, <2>4, <2>5, SetupProgress
<1> QED
  BY <1>2, <1>3

\* A setup that reports success has waited for every goroutine.
LEMMA EndSetupProgress ==
  ASSUME ControlInv, ProgressInv, EndSetup
  PROVE  ProgressInv'
<1>1. /\ worker.kind = "setup" /\ setup = "tried" /\ worker'.kind = "none"
      /\ UNCHANGED <<mode, nodes, files, rancher, imports>>
  BY DEF EndSetup, End, NoWorker, infraVars, ControlInv, WorkerInv
<1>2. CASE setup' = setup
  BY <1>1, <1>2, ProgressSame
<1>3. CASE setup' = "ok" /\ mode = "linode-docker-cattle"
  BY <1>1, <1>3 DEF ProgressInv, SetupTypes, SetupIsComplete
<1>4. CASE setup' = "ok" /\ mode # "linode-docker-cattle"
  <2>1. \A h \in Instances(mode) : thread[h].state = "ok"
    BY <1>1, <1>4 DEF EndSetup, AllOk
  <2>2. ASSUME NEW h \in Instances(mode)
        PROVE  /\ h \in rancher /\ files[h] # {} /\ \A n \in JoinersOf \cup {"first"} : IsActive(h, n)
               /\ IsTenant(h) => Imported(h)
    <3>1. h \in All /\ thread[h] # Idle /\ ThreadInv(h) /\ ReachedInv(h)
      <4>1. h \in All /\ thread[h] # Idle
        BY <2>1, Groups DEF Idle
      <4> QED
        BY <1>1, <4>1 DEF ControlInv, ProgressInv
    <3>2. thread[h].path = SetupPath(h) /\ thread[h].at = Len(SetupPath(h))
      BY <1>1, <2>1, <3>1 DEF ThreadInv
    <3>3. thread[h].at \in {5, 6, 12} /\ (IsTenant(h) => thread[h].at = 12)
      BY <3>2, SetupPathIs, PathsDiffer DEF IsTenant, IsTenantPath
    <3>4. \A k \in {1, 2, 3, 5} : Done(h, k)
      BY <2>1, <3>3 DEF Done
    <3>5. IsTenant(h) => Done(h, 8) /\ Done(h, 11)
      BY <3>3 DEF Done
    <3> QED
      BY <3>1, <3>4, <3>5 DEF ReachedInv, NodesInv, TenantInv
  <2>3. Instances(mode)' = Instances(mode) /\ JoinersOf' = JoinersOf
    BY <1>1 DEF Instances, JoinersOf
  <2>4. SetupIsComplete'
    BY <1>1, <2>2, <2>3 DEF SetupIsComplete, IsActive, IsTenant, Imported
  <2> QED
    BY <1>1, <1>4, <2>4 DEF ProgressInv, SetupTypes
<1> QED
  BY <1>2, <1>3, <1>4 DEF EndSetup

\* Only a cleanup removes what a setup has reached.
LEMMA CleanupProgress ==
  ASSUME ControlInv, ProgressInv, CleanupFails \/ Destroy \/ RemoveLocal
  PROVE  ProgressInv'
<1>1. CASE CleanupFails
  <2>1. /\ worker.kind = "cleanup" /\ worker'.kind = "none" /\ rancher' = rancher \cap infra'
        /\ UNCHANGED <<mode, setup, nodes, files, imports>>
        /\ infra' = infra \/ worker.step = "destroy"
    BY <1>1 DEF CleanupFails, End, NoWorker
  <2>2. SetupTypes'
    BY <2>1 DEF ProgressInv, SetupTypes
  <2>3. Instances(mode)' = Instances(mode) /\ JoinersOf' = JoinersOf
    BY <2>1 DEF Instances, JoinersOf
  <2>4. SetupIsComplete'
    <3>1. setup = "ok" => infra' = Instances(mode)
      BY <2>1 DEF ControlInv, WorkerInv, LedgerInv
    <3> QED
      BY <2>1, <2>3, <3>1 DEF ProgressInv, SetupIsComplete
  <2> QED
    BY <2>1, <2>2, <2>4 DEF ProgressInv, Untouched, IsActive
<1>2. CASE Destroy \/ RemoveLocal
  <2>1. /\ setup = "tried" /\ setup' = setup /\ worker'.kind = "cleanup"
        /\ UNCHANGED <<mode, nodes, imports>>
    BY <1>2 DEF Destroy, RemoveLocal, ControlInv, WorkerInv, Worker
  <2>2. SetupTypes'
    BY <1>2, <2>1 DEF Destroy, RemoveLocal, ProgressInv, SetupTypes
  <2> QED
    BY <2>1, <2>2 DEF ProgressInv, SetupIsComplete
<1> QED
  BY <1>1, <1>2

LEMMA ProgressStep == ControlInv /\ ProgressInv /\ [Next]_vars => ProgressInv'
<1> SUFFICES ASSUME ControlInv, ProgressInv, [Next]_vars
             PROVE  ProgressInv'
  OBVIOUS
<1>0. ControlInv'
  BY ControlStep
<1>1. CASE UNCHANGED vars \/ \E h \in HAs, n \in Names : RancherWorks(h, n)
  <2>1. UNCHANGED <<mode, worker, setup, thread, nodes, joining, joinErr, files, rancher, imports>>
    BY <1>1 DEF vars, infraVars, RancherWorks
  <2>2. SetupTypes'
    BY <2>1 DEF ProgressInv, SetupTypes
  <2> QED
    BY <1>0, <2>1, <2>2, ProgressKeeps
<1>2. ASSUME NEW h \in Hosted, MakeToken(h)
      PROVE  ProgressInv'
  <2>1. /\ UNCHANGED <<mode, worker, setup, thread, nodes, joining, joinErr, files, rancher>>
        /\ imports' = [imports EXCEPT !.tokens = Append(@, h)] /\ h \in All
    BY <1>2, Groups DEF MakeToken
  <2>2. SetupTypes
    BY DEF ProgressInv
  <2>3. PICK t \in Seq(All) : t = Append(imports.tokens, h)
    <3>1. imports.tokens \in Seq(All)
      BY <2>2 DEF SetupTypes
    <3>2. Append(imports.tokens, h) \in Seq(All)
      BY <2>1, <3>1, AppendProperties, Zenon
    <3> QED
      BY <3>2, Zenon
  <2>4. imports' = [imports EXCEPT !.tokens = t]
    BY <2>1, <2>3
  <2>5. imports'.joined = imports.joined /\ SetupTypes'
    BY <2>1, <2>2, <2>4 DEF SetupTypes
  <2> QED
    BY <1>0, <2>1, <2>5, ProgressKeeps
<1>3. CASE BeginProvision \/ \E kind \in {"delete", "cleanup"} : BeginDelete(kind)
  <2>1. worker'.kind # "setup" /\ UNCHANGED <<mode, nodes, files, rancher, imports, setup>>
    BY <1>3 DEF BeginProvision, BeginDelete, NoWorker, infraVars
  <2> QED
    BY <2>1, ProgressSame
<1>4. CASE Kill \/ ApplyFails \/ EndDownstream \/ RecordCost
  <2>1. worker'.kind = "none" /\ UNCHANGED <<mode, nodes, files, rancher, imports, setup>>
    BY <1>4 DEF Kill, ApplyFails, EndDownstream, RecordCost, End, NoWorker, infraVars
  <2> QED
    BY <2>1, ProgressSame
<1>5. CASE Estimate
  <2>1. /\ worker'.kind # "setup" /\ setup' = "tried"
        /\ UNCHANGED <<mode, nodes, files, rancher, imports>>
    BY <1>5 DEF Estimate, ControlInv, Worker, infraVars
  <2> QED
    BY <2>1, ProgressSame
<1>6. ASSUME NEW h \in All, ThreadStep(h)
      PROVE  ProgressInv'
  BY <1>0, <1>6, NodesReached, JoinReached, RancherReached, FailStepProgress DEF ThreadStep
<1>7. ASSUME NEW h \in HAs, DownstreamStep(h)
      PROVE  ProgressInv'
  <2>1. /\ h \in All /\ Running(h) /\ Step(h) \notin SetupSteps
        /\ UNCHANGED <<mode, worker, setup, infraVars>>
    BY <1>7, DownMovesAre DEF Moves
  <2>2. worker.kind # "setup"
    BY <2>1, StepTells
  <2> QED
    BY <2>1, <2>2, ProgressSame DEF infraVars
<1> QED
  BY <1>0, <1>1, <1>2, <1>3, <1>4, <1>5, <1>6, <1>7, BeginsProgress, InstallTenantsProgress,
     EndSetupProgress, CleanupProgress DEF Next, MainStep

LEMMA ProgressInit == Init => ProgressInv
<1> SUFFICES ASSUME Init
             PROVE  ProgressInv
  OBVIOUS
<1>1. SetupTypes
  <2>1. <<>> \in Seq(All) /\ [h \in All |-> 0] \in [All -> All \cup {0}]
    OBVIOUS
  <2> QED
    BY <2>1 DEF Init, SetupTypes, Bare, NodeStates, NoImports
<1>2. \A h \in All : Untouched(h)
  BY DEF Init, Untouched, IsActive, Bare, NoImports
<1> QED
  BY <1>1, <1>2 DEF Init, ProgressInv, SetupIsComplete, NoWorker

\* A setup that reports success has every node of every instance active, a
\* kubeconfig and Rancher on all of them, and every tenant imported under its
\* own name, for every number of instances, tenants and nodes, whichever
\* goroutine fails first and whichever token is the latest (runHARKE2Setup,
\* runHostedTenantSetup).
THEOREM SuccessIsComplete == Spec => []SetupIsComplete
<1>1. Spec => []ProgressInv
  BY ControlInvariance, ProgressInit, ProgressStep, PTL DEF Spec
<1>2. ProgressInv => SetupIsComplete
  BY DEF ProgressInv
<1> QED
  BY <1>1, <1>2, PTL
=============================================================================
