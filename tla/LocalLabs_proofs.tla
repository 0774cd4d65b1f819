------------------------- MODULE LocalLabs_proofs --------------------------
(***************************************************************************)
(* The clusters of K3D Lab stay on record, for every number of clusters,   *)
(* endpoints and goroutines, although an action works on a copy of the     *)
(* record that it read before it took the lock, and writes it back.        *)
(***************************************************************************)
EXTENDS LocalLabs, TLAPS

Kinds == {"idle", "create", "install", "steve", "cleanup"} \cup ClusterActions
Steps == {"idle", "claim", "replace", "removing", "cleanup", "next", "started", "running",
          "exited", "write", "finish", "orphan"}
Copies == LabRecord \cup {NoRecord}
Task == [kind : Kinds, step : Steps, at : Nat, run : Runs \cup {NoRun}, copy : Copies,
         cmd : Nat, alive : BOOLEAN, ok : BOOLEAN, todo : SUBSET [run : Steves, pid : BOOLEAN]]
Entry == [running : BOOLEAN, pid : {NoPid} \cup (Tasks \X Nat)]

LabsTypes ==
  /\ entry \in [Labs -> Entry]
  /\ tasks \in [Tasks -> Task]
  /\ records \in [Runs -> Copies]
  /\ portOf \in [Runs -> Nat]
  /\ clusters \in [Clusters -> {"absent", "up", "down"}]

-----------------------------------------------------------------------------
(* The goroutines and the entry of K3D Lab.                                *)

AtCommand == {"next", "started", "running", "exited", "orphan"}
Working == AtCommand \cup {"write", "finish"}
OnCluster == {"create"} \cup ClusterActions

\* A goroutine works on a run of its lab, with a record of that run.
TaskOK(task) ==
  LET k == task.kind
      s == task.step
  IN  /\ s \in Working => k \in OnCluster \cup {"install", "steve"}
      /\ s = "claim" => k \in ClusterActions \cup {"steve"}
      /\ s \in {"replace", "removing"} => k = "steve"
      /\ s = "cleanup" => k = "cleanup"
      /\ k \in OnCluster <=> task.run \in Clusters
      /\ k \in OnCluster \cup {"steve"} /\ s \in AtCommand => task.copy \in LabRecord
      /\ k \in OnCluster /\ s = "claim" => task.copy \in LabRecord
      /\ s \in AtCommand => task.at >= 1 /\ (k \in {"delete", "remove"} => task.at = 1)
      /\ s \in AtCommand \ {"next"} <=> task.alive

TaskInv(t) == TaskOK(tasks[t])

\* One goroutine at a time has the entry, which holds the pid of its command
\* as long as that runs, whether or not its panel is still there.
HasEntry(t) == tasks[t].kind \in OnCluster \cup {"install"} /\ tasks[t].step \in Working
EntryInv(t) == HasEntry(t) =>
  /\ \A u \in Tasks : HasEntry(u) => u = t
  /\ entry["k3d"].running
  /\ entry["k3d"].pid = NoPid \/ entry["k3d"].pid[1] = t
  /\ tasks[t].step \in {"running", "exited", "orphan"} => entry["k3d"].pid = <<t, tasks[t].cmd>>

-----------------------------------------------------------------------------
(* Clusters and records.                                                   *)

Missing(record) == record = NoRecord \/ record.status = "deleted"

\* There is no cluster and nothing is left that could create it.
Gone(c) ==
  /\ clusters[c] = "absent"
  /\ \A t \in Tasks : ~(HasEntry(t) /\ tasks[t].kind = "create" /\ tasks[t].run = c)

\* The record is missing only when the cluster is gone for good, and so is any
\* copy that could still be written.
RecordInv(c) ==
  /\ Missing(records[c]) => Gone(c)
  /\ Fresh(c) => records[c] = NoRecord /\ \A t \in Tasks : tasks[t].run # c
  /\ \A t \in Tasks : tasks[t].run = c =>
       /\ Missing(tasks[t].copy) => Gone(c)
       /\ tasks[t].kind \in {"delete", "remove"} /\ tasks[t].step = "exited" /\ tasks[t].ok =>
            clusters[c] = "absent"

LabsInv == /\ LabsTypes /\ \A t \in Tasks : TaskInv(t) /\ EntryInv(t)
           /\ \A c \in Clusters : RecordInv(c)

-----------------------------------------------------------------------------
(* What a step makes of a goroutine.                                       *)

LEMMA Idles ==
  /\ IdleTask \in Task /\ TaskOK(IdleTask) /\ IdleTask.run = NoRun
  /\ IdleTask.kind = "idle" /\ IdleTask.step = "idle"
  /\ IdleEntry \in Entry /\ ~IdleEntry.running
BY LabsAssumption DEF IdleTask, IdleEntry, Task, TaskOK, Kinds, Steps, Copies, Runs, Entry,
   AtCommand, Working, OnCluster, ClusterActions

LEMMA Updates ==
  ASSUME NEW k \in Task, NEW s \in Steps
  PROVE  LET e == [k EXCEPT !.step = s] IN
           /\ e \in Task /\ e.step = s /\ e.kind = k.kind /\ e.at = k.at /\ e.run = k.run
           /\ e.copy = k.copy /\ e.cmd = k.cmd /\ e.alive = k.alive /\ e.ok = k.ok
BY DEF Task

LEMMA FailEffect ==
  ASSUME LabsTypes, NEW t \in Tasks, TaskInv(t), tasks[t].step \in AtCommand
  PROVE  LET e == Fail(t, tasks[t].copy) IN
           /\ e \in Task /\ TaskOK(e) /\ e.kind = tasks[t].kind /\ e.run = tasks[t].run
           /\ e.step \in {"write", "finish"} /\ e.cmd = tasks[t].cmd
           /\ e.copy = tasks[t].copy \/ (e.copy # NoRecord /\ e.copy.status = "failed")
<1> DEFINE k == tasks[t]
           c == IF k.kind \in {"create", "steve"} THEN [k.copy EXCEPT !.status = "failed"] ELSE k.copy
           s == IF k.kind \in {"create", "steve"} THEN "write" ELSE "finish"
<1>1. k \in Task /\ TaskOK(k) /\ k.step \in AtCommand
  BY DEF LabsTypes, TaskInv
<1>2. c \in Copies /\ (c = k.copy \/ (c \in LabRecord /\ c.status = "failed"))
  BY <1>1 DEF TaskOK, Task, Copies, LabRecord, OnCluster
<1>3. s \in {"write", "finish"} /\ s \in Steps
  BY DEF Steps
<1>4. Fail(t, tasks[t].copy) = [k EXCEPT !.alive = FALSE, !.step = s, !.copy = c]
  BY DEF Fail
<1> HIDE DEF c, s, k
<1>5. PICK e : e = [k EXCEPT !.alive = FALSE, !.step = s, !.copy = c]
  OBVIOUS
<1>6. /\ e \in Task /\ e.kind = k.kind /\ e.run = k.run /\ e.step = s /\ e.cmd = k.cmd
      /\ e.copy = c /\ e.alive = FALSE
  BY <1>1, <1>2, <1>3, <1>5 DEF Task
<1>7. TaskOK(e)
  BY <1>1, <1>3, <1>6 DEF TaskOK, AtCommand, Working
<1> QED
  BY <1>2, <1>3, <1>4, <1>5, <1>6, <1>7, LabsAssumption DEF k

LEMMA Scripts ==
  /\ \A k \in {"delete", "remove", "stop", "install"} : Len(Script[k]) = 1
  /\ Len(Script["create"]) = 3 /\ Len(Script["restart"]) = 2 /\ Len(Script["steve"]) = 6
BY DEF Script

\* The stage is done: on to the next one, or to the write of the result.
LEMMA AdvanceEffect ==
  ASSUME LabsTypes, NEW t \in Tasks, TaskInv(t), tasks[t].step \in AtCommand,
         NEW copy \in LabRecord \cup {tasks[t].copy}
  PROVE  LET e == Advance(t, copy) IN
           /\ e \in Task /\ TaskOK(e) /\ e.kind = tasks[t].kind /\ e.run = tasks[t].run
           /\ e.step \in {"next", "write", "finish"} /\ e.cmd = tasks[t].cmd
           /\ Missing(e.copy) => Missing(copy) \/ tasks[t].kind \in {"delete", "remove"}
           /\ tasks[t].kind \in {"delete", "remove"} => e.step = "write"
<1> DEFINE k == tasks[t]
           last == k.at = Len(Script[k.kind])
           s == IF ~last THEN "next" ELSE IF k.kind = "install" THEN "finish" ELSE "write"
           c == IF ~last \/ k.kind = "install" THEN copy
                ELSE IF k.kind = "remove" THEN NoRecord
                ELSE [copy EXCEPT !.status = FinalStatus(k.kind)]
<1>1. k \in Task /\ TaskOK(k) /\ k.step \in AtCommand
  BY DEF LabsTypes, TaskInv
<1>2. k.kind # "install" => copy \in LabRecord
  BY <1>1 DEF TaskOK, AtCommand, Working
<1>3. /\ k.kind \in OnCluster \cup {"install", "steve"}
      /\ k.kind \in {"delete", "remove"} => last
      /\ (k.kind = "install" /\ copy \in Copies) \/ copy \in LabRecord
  BY <1>1, <1>2, Scripts DEF TaskOK, AtCommand, Working, Task
<1>4. ASSUME k.kind # "install", k.kind # "remove"
      PROVE  /\ FinalStatus(k.kind) \in {"running", "stopped", "deleted", "serving"}
             /\ FinalStatus(k.kind) = "deleted" => k.kind = "delete"
  BY <1>3, <1>4 DEF FinalStatus, OnCluster, ClusterActions
<1>5. /\ c \in Copies /\ (k.kind # "install" /\ ~last => c \in LabRecord)
      /\ Missing(c) => Missing(copy) \/ k.kind \in {"delete", "remove"}
  <2>1. CASE ~last \/ k.kind = "install"
    BY <2>1, <1>3 DEF Copies
  <2>2. CASE last /\ k.kind = "remove"
    BY <2>2 DEF Copies
  <2>3. CASE last /\ k.kind \notin {"install", "remove"}
    <3>1. PICK f : f = FinalStatus(k.kind) /\ f \in {"running", "stopped", "deleted", "serving"}
                   /\ (f = "deleted" => k.kind = "delete")
      BY <2>3, <1>4
    <3>2. c = [copy EXCEPT !.status = f] /\ copy \in LabRecord
      BY <2>3, <1>2, <3>1
    <3> QED
      BY <2>3, <3>1, <3>2, LabsAssumption DEF LabRecord, Copies, Missing
  <2> QED
    BY <2>1, <2>2, <2>3
<1>6. /\ s \in {"next", "write", "finish"} /\ s \in Steps
      /\ s = "next" => ~last
      /\ k.kind \in {"delete", "remove"} => s = "write"
  BY <1>3 DEF Steps
<1>7. Advance(t, copy) = [k EXCEPT !.at = k.at + 1, !.alive = FALSE, !.step = s, !.copy = c]
  BY DEF Advance
<1> HIDE DEF c, s, k, last
<1>8. PICK e : e = [k EXCEPT !.at = k.at + 1, !.alive = FALSE, !.step = s, !.copy = c]
  OBVIOUS
<1>9. /\ e \in Task /\ e.kind = k.kind /\ e.run = k.run /\ e.step = s /\ e.cmd = k.cmd
      /\ e.copy = c /\ e.alive = FALSE /\ e.at = k.at + 1 /\ e.at \in Nat /\ k.at \in Nat
  <2>1. k \in Task /\ k.at + 1 \in Nat /\ s \in Steps /\ c \in Copies
    BY <1>1, <1>5, <1>6 DEF Task
  <2> QED
    BY <1>8, <2>1 DEF Task
<1>10. TaskOK(e)
  <2>1. s = "next" => k.kind \notin {"delete", "remove"} /\ (k.kind # "install" => c \in LabRecord)
    BY <1>5, <1>6
  <2> QED
    BY <1>1, <1>3, <1>6, <1>9, <2>1 DEF TaskOK, AtCommand, Working, OnCluster, ClusterActions
<1> QED
  BY <1>5, <1>6, <1>7, <1>8, <1>9, <1>10 DEF k

-----------------------------------------------------------------------------
(* Kinds of steps.                                                         *)

\* Who finds the entry free finds no goroutine or command behind it.
LEMMA FreeEntry ==
  ASSUME LabsInv, "k3dGap" \notin Faults, MayLook("k3d"), ~Busy("k3d")
  PROVE  \A t \in Tasks : ~HasEntry(t)
<1> SUFFICES ASSUME NEW t \in Tasks, HasEntry(t) PROVE FALSE
  OBVIOUS
<1>1. /\ entry["k3d"].running
      /\ entry["k3d"].pid = NoPid \/ entry["k3d"].pid[1] = t
      /\ tasks[t].step \in {"running", "exited", "orphan"} => entry["k3d"].pid = <<t, tasks[t].cmd>>
      /\ tasks[t].step \in {"running", "exited", "orphan"} => tasks[t].alive
  BY DEF LabsInv, EntryInv, TaskInv, TaskOK, AtCommand
<1>2. Stale("k3d") /\ entry["k3d"].pid[1] = t
  BY <1>1 DEF Busy, Stale
<1>3. CASE tasks[t].step \in {"running", "exited", "orphan"}
  <2>1. PidAlive(<<t, tasks[t].cmd>>)
    BY <1>1, <1>3 DEF PidAlive
  <2> QED
    BY <1>1, <1>2, <1>3, <2>1 DEF Stale
<1>4. CASE tasks[t].step \in {"next", "started", "write", "finish"}
  BY <1>2, <1>4 DEF MayLook, InGap, GapOf
<1> QED
  BY <1>3, <1>4 DEF HasEntry, Working, AtCommand

\* Steps beside K3D Lab: goroutines that end, or that are none of this lab's.
LEMMA Aside ==
  ASSUME LabsInv, LabsTypes', entry'["k3d"] = entry["k3d"], clusters' = clusters,
         \A c \in Clusters : records'[c] = records[c] /\ portOf'[c] = portOf[c],
         \A t \in Tasks : \/ tasks'[t] = tasks[t]
                          \/ TaskOK(tasks'[t]) /\ ~HasEntry(t)' /\ tasks'[t].run \notin Clusters
  PROVE  LabsInv'
<1>1. \A t \in Tasks : TaskInv(t)'
  BY DEF LabsInv, TaskInv
<1>2. \A t \in Tasks : HasEntry(t)' => HasEntry(t) /\ tasks'[t] = tasks[t]
  BY DEF HasEntry
<1>3. \A t \in Tasks : EntryInv(t)'
  BY <1>2 DEF LabsInv, EntryInv
<1>4. \A c \in Clusters : Gone(c) => Gone(c)'
  BY <1>2 DEF Gone
<1>5. \A c \in Clusters : RecordInv(c)'
  BY <1>4 DEF LabsInv, RecordInv, Fresh
<1> QED
  BY <1>1, <1>3, <1>5 DEF LabsInv

\* The goroutine with the entry goes on.
LEMMA Proceed ==
  ASSUME LabsInv, LabsTypes', NEW t \in Tasks, HasEntry(t), NEW e \in Task, TaskOK(e),
         tasks' = [tasks EXCEPT ![t] = e],
         e.kind = tasks[t].kind, e.run = tasks[t].run, e.step \in Working,
         entry'["k3d"].running,
         entry'["k3d"].pid = NoPid \/ entry'["k3d"].pid[1] = t,
         e.step \in {"running", "exited", "orphan"} => entry'["k3d"].pid = <<t, e.cmd>>,
         portOf' = portOf,
         \A c \in Clusters \ {e.run} : clusters'[c] = clusters[c] /\ records'[c] = records[c],
         e.run \in Clusters =>
           /\ Gone(e.run) => clusters'[e.run] = "absent"
           /\ Missing(records'[e.run]) => Missing(records[e.run]) \/ Missing(tasks[t].copy)
           /\ \/ Missing(e.copy) => Missing(tasks[t].copy)
              \/ e.kind \in {"delete", "remove"} /\ clusters'[e.run] = "absent"
           /\ e.kind \in {"delete", "remove"} /\ e.step = "exited" /\ e.ok =>
                clusters'[e.run] = "absent"
  PROVE  LabsInv'
<1>0. /\ \A u \in Tasks \ {t} : tasks'[u] = tasks[u]
      /\ tasks'[t] = e /\ t \in DOMAIN tasks
  BY DEF LabsInv, LabsTypes
<1>1. \A u \in Tasks : TaskInv(u)'
  BY <1>0 DEF LabsInv, TaskInv
<1>2. \A u \in Tasks : HasEntry(u)' <=> u = t
  BY <1>0 DEF LabsInv, EntryInv, HasEntry
<1>3. \A u \in Tasks : EntryInv(u)'
  BY <1>0, <1>2 DEF EntryInv
<1>4. \A c \in Clusters : Gone(c) => Gone(c)'
  BY <1>0, <1>2 DEF Gone
<1>5. e.run \in Clusters /\ e.kind \in {"delete", "remove"} /\ clusters'[e.run] = "absent" => Gone(e.run)'
  BY <1>0, <1>2 DEF Gone
<1>6. ASSUME NEW c \in Clusters PROVE RecordInv(c)'
  <2>0. RecordInv(c)
    BY DEF LabsInv
  <2>1. Missing(records'[c]) => Gone(c)'
    BY <1>4, <2>0 DEF RecordInv
  <2>2. Fresh(c)' => records'[c] = NoRecord /\ \A u \in Tasks : tasks'[u].run # c
    BY <1>0, <2>0 DEF RecordInv, Fresh
  <2>3. ASSUME NEW u \in Tasks, tasks'[u].run = c, Missing(tasks'[u].copy) PROVE Gone(c)'
    BY <1>0, <1>4, <1>5, <2>0, <2>3 DEF RecordInv
  <2>4. ASSUME NEW u \in Tasks, tasks'[u].run = c, tasks'[u].kind \in {"delete", "remove"},
               tasks'[u].step = "exited", tasks'[u].ok
        PROVE  clusters'[c] = "absent"
    <3>1. HasEntry(u)'
      BY <2>4 DEF HasEntry, OnCluster, ClusterActions, Working, AtCommand
    <3> QED
      BY <1>0, <1>2, <2>4, <3>1
  <2> QED
    BY <2>1, <2>2, <2>3, <2>4 DEF RecordInv
<1> QED
  BY <1>1, <1>3, <1>6 DEF LabsInv

\* A goroutine takes the free entry, for a new run or for one it has a record of.
LEMMA Claim ==
  ASSUME LabsInv, LabsTypes', NEW t \in Tasks, \A u \in Tasks : ~HasEntry(u),
         NEW e \in Task, TaskOK(e), tasks' = [tasks EXCEPT ![t] = e], e.step = "next",
         entry'["k3d"].running, entry'["k3d"].pid = NoPid,
         clusters' = clusters,
         \/ e.run \in Clusters /\ Fresh(e.run) /\ portOf'[e.run] # 0 /\ ~Missing(records'[e.run])
                               /\ ~Missing(e.copy)
         \/ /\ e.kind # "create"
            /\ (e.run = tasks[t].run /\ e.copy = tasks[t].copy) \/ e.run \notin Clusters
            /\ e.run \in Clusters => portOf'[e.run] = portOf[e.run] /\ records'[e.run] = records[e.run],
         \A c \in Clusters \ {e.run} : portOf'[c] = portOf[c] /\ records'[c] = records[c]
  PROVE  LabsInv'
<1>0. /\ \A u \in Tasks \ {t} : tasks'[u] = tasks[u]
      /\ tasks'[t] = e
  BY DEF LabsInv, LabsTypes
<1>1. \A u \in Tasks : TaskInv(u)'
  BY <1>0 DEF LabsInv, TaskInv
<1>2. \A u \in Tasks : HasEntry(u)' => u = t
  BY <1>0 DEF HasEntry
<1>3. \A u \in Tasks : EntryInv(u)'
  BY <1>0, <1>2 DEF EntryInv
<1>4. ASSUME NEW c \in Clusters PROVE RecordInv(c)'
  <2>0. RecordInv(c)
    BY DEF LabsInv
  <2>1. CASE e.run = c /\ Fresh(e.run) /\ portOf'[e.run] # 0 /\ ~Missing(records'[e.run])
             /\ ~Missing(e.copy)
    <3>1. \A u \in Tasks \ {t} : tasks'[u].run # c
      BY <1>0, <2>0, <2>1 DEF RecordInv
    <3> QED
      BY <1>0, <2>1, <3>1 DEF RecordInv, Fresh
  <2>2. CASE /\ portOf'[c] = portOf[c] /\ records'[c] = records[c]
             /\ ~(e.kind = "create" /\ e.run = c)
             /\ (e.run = tasks[t].run /\ e.copy = tasks[t].copy) \/ e.run # c
    <3>1. Gone(c) => Gone(c)'
      BY <1>0, <1>2, <2>2 DEF Gone
    <3> QED
      BY <1>0, <2>0, <2>2, <3>1 DEF RecordInv, Fresh
  <2> QED
    BY <2>1, <2>2
<1> QED
  BY <1>1, <1>3, <1>4 DEF LabsInv

LEMMA Pairs == \A o, a, b : o = <<a, b>> => o[1] = a /\ o[2] = b
OBVIOUS

\* A command of a lab: what it does to the cluster of its run.
LEMMA Effects ==
  ASSUME LabsInv, NEW t \in Tasks, tasks[t].step \in {"running", "orphan"}, NEW ok \in BOOLEAN,
         CommandEffect(t, ok)
  PROVE  /\ clusters' \in [Clusters -> {"absent", "up", "down"}]
         /\ \A c \in Clusters \ {tasks[t].run} : clusters'[c] = clusters[c]
         /\ tasks[t].run \in Clusters =>
              /\ HasEntry(t)
              /\ Gone(tasks[t].run) => clusters'[tasks[t].run] = "absent"
              /\ tasks[t].kind \in {"delete", "remove"} /\ ok => clusters'[tasks[t].run] = "absent"
         /\ tasks[t].run \notin Clusters => clusters' = clusters
<1> DEFINE c == tasks[t].run
           k == tasks[t].kind
<1>0. TaskOK(tasks[t]) /\ clusters \in [Clusters -> {"absent", "up", "down"}]
  BY DEF LabsInv, LabsTypes, TaskInv
<1>1. CASE ~(Stage(t) = "k3d" /\ c \in Clusters)
  <2>1. clusters' = clusters
    BY <1>1 DEF CommandEffect
  <2>2. c \in Clusters => k \in OnCluster /\ HasEntry(t)
    BY <1>0 DEF TaskOK, HasEntry, AtCommand, Working
  <2>3. c \in Clusters => k \notin {"delete", "remove"}
    BY <1>0, <1>1 DEF TaskOK, AtCommand, Stage, Script
  <2> QED
    BY <1>0, <2>1, <2>2, <2>3 DEF Gone
<1>2. CASE Stage(t) = "k3d" /\ c \in Clusters
  <2>1. k \in OnCluster /\ HasEntry(t)
    BY <1>0, <1>2 DEF TaskOK, HasEntry, AtCommand, Working
  <2>2. PICK o \in Outcomes(k, c) : ok = o[1] /\ clusters' = [clusters EXCEPT ![c] = o[2]]
    BY <1>2 DEF CommandEffect
  <2>3. clusters[c] \in {"absent", "up", "down"} /\ (Gone(c) => clusters[c] = "absent" /\ k # "create")
    BY <1>0, <1>2, <2>1 DEF Gone
  <2>4. /\ o[2] \in {"absent", "up", "down"}
        /\ Gone(c) => o[2] = "absent"
        /\ k \in {"delete", "remove"} /\ o[1] = TRUE => o[2] = "absent"
    <3>1. CASE k = "create"
      <4>1. o = <<FALSE, "absent">> \/ o = <<FALSE, "down">> \/ o = <<TRUE, "up">>
        BY <2>2, <3>1 DEF Outcomes
      <4>2. o[2] \in {"absent", "up", "down"}
        BY <4>1, Pairs
      <4> QED
        BY <2>3, <3>1, <4>2
    <3>2. CASE k = "stop"
      <4>1. o = <<FALSE, clusters[c]>> \/ (o = <<TRUE, "down">> /\ clusters[c] # "absent")
        BY <2>2, <3>2 DEF Outcomes
      <4>2. o[2] = clusters[c] \/ (o[2] = "down" /\ clusters[c] # "absent")
        BY <4>1, Pairs
      <4> QED
        BY <2>3, <3>2, <4>2
    <3>3. CASE k = "restart"
      <4>1. o = <<FALSE, clusters[c]>> \/ (o = <<TRUE, "up">> /\ clusters[c] # "absent")
        BY <2>2, <3>3 DEF Outcomes
      <4>2. o[2] = clusters[c] \/ (o[2] = "up" /\ clusters[c] # "absent")
        BY <4>1, Pairs
      <4> QED
        BY <2>3, <3>3, <4>2
    <3>4. CASE k \in {"delete", "remove"}
      <4>1. o = <<FALSE, clusters[c]>> \/ o = <<TRUE, "absent">>
        BY <2>2, <3>4 DEF Outcomes
      <4>2. o = <<FALSE, clusters[c]>> => o[1] = FALSE /\ o[2] = clusters[c]
        BY Pairs
      <4>3. o = <<TRUE, "absent">> => o[2] = "absent"
        BY Pairs
      <4> QED
        BY <2>3, <3>4, <4>1, <4>2, <4>3
    <3> QED
      BY <2>1, <3>1, <3>2, <3>3, <3>4 DEF OnCluster, ClusterActions
  <2> QED
    BY <1>0, <1>2, <2>1, <2>2, <2>4
<1> QED
  BY <1>1, <1>2

\* A goroutine is set, the others stay.
LEMMA SetTask ==
  ASSUME LabsTypes, NEW t \in Tasks, NEW e \in Task, tasks' = [tasks EXCEPT ![t] = e]
  PROVE  /\ tasks' \in [Tasks -> Task] /\ tasks'[t] = e
         /\ \A u \in Tasks \ {t} : tasks'[u] = tasks[u]
BY DEF LabsTypes

\* A goroutine turns to a run that is none of K3D Lab's.
LEMMA AsideTask ==
  ASSUME LabsInv, NEW t \in Tasks, NEW e \in Task, TaskOK(e), tasks' = [tasks EXCEPT ![t] = e],
         e.run \notin Clusters, e.kind # "install",
         entry' \in [Labs -> Entry], entry'["k3d"] = entry["k3d"], clusters' = clusters,
         records' \in [Runs -> Copies], portOf' \in [Runs -> Nat],
         \A c \in Clusters : records'[c] = records[c] /\ portOf'[c] = portOf[c]
  PROVE  LabsInv'
<1>1. /\ tasks' \in [Tasks -> Task] /\ tasks'[t] = e
      /\ \A u \in Tasks \ {t} : tasks'[u] = tasks[u]
  BY SetTask DEF LabsInv
<1>2. LabsTypes'
  BY <1>1 DEF LabsInv, LabsTypes
<1>3. ~HasEntry(t)'
  BY <1>1 DEF TaskOK, HasEntry
<1> QED
  BY <1>1, <1>2, <1>3, Aside

\* A goroutine of either lab goes on and leaves the entry.
LEMMA StepOn ==
  ASSUME LabsInv, NEW t \in Tasks, tasks[t].step \in Working, NEW e \in Task, TaskOK(e),
         tasks' = [tasks EXCEPT ![t] = e], e.kind = tasks[t].kind, e.run = tasks[t].run,
         e.step \in Working,
         e.step \in {"running", "exited", "orphan"} =>
           tasks[t].step \in {"running", "exited", "orphan"} /\ e.cmd = tasks[t].cmd,
         entry' = entry, portOf' = portOf,
         clusters' \in [Clusters -> {"absent", "up", "down"}], records' \in [Runs -> Copies],
         \A c \in Clusters \ {e.run} : clusters'[c] = clusters[c] /\ records'[c] = records[c],
         e.run \notin Clusters => clusters' = clusters,
         e.run \in Clusters =>
           /\ Gone(e.run) => clusters'[e.run] = "absent"
           /\ Missing(records'[e.run]) => Missing(records[e.run]) \/ Missing(tasks[t].copy)
           /\ \/ Missing(e.copy) => Missing(tasks[t].copy)
              \/ e.kind \in {"delete", "remove"} /\ clusters'[e.run] = "absent"
           /\ e.kind \in {"delete", "remove"} /\ e.step = "exited" /\ e.ok =>
                clusters'[e.run] = "absent"
  PROVE  LabsInv'
<1>1. LabsTypes'
  BY SetTask DEF LabsInv, LabsTypes
<1>2. TaskOK(tasks[t])
  BY DEF LabsInv, TaskInv
<1>3. CASE tasks[t].kind = "steve"
  <2>1. e.run \notin Clusters
    BY <1>2, <1>3 DEF TaskOK, OnCluster, ClusterActions
  <2> QED
    BY <1>1, <1>3, <2>1, AsideTask DEF LabsTypes
<1>4. CASE HasEntry(t)
  <2>1. /\ entry["k3d"].running
        /\ entry["k3d"].pid = NoPid \/ entry["k3d"].pid[1] = t
        /\ tasks[t].step \in {"running", "exited", "orphan"} =>
             entry["k3d"].pid = <<t, tasks[t].cmd>>
    BY <1>4 DEF LabsInv, EntryInv
  <2> QED
    BY <1>1, <1>4, <2>1, Proceed
<1> QED
  BY <1>2, <1>3, <1>4 DEF TaskOK, HasEntry

\* Goroutines that end, and commands that their panel leaves behind.
LEMMA Release ==
  ASSUME LabsInv, entry' \in [Labs -> Entry], tasks' \in [Tasks -> Task],
         clusters' \in [Clusters -> {"absent", "up", "down"}],
         records' = records, portOf' = portOf,
         \A u \in Tasks : \/ tasks'[u] = tasks[u] \/ tasks'[u] = IdleTask
                          \/ /\ tasks[u].step \in {"running", "orphan"}
                             /\ tasks'[u] = [tasks[u] EXCEPT !.step = "orphan"],
         (\E u \in Tasks : HasEntry(u)') => entry'["k3d"] = entry["k3d"] /\ clusters' = clusters,
         \A c \in Clusters : Gone(c) => clusters'[c] = "absent"
  PROVE  LabsInv'
<1>1. LabsTypes'
  BY DEF LabsInv, LabsTypes
<1>2. ASSUME NEW u \in Tasks
      PROVE  /\ TaskOK(tasks'[u])
             /\ tasks'[u] = IdleTask \/ /\ tasks'[u].kind = tasks[u].kind /\ tasks'[u].run = tasks[u].run
                                        /\ tasks'[u].copy = tasks[u].copy
                                        /\ tasks'[u].cmd = tasks[u].cmd
                                        /\ \/ tasks'[u] = tasks[u]
                                           \/ /\ tasks'[u].step = "orphan"
                                              /\ tasks[u].step \in {"running", "orphan"}
  <2>1. tasks[u] \in Task /\ TaskOK(tasks[u])
    BY DEF LabsInv, LabsTypes, TaskInv
  <2>2. CASE /\ tasks[u].step \in {"running", "orphan"}
             /\ tasks'[u] = [tasks[u] EXCEPT !.step = "orphan"]
    <3>1. /\ tasks'[u].kind = tasks[u].kind /\ tasks'[u].run = tasks[u].run
          /\ tasks'[u].copy = tasks[u].copy /\ tasks'[u].cmd = tasks[u].cmd
          /\ tasks'[u].step = "orphan" /\ tasks'[u].at = tasks[u].at
          /\ tasks'[u].alive = tasks[u].alive
      BY <2>1, <2>2 DEF Task
    <3> QED
      BY <2>1, <2>2, <3>1 DEF TaskOK, AtCommand, Working
  <2> QED
    BY <2>1, <2>2, Idles
<1>3. \A u \in Tasks : TaskInv(u)'
  BY <1>2 DEF TaskInv
<1>4. \A u \in Tasks : HasEntry(u)' => HasEntry(u) /\ tasks'[u] # IdleTask
  BY <1>2, Idles DEF HasEntry, Working, AtCommand, OnCluster, ClusterActions
<1>5. \A u \in Tasks : EntryInv(u)'
  <2> SUFFICES ASSUME NEW u \in Tasks, HasEntry(u)' PROVE EntryInv(u)'
    BY DEF EntryInv
  <2>1. HasEntry(u) /\ EntryInv(u) /\ entry'["k3d"] = entry["k3d"]
    BY <1>4 DEF LabsInv
  <2>2. \A v \in Tasks : HasEntry(v)' => v = u
    BY <1>4, <2>1 DEF EntryInv
  <2>3. tasks'[u].step \in {"running", "exited", "orphan"} =>
          entry'["k3d"].pid = <<u, tasks'[u].cmd>>
    BY <1>2, <1>4, <2>1 DEF EntryInv
  <2> QED
    BY <2>1, <2>2, <2>3 DEF EntryInv
<1>6. \A c \in Clusters : Gone(c) => Gone(c)'
  BY <1>2, <1>4 DEF Gone
<1>7. ASSUME NEW c \in Clusters PROVE RecordInv(c)'
  <2>0. RecordInv(c) /\ c # NoRun
    BY LabsAssumption DEF LabsInv, Runs
  <2>1. \A u \in Tasks : tasks'[u].run = c => /\ tasks'[u] # IdleTask /\ tasks[u].run = c
                                              /\ tasks'[u].copy = tasks[u].copy
    BY <1>2, <2>0, Idles
  <2>2. Missing(records'[c]) => Gone(c)'
    BY <1>6, <2>0 DEF RecordInv
  <2>3. Fresh(c)' => records'[c] = NoRecord /\ \A u \in Tasks : tasks'[u].run # c
    BY <2>0, <2>1 DEF RecordInv, Fresh
  <2>4. \A u \in Tasks : tasks'[u].run = c /\ Missing(tasks'[u].copy) => Gone(c)'
    BY <1>6, <2>0, <2>1 DEF RecordInv
  <2>5. ASSUME NEW u \in Tasks, tasks'[u].run = c, tasks'[u].kind \in {"delete", "remove"},
               tasks'[u].step = "exited", tasks'[u].ok
        PROVE  clusters'[c] = "absent"
    <3>1. HasEntry(u)' /\ tasks'[u] = tasks[u]
      BY <1>2, <2>1, <2>5 DEF HasEntry, OnCluster, ClusterActions, Working, AtCommand
    <3> QED
      BY <2>0, <2>5, <3>1 DEF RecordInv
  <2> QED
    BY <2>2, <2>3, <2>4, <2>5 DEF RecordInv
<1> QED
  BY <1>1, <1>3, <1>5, <1>7 DEF LabsInv

LEMMA Listed ==
  ASSUME LabsTypes
  PROVE  /\ ListSteve \in [Runs -> Copies]
         /\ \A c \in Clusters : ListSteve[c] = records[c]
         /\ \A s \in Steves : ListSteve[s] # NoRecord => ListSteve[s] \in LabRecord
<1>1. ASSUME NEW s \in Steves PROVE Corrected(s) \in Copies
  <2>1. records[s] \in Copies
    BY DEF LabsTypes, Runs
  <2>2. CASE records[s] = NoRecord
    BY <2>1, <2>2 DEF Corrected
  <2>3. CASE records[s] \in LabRecord
    <3> DEFINE new == IF records[s].status \in {"serving", "starting"} THEN "stopped" ELSE records[s].status
    <3>1. PICK f : f = new
      OBVIOUS
    <3>2. [records[s] EXCEPT !.pid = FALSE, !.status = f] \in LabRecord
      BY <2>3, <3>1 DEF LabRecord
    <3>3. Corrected(s) \in {records[s], [records[s] EXCEPT !.pid = FALSE, !.status = f]}
      BY <3>1 DEF Corrected
    <3> QED
      BY <2>1, <3>2, <3>3 DEF Copies
  <2> QED
    BY <2>1, <2>2, <2>3 DEF Copies
<1> QED
  BY <1>1, LabsAssumption DEF ListSteve, LabsTypes, Runs, Copies

-----------------------------------------------------------------------------
(* Requests.                                                               *)

LEMMA StartKeeps ==
  ASSUME LabsInv, "k3dGap" \notin Faults, NEW t \in Tasks, NEW c \in Clusters, NEW p \in Ports,
         StartK3DLab(t, c, p)
  PROVE  LabsInv'
<1> DEFINE new == [status |-> "creating", pid |-> FALSE]
<1>0. LabsTypes /\ new \in LabRecord /\ new # NoRecord /\ new.status # "deleted"
      /\ p \in Nat /\ p # 0 /\ c \in Runs
  <2>1. new \in LabRecord /\ new.status # "deleted"
    BY DEF LabRecord
  <2> HIDE DEF new
  <2> QED
    BY <2>1, LabsAssumption DEF LabsInv, Runs
<1>1. PICK e : e = [IdleTask EXCEPT !.kind = "create", !.step = "next", !.at = 1, !.run = c,
                                    !.copy = new]
  OBVIOUS
<1>2. /\ e \in Task /\ e.kind = "create" /\ e.step = "next" /\ e.run = c /\ e.copy = new
      /\ e.alive = FALSE /\ e.at = 1
  BY <1>0, <1>1, Idles DEF Task, Kinds, Steps, Copies, IdleTask
<1>3. TaskOK(e)
  BY <1>0, <1>2 DEF TaskOK, OnCluster, ClusterActions, AtCommand, Working
<1>4. \A u \in Tasks : ~HasEntry(u)
  BY FreeEntry DEF StartK3DLab
<1>5. tasks' = [tasks EXCEPT ![t] = e]
  BY <1>1 DEF StartK3DLab
<1>6. /\ entry' \in [Labs -> Entry] /\ entry'["k3d"].running /\ entry'["k3d"].pid = NoPid
      /\ clusters' = clusters
  BY <1>0 DEF StartK3DLab, Claimed, LabsTypes, Labs, Entry
<1>7. /\ records' \in [Runs -> Copies] /\ records'[c] = new
      /\ \A d \in Clusters \ {c} : records'[d] = records[d]
  <2>1. /\ ListSteve \in [Runs -> Copies]
        /\ \A d \in Clusters : ListSteve[d] = records[d]
    BY <1>0, Listed
  <2>2. records' = [ListSteve EXCEPT ![c] = new]
    BY DEF StartK3DLab
  <2> QED
    BY <1>0, <2>1, <2>2 DEF Copies, Runs
<1>8. /\ portOf' \in [Runs -> Nat] /\ portOf'[c] # 0
      /\ \A d \in Clusters \ {c} : portOf'[d] = portOf[d]
  BY <1>0 DEF StartK3DLab, LabsTypes, Runs
<1>9. LabsTypes'
  BY <1>0, <1>2, <1>5, <1>6, <1>7, <1>8, SetTask DEF LabsTypes
<1>10. Fresh(c) /\ ~Missing(records'[c]) /\ ~Missing(e.copy)
  BY <1>0, <1>2, <1>7 DEF StartK3DLab, Missing
<1> HIDE DEF new
<1> QED
  BY <1>2, <1>3, <1>4, <1>5, <1>6, <1>7, <1>8, <1>9, <1>10, Claim

LEMMA InstallKeeps ==
  ASSUME LabsInv, "k3dGap" \notin Faults, NEW t \in Tasks, StartInstall(t)
  PROVE  LabsInv'
<1>0. LabsTypes /\ NoRun \notin Clusters
  BY LabsAssumption DEF LabsInv, Runs
<1>1. PICK e : e = [IdleTask EXCEPT !.kind = "install", !.step = "next", !.at = 1]
  OBVIOUS
<1>2. /\ e \in Task /\ e.kind = "install" /\ e.step = "next" /\ e.run = NoRun
      /\ e.alive = FALSE /\ e.at = 1
  BY <1>0, <1>1, Idles DEF Task, Kinds, Steps, Copies, IdleTask
<1>3. TaskOK(e)
  BY <1>0, <1>2 DEF TaskOK, OnCluster, ClusterActions, AtCommand, Working
<1>4. \A u \in Tasks : ~HasEntry(u)
  BY FreeEntry DEF StartInstall
<1>5. tasks' = [tasks EXCEPT ![t] = e]
  BY <1>1 DEF StartInstall
<1>6. /\ entry' \in [Labs -> Entry] /\ entry'["k3d"].running /\ entry'["k3d"].pid = NoPid
      /\ clusters' = clusters /\ records' = records /\ portOf' = portOf
  BY <1>0 DEF StartInstall, Claimed, LabsTypes, Labs, Entry
<1>7. LabsTypes'
  BY <1>0, <1>2, <1>5, <1>6, SetTask DEF LabsTypes
<1> QED
  BY <1>0, <1>2, <1>3, <1>4, <1>5, <1>6, <1>7, Claim

\* The copy that an action reads before it takes the lock is missing only when
\* the cluster is gone for good.
LEMMA RequestKeeps ==
  ASSUME LabsInv, NEW t \in Tasks, NEW c \in Clusters, NEW kind \in ClusterActions,
         RequestAction(t, c, kind)
  PROVE  LabsInv'
<1>0. LabsTypes /\ c \in Runs /\ records[c] \in LabRecord
  BY DEF LabsInv, LabsTypes, Runs, RequestAction, Copies
<1>1. PICK e : e = [IdleTask EXCEPT !.kind = kind, !.step = "claim", !.run = c, !.copy = records[c]]
  OBVIOUS
<1>2. /\ e \in Task /\ e.kind = kind /\ e.step = "claim" /\ e.run = c /\ e.copy = records[c]
      /\ e.alive = FALSE
  BY <1>0, <1>1, Idles DEF Task, Kinds, Steps, Copies, IdleTask
<1>3. TaskOK(e)
  BY <1>0, <1>2 DEF TaskOK, OnCluster, ClusterActions, AtCommand, Working
<1>4. tasks' = [tasks EXCEPT ![t] = e] /\ UNCHANGED <<entry, records, portOf, clusters>>
  BY <1>1 DEF RequestAction
<1>5. /\ tasks' \in [Tasks -> Task] /\ tasks'[t] = e
      /\ \A u \in Tasks \ {t} : tasks'[u] = tasks[u]
  BY <1>0, <1>2, <1>4, SetTask
<1>6. LabsTypes' /\ \A u \in Tasks : TaskInv(u)'
  BY <1>0, <1>3, <1>4, <1>5 DEF LabsTypes, LabsInv, TaskInv
<1>7. \A u \in Tasks : HasEntry(u)' => HasEntry(u) /\ tasks'[u] = tasks[u]
  BY <1>2, <1>5 DEF HasEntry, Working, AtCommand
<1>8. \A u \in Tasks : EntryInv(u)'
  BY <1>4, <1>7 DEF LabsInv, EntryInv
<1>9. \A d \in Clusters : Gone(d) => Gone(d)'
  BY <1>4, <1>7 DEF Gone
<1>10. ASSUME NEW d \in Clusters PROVE RecordInv(d)'
  <2>1. RecordInv(d) /\ RecordInv(c)
    BY DEF LabsInv
  <2>2. ~Fresh(c)
    BY <1>0, <2>1, LabsAssumption DEF RecordInv
  <2> QED
    BY <1>2, <1>4, <1>5, <1>9, <2>1, <2>2 DEF RecordInv, Fresh
<1> QED
  BY <1>6, <1>8, <1>10 DEF LabsInv

LEMMA ClaimKeeps ==
  ASSUME LabsInv, "k3dGap" \notin Faults, NEW t \in Tasks, ClaimAction(t)
  PROVE  LabsInv'
<1>0. LabsTypes /\ tasks[t] \in Task /\ TaskOK(tasks[t]) /\ NoRun \notin Clusters
  BY LabsAssumption DEF LabsInv, LabsTypes, TaskInv, Runs
<1>1. CASE tasks' = [tasks EXCEPT ![t] = IdleTask] /\ entry' = entry
  BY <1>0, <1>1, Idles, AsideTask DEF ClaimAction, LabsTypes
<1>2. CASE /\ ~Busy("k3d") /\ entry' = Claimed("k3d")
           /\ tasks' = [tasks EXCEPT ![t].step = "next", ![t].at = 1]
  <2>1. PICK e : e = [tasks[t] EXCEPT !.step = "next", !.at = 1]
    OBVIOUS
  <2>2. /\ e \in Task /\ e.kind = tasks[t].kind /\ e.run = tasks[t].run /\ e.step = "next"
        /\ e.copy = tasks[t].copy /\ e.at = 1 /\ e.alive = tasks[t].alive
    BY <1>0, <2>1 DEF Task, Steps
  <2>3. TaskOK(e) /\ e.kind \in ClusterActions
    BY <1>0, <2>2 DEF ClaimAction, TaskOK, OnCluster, ClusterActions, AtCommand, Working
  <2>4. tasks' = [tasks EXCEPT ![t] = e]
    BY <1>0, <1>2, <2>1 DEF LabsTypes
  <2>5. \A u \in Tasks : ~HasEntry(u)
    BY <1>2, FreeEntry DEF ClaimAction
  <2>6. /\ entry' \in [Labs -> Entry] /\ entry'["k3d"].running /\ entry'["k3d"].pid = NoPid
        /\ clusters' = clusters /\ records' = records /\ portOf' = portOf
    BY <1>0, <1>2 DEF ClaimAction, Claimed, LabsTypes, Labs, Entry
  <2>7. LabsTypes'
    BY <1>0, <2>2, <2>4, <2>6, SetTask DEF LabsTypes
  <2>8. e.kind # "create"
    BY <2>3 DEF ClusterActions
  <2> QED
    BY <1>0, <2>2, <2>3, <2>4, <2>5, <2>6, <2>7, <2>8, Claim
<1> QED
  BY <1>1, <1>2 DEF ClaimAction

-----------------------------------------------------------------------------
(* Steve Lab.                                                              *)

LEMMA RequestSteveKeeps ==
  ASSUME LabsInv, NEW t \in Tasks, NEW replace \in BOOLEAN, RequestSteve(t, replace)
  PROVE  LabsInv'
<1> DEFINE active == Active(ListSteve)
           s == IF active = {} THEN "claim" ELSE "replace"
           todo == {[run |-> x, pid |-> ListSteve[x].pid] : x \in active}
<1>0. LabsTypes /\ NoRun \notin Clusters
  BY LabsAssumption DEF LabsInv, Runs
<1>1. todo \in SUBSET [run : Steves, pid : BOOLEAN]
  BY <1>0, Listed DEF Active, LabRecord
<1>2. s \in {"claim", "replace"}
  OBVIOUS
<1>3. tasks' = [tasks EXCEPT ![t] = [IdleTask EXCEPT !.kind = "steve", !.step = s, !.todo = todo]]
  BY DEF RequestSteve
<1> HIDE DEF s, todo, active
<1>4. PICK e : e = [IdleTask EXCEPT !.kind = "steve", !.step = s, !.todo = todo]
  OBVIOUS
<1>5. e \in Task /\ e.kind = "steve" /\ e.step = s /\ e.run = NoRun /\ e.alive = FALSE
  BY <1>1, <1>2, <1>4, Idles DEF Task, Kinds, Steps, IdleTask
<1>6. TaskOK(e)
  BY <1>0, <1>2, <1>5 DEF TaskOK, OnCluster, ClusterActions, AtCommand, Working
<1>7. /\ records' \in [Runs -> Copies] /\ \A c \in Clusters : records'[c] = records[c]
      /\ entry' = entry /\ portOf' = portOf /\ clusters' = clusters
  BY <1>0, Listed DEF RequestSteve
<1> QED
  BY <1>0, <1>3, <1>4, <1>5, <1>6, <1>7, AsideTask DEF LabsTypes

LEMMA ReplaceKeeps ==
  ASSUME LabsInv, NEW t \in Tasks, ReplaceInterrupt(t) \/ ReplaceRemove(t)
  PROVE  LabsInv'
<1>0. LabsTypes /\ tasks[t] \in Task /\ TaskOK(tasks[t]) /\ NoRun \notin Clusters
      /\ tasks[t].kind = "steve" /\ tasks[t].run \notin Clusters
      /\ Clusters \cap Steves = {}
  BY LabsAssumption DEF LabsInv, LabsTypes, TaskInv, Runs, ReplaceInterrupt, ReplaceRemove, TaskOK,
     OnCluster, ClusterActions
<1>1. CASE ReplaceInterrupt(t)
  <2>1. PICK x \in tasks[t].todo : tasks' = [tasks EXCEPT ![t].step = "removing", ![t].run = x.run]
    BY <1>1 DEF ReplaceInterrupt
  <2>2. x.run \in Steves
    BY <1>0 DEF Task
  <2>3. PICK e : e = [tasks[t] EXCEPT !.step = "removing", !.run = x.run]
    OBVIOUS
  <2>4. /\ e \in Task /\ e.kind = "steve" /\ e.step = "removing" /\ e.run = x.run
        /\ e.alive = tasks[t].alive
    BY <1>0, <2>2, <2>3 DEF Task, Steps, Runs
  <2>5. TaskOK(e) /\ e.run \notin Clusters
    BY <1>0, <1>1, <2>2, <2>4 DEF TaskOK, OnCluster, ClusterActions, AtCommand, Working,
       ReplaceInterrupt
  <2>6. tasks' = [tasks EXCEPT ![t] = e]
    BY <1>0, <2>1, <2>3 DEF LabsTypes
  <2> QED
    BY <1>0, <1>1, <2>4, <2>5, <2>6, AsideTask DEF ReplaceInterrupt, LabsTypes
<1>2. CASE ReplaceRemove(t) /\ tasks' = [tasks EXCEPT ![t] = IdleTask] /\ records' = records
  BY <1>0, <1>2, Idles, AsideTask DEF ReplaceRemove, LabsTypes
<1>3. CASE ReplaceRemove(t) /\ records' = [records EXCEPT ![tasks[t].run] = NoRecord]
  <2> DEFINE rest == {x \in tasks[t].todo : x.run # tasks[t].run}
             s == IF rest = {} THEN "claim" ELSE "replace"
  <2>1. CASE tasks' = [tasks EXCEPT ![t].step = s, ![t].run = NoRun, ![t].todo = rest]
    <3>1. rest \in SUBSET tasks[t].todo /\ s \in {"claim", "replace"}
      OBVIOUS
    <3> HIDE DEF rest, s
    <3>2. PICK e : e = [tasks[t] EXCEPT !.step = s, !.run = NoRun, !.todo = rest]
      OBVIOUS
    <3>3. /\ e \in Task /\ e.kind = "steve" /\ e.step = s /\ e.run = NoRun
          /\ e.alive = tasks[t].alive
      BY <1>0, <3>1, <3>2 DEF Task, Steps
    <3>4. TaskOK(e)
      BY <1>0, <1>3, <3>1, <3>3 DEF TaskOK, OnCluster, ClusterActions, AtCommand, Working,
         ReplaceRemove
    <3>5. tasks' = [tasks EXCEPT ![t] = e]
      BY <1>0, <2>1, <3>2 DEF LabsTypes
    <3>6. records' \in [Runs -> Copies] /\ \A c \in Clusters : records'[c] = records[c]
      BY <1>0, <1>3 DEF LabsTypes, Runs, Copies
    <3> QED
      BY <1>0, <1>3, <3>3, <3>4, <3>5, <3>6, AsideTask DEF ReplaceRemove, LabsTypes
  <2>2. CASE tasks' = [tasks EXCEPT ![t] = IdleTask] /\ records' = records
    BY <1>2, <1>3, <2>2
  <2> QED
    BY <1>3, <2>1, <2>2 DEF ReplaceRemove
<1> QED
  BY <1>1, <1>2, <1>3 DEF ReplaceRemove

LEMMA ClaimSteveKeeps ==
  ASSUME LabsInv, NEW t \in Tasks, ClaimSteve(t)
  PROVE  LabsInv'
<1>0. LabsTypes /\ tasks[t] \in Task /\ TaskOK(tasks[t]) /\ NoRun \notin Clusters
      /\ tasks[t].kind = "steve" /\ tasks[t].run \notin Clusters
  BY LabsAssumption DEF LabsInv, LabsTypes, TaskInv, Runs, ClaimSteve, TaskOK,
     OnCluster, ClusterActions
<1>1. CASE tasks' = [tasks EXCEPT ![t] = IdleTask] /\ UNCHANGED <<entry, records, portOf>>
  BY <1>0, <1>1, Idles, AsideTask DEF ClaimSteve, LabsTypes
<1>2. ASSUME NEW s \in Steves, NEW p \in Ports, NEW new, new = [status |-> "running", pid |-> FALSE],
             portOf' = [portOf EXCEPT ![s] = p],
             records' = [ListSteve EXCEPT ![s] = new],
             tasks' = [tasks EXCEPT ![t].step = "next", ![t].at = 1, ![t].run = s, ![t].copy = new],
             entry' = Claimed("steve")
      PROVE  LabsInv'
  <2>1. s \in Runs /\ s \notin Clusters /\ new \in LabRecord /\ p \in Nat
    BY <1>2, LabsAssumption DEF Runs, LabRecord
  <2>2. PICK e : e = [tasks[t] EXCEPT !.step = "next", !.at = 1, !.run = s, !.copy = new]
    OBVIOUS
  <2>3. /\ e \in Task /\ e.kind = "steve" /\ e.step = "next" /\ e.run = s /\ e.copy = new
        /\ e.alive = tasks[t].alive /\ e.at = 1 /\ tasks[t].alive \in BOOLEAN
    BY <1>0, <2>1, <2>2 DEF Task, Steps, Copies
  <2>4. TaskOK(e)
    <3>1. ~tasks[t].alive
      BY <1>0 DEF TaskOK, AtCommand, ClaimSteve
    <3> QED
      BY <2>1, <2>3, <3>1 DEF TaskOK, OnCluster, ClusterActions, AtCommand, Working
  <2>5. tasks' = [tasks EXCEPT ![t] = e]
    BY <1>0, <1>2, <2>2 DEF LabsTypes
  <2>6. records' \in [Runs -> Copies] /\ \A c \in Clusters : records'[c] = records[c]
    BY <1>0, <1>2, <2>1, Listed DEF Copies
  <2>7. portOf' \in [Runs -> Nat] /\ \A c \in Clusters : portOf'[c] = portOf[c]
    BY <1>0, <1>2, <2>1 DEF LabsTypes, Runs
  <2>8. entry' \in [Labs -> Entry] /\ entry'["k3d"] = entry["k3d"] /\ clusters' = clusters
    BY <1>0, <1>2 DEF ClaimSteve, Claimed, LabsTypes, Labs, Entry
  <2> QED
    BY <2>1, <2>3, <2>4, <2>5, <2>6, <2>7, <2>8, AsideTask
<1> QED
  BY <1>1, <1>2 DEF ClaimSteve

LEMMA StoppedType ==
  ASSUME LabsTypes, NEW s \in Steves, records[s] # NoRecord
  PROVE  /\ Stopped(s) \in [Runs -> Copies] /\ Stopped(s)[s] \in LabRecord
         /\ \A c \in Clusters : Stopped(s)[c] = records[c]
<1>1. records[s] \in LabRecord /\ s \in Runs /\ s \notin Clusters
  BY LabsAssumption DEF LabsTypes, Runs, Copies
<1>2. PICK e : e = [records[s] EXCEPT !.pid = FALSE, !.status = "stopped"]
  OBVIOUS
<1>3. e \in LabRecord
  BY <1>1, <1>2 DEF LabRecord
<1>4. Stopped(s) = [records EXCEPT ![s] = e]
  BY <1>1, <1>2 DEF Stopped, LabsTypes
<1> QED
  BY <1>1, <1>3, <1>4 DEF LabsTypes, Runs, Copies

LEMMA CleanupKeeps ==
  ASSUME LabsInv, NEW t \in Tasks, NEW s \in Steves, CleanupSteve(t, s)
  PROVE  LabsInv'
<1> DEFINE stopped == IF records[s].pid THEN Stopped(s) ELSE records
<1>0. LabsTypes /\ s \in Runs /\ s \notin Clusters /\ records[s] # NoRecord /\ records[s] \in LabRecord
  BY LabsAssumption DEF LabsInv, LabsTypes, CleanupSteve, Runs, Copies
<1>1. /\ stopped \in [Runs -> Copies] /\ stopped[s] \in LabRecord
      /\ \A c \in Clusters : stopped[c] = records[c]
  BY <1>0, StoppedType DEF LabsTypes
<1>2. /\ records' = stopped
      /\ tasks' = [tasks EXCEPT ![t] = [IdleTask EXCEPT !.kind = "cleanup", !.step = "cleanup",
                      !.run = s, !.copy = [stopped[s] EXCEPT !.status = "cleaned"]]]
  BY DEF CleanupSteve
<1> HIDE DEF stopped
<1>3. PICK copy : copy = [stopped[s] EXCEPT !.status = "cleaned"]
  OBVIOUS
<1>4. copy \in LabRecord
  BY <1>1, <1>3 DEF LabRecord
<1>5. PICK e : e = [IdleTask EXCEPT !.kind = "cleanup", !.step = "cleanup", !.run = s, !.copy = copy]
  OBVIOUS
<1>6. /\ e \in Task /\ e.kind = "cleanup" /\ e.step = "cleanup" /\ e.run = s /\ e.copy = copy
      /\ e.alive = FALSE
  BY <1>0, <1>4, <1>5, Idles DEF Task, Kinds, Steps, Copies, IdleTask
<1>7. TaskOK(e)
  BY <1>0, <1>4, <1>6 DEF TaskOK, OnCluster, ClusterActions, AtCommand, Working
<1>8. tasks' = [tasks EXCEPT ![t] = e]
  BY <1>2, <1>3, <1>5
<1>9. /\ entry' \in [Labs -> Entry] /\ entry'["k3d"] = entry["k3d"] /\ clusters' = clusters
      /\ portOf' = portOf
  BY <1>0, Idles DEF CleanupSteve, LabsTypes, Labs
<1> QED
  BY <1>0, <1>1, <1>2, <1>6, <1>7, <1>8, <1>9, AsideTask DEF LabsTypes

LEMMA FinishCleanupKeeps ==
  ASSUME LabsInv, NEW t \in Tasks, FinishCleanup(t)
  PROVE  LabsInv'
<1>0. LabsTypes /\ NoRun \notin Clusters /\ tasks[t] \in Task /\ tasks[t].run \notin Clusters
  BY LabsAssumption DEF LabsInv, LabsTypes, TaskInv, TaskOK, FinishCleanup, OnCluster,
     ClusterActions, Runs
<1>1. PICK new \in {NoRecord, tasks[t].copy, records[tasks[t].run]} :
           records' = [records EXCEPT ![tasks[t].run] = new]
  BY DEF FinishCleanup
<1>2. records' \in [Runs -> Copies] /\ \A c \in Clusters : records'[c] = records[c]
  <2>1. CASE tasks[t].run \in Runs
    BY <1>0, <1>1, <2>1 DEF LabsTypes, Task, Copies, Runs
  <2>2. CASE tasks[t].run \notin Runs
    BY <1>0, <1>1, <2>2 DEF LabsTypes, Runs
  <2> QED
    BY <2>1, <2>2
<1> QED
  BY <1>0, <1>2, Idles, AsideTask DEF FinishCleanup, LabsTypes

-----------------------------------------------------------------------------
(* The steps of an action.                                                 *)

LEMMA SpawnKeeps ==
  ASSUME LabsInv, NEW t \in Tasks, Spawn(t)
  PROVE  LabsInv'
<1>0. LabsTypes /\ tasks[t] \in Task /\ TaskOK(tasks[t]) /\ tasks[t].step = "next" /\ TaskInv(t)
      /\ UNCHANGED <<entry, records, portOf, clusters>>
  BY DEF LabsInv, LabsTypes, TaskInv, Spawn, AtStage
<1>1. CASE tasks' = [tasks EXCEPT ![t].step = "started", ![t].alive = TRUE, ![t].cmd = @ + 1]
  <2>1. PICK e : e = [tasks[t] EXCEPT !.step = "started", !.alive = TRUE, !.cmd = tasks[t].cmd + 1]
    OBVIOUS
  <2>2. /\ e \in Task /\ e.kind = tasks[t].kind /\ e.run = tasks[t].run /\ e.step = "started"
        /\ e.copy = tasks[t].copy /\ e.at = tasks[t].at /\ e.alive = TRUE
    <3>1. tasks[t].cmd + 1 \in Nat
      BY <1>0 DEF Task
    <3>2. PICK n \in Nat : n = tasks[t].cmd + 1
      BY <3>1
    <3>3. e = [tasks[t] EXCEPT !.step = "started", !.alive = TRUE, !.cmd = n]
      BY <2>1, <3>2
    <3> QED
      BY <1>0, <3>3 DEF Task, Steps
  <2>3. TaskOK(e)
    BY <1>0, <2>2 DEF TaskOK, AtCommand, Working
  <2>4. tasks' = [tasks EXCEPT ![t] = e]
    BY <1>0, <1>1, <2>1 DEF LabsTypes
  <2> QED
    BY <1>0, <2>2, <2>3, <2>4, StepOn DEF LabsTypes, Gone, Working, AtCommand
<1>2. CASE tasks' = [tasks EXCEPT ![t] = Fail(t, tasks[t].copy)]
  <2>1. PICK e : e = Fail(t, tasks[t].copy)
    OBVIOUS
  <2>2. /\ e \in Task /\ TaskOK(e) /\ e.kind = tasks[t].kind /\ e.run = tasks[t].run
        /\ e.step \in {"write", "finish"}
        /\ Missing(e.copy) => Missing(tasks[t].copy)
    BY <1>0, <2>1, FailEffect DEF AtCommand, Missing
  <2> QED
    BY <1>0, <1>2, <2>1, <2>2, StepOn DEF LabsTypes, Gone, Working, AtCommand
<1>3. CASE Tolerated(t) /\ tasks' = [tasks EXCEPT ![t] = Advance(t, tasks[t].copy)]
  <2>1. PICK e : e = Advance(t, tasks[t].copy)
    OBVIOUS
  <2>2. /\ e \in Task /\ TaskOK(e) /\ e.kind = tasks[t].kind /\ e.run = tasks[t].run
        /\ e.step \in {"next", "write", "finish"}
        /\ Missing(e.copy) => Missing(tasks[t].copy)
    BY <1>0, <1>3, <2>1, AdvanceEffect DEF AtCommand, Tolerated
  <2> QED
    BY <1>0, <1>3, <2>1, <2>2, StepOn DEF LabsTypes, Gone, Working, AtCommand
<1> QED
  BY <1>1, <1>2, <1>3 DEF Spawn

LEMMA PidKeeps ==
  ASSUME LabsInv, NEW t \in Tasks, RecordPid(t)
  PROVE  LabsInv'
<1>0. LabsTypes /\ tasks[t] \in Task /\ TaskOK(tasks[t]) /\ tasks[t].step = "started"
      /\ UNCHANGED <<records, portOf, clusters>>
  BY DEF LabsInv, LabsTypes, TaskInv, RecordPid
<1>1. PICK e : e = [tasks[t] EXCEPT !.step = "running"]
  OBVIOUS
<1>2. /\ e \in Task /\ e.kind = tasks[t].kind /\ e.run = tasks[t].run /\ e.step = "running"
      /\ e.copy = tasks[t].copy /\ e.at = tasks[t].at /\ e.alive = tasks[t].alive
      /\ e.cmd = tasks[t].cmd
  BY <1>0, <1>1, Updates DEF Steps
<1>3. TaskOK(e)
  BY <1>0, <1>2 DEF TaskOK, AtCommand, Working
<1>4. tasks' = [tasks EXCEPT ![t] = e]
  BY <1>0, <1>1 DEF LabsTypes, RecordPid
<1>5. PICK pid : pid = <<t, tasks[t].cmd>>
  OBVIOUS
<1>6. pid \in Tasks \X Nat /\ pid[1] = t
  BY <1>0, <1>5 DEF Task
<1>7. entry' = [entry EXCEPT ![LabOf(tasks[t].kind)].pid = pid]
  BY <1>5 DEF RecordPid
<1>8. entry' \in [Labs -> Entry]
  BY <1>0, <1>6, <1>7 DEF LabsTypes, Labs, Entry, LabOf
<1>9. LabsTypes'
  BY <1>0, <1>2, <1>4, <1>8, SetTask DEF LabsTypes
<1>10. CASE tasks[t].kind = "steve"
  <2>1. e.run \notin Clusters /\ e.kind = "steve"
    BY <1>0, <1>2, <1>10 DEF TaskOK, OnCluster, ClusterActions
  <2>2. entry'["k3d"] = entry["k3d"]
    BY <1>0, <1>7, <1>10 DEF LabsTypes, Labs, LabOf
  <2> QED
    BY <1>0, <1>2, <1>3, <1>4, <1>8, <2>1, <2>2, AsideTask DEF LabsTypes
<1>11. CASE HasEntry(t)
  <2>1. entry["k3d"].running
    BY <1>11 DEF LabsInv, EntryInv
  <2>2. LabOf(tasks[t].kind) = "k3d"
    BY <1>11 DEF HasEntry, LabOf, OnCluster, ClusterActions
  <2>3. entry'["k3d"].running /\ entry'["k3d"].pid = pid
    BY <1>0, <1>7, <2>1, <2>2 DEF LabsTypes, Labs, Entry
  <2> QED
    BY <1>0, <1>2, <1>3, <1>4, <1>5, <1>6, <1>9, <1>11, <2>3, Proceed DEF Gone, Working, AtCommand
<1> QED
  BY <1>0, <1>10, <1>11 DEF TaskOK, HasEntry, Working, AtCommand

LEMMA ExitKeeps ==
  ASSUME LabsInv, NEW t \in Tasks, CommandExits(t)
  PROVE  LabsInv'
<1>0. LabsTypes /\ tasks[t] \in Task /\ TaskOK(tasks[t]) /\ tasks[t].step = "running"
      /\ UNCHANGED <<entry, records, portOf>>
  BY DEF LabsInv, LabsTypes, TaskInv, CommandExits
<1>1. PICK ok \in BOOLEAN : /\ CommandEffect(t, ok)
                            /\ tasks' = [tasks EXCEPT ![t].step = "exited", ![t].ok = ok]
  BY DEF CommandExits
<1>2. PICK e : e = [tasks[t] EXCEPT !.step = "exited", !.ok = ok]
  OBVIOUS
<1>3. /\ e \in Task /\ e.kind = tasks[t].kind /\ e.run = tasks[t].run /\ e.step = "exited"
      /\ e.copy = tasks[t].copy /\ e.at = tasks[t].at /\ e.alive = tasks[t].alive
      /\ e.cmd = tasks[t].cmd /\ e.ok = ok
  BY <1>0, <1>2 DEF Task, Steps
<1>4. TaskOK(e)
  BY <1>0, <1>3 DEF TaskOK, AtCommand, Working
<1>5. tasks' = [tasks EXCEPT ![t] = e]
  BY <1>0, <1>1, <1>2 DEF LabsTypes
<1>6. /\ clusters' \in [Clusters -> {"absent", "up", "down"}]
      /\ \A c \in Clusters \ {tasks[t].run} : clusters'[c] = clusters[c]
      /\ tasks[t].run \in Clusters =>
           /\ Gone(tasks[t].run) => clusters'[tasks[t].run] = "absent"
           /\ tasks[t].kind \in {"delete", "remove"} /\ ok => clusters'[tasks[t].run] = "absent"
      /\ tasks[t].run \notin Clusters => clusters' = clusters
  BY <1>0, <1>1, Effects
<1> QED
  BY <1>0, <1>3, <1>4, <1>5, <1>6, StepOn DEF LabsTypes, Working, AtCommand

LEMMA Facts ==
  ASSUME LabsInv, NEW t \in Tasks, tasks[t].step \in Working
  PROVE  /\ LabsTypes /\ TaskInv(t) /\ tasks[t] \in Task
         /\ tasks[t].run \in Clusters => tasks[t].kind \in OnCluster /\ HasEntry(t)
                                         /\ tasks[t].run \in Runs
         /\ tasks[t].kind \in OnCluster => tasks[t].run \in Clusters
         /\ tasks[t].kind \in OnCluster \cup {"install", "steve"}
         /\ tasks[t].kind # "install" /\ tasks[t].step \in AtCommand => tasks[t].copy \in LabRecord
BY DEF LabsInv, LabsTypes, TaskInv, TaskOK, HasEntry, Runs, AtCommand, Working

\* The record that a goroutine writes back is its copy.
LEMMA TouchedIs ==
  ASSUME LabsInv, NEW t \in Tasks, tasks[t].step \in Working
  PROVE  /\ Touched(t) \in [Runs -> Copies]
         /\ \A c \in Clusters \ {tasks[t].run} : Touched(t)[c] = records[c]
         /\ tasks[t].run \in Clusters => Touched(t)[tasks[t].run] = tasks[t].copy
<1>1. LabsTypes /\ tasks[t] \in Task /\ Clusters \subseteq Runs
      /\ (tasks[t].run \in Clusters => tasks[t].kind # "install")
  BY Facts DEF OnCluster, ClusterActions, Runs
<1>2. CASE tasks[t].kind = "install"
  BY <1>1, <1>2 DEF Touched, LabsTypes
<1>3. CASE tasks[t].kind # "install"
  BY <1>1, <1>3 DEF Touched, LabsTypes, Task
<1> QED
  BY <1>2, <1>3

LEMMA CollectKeeps ==
  ASSUME LabsInv, NEW t \in Tasks, Collect(t)
  PROVE  LabsInv'
<1>0. /\ tasks[t].step = "exited" /\ tasks[t].step \in AtCommand /\ tasks[t].step \in Working
      /\ UNCHANGED <<entry, portOf, clusters>> /\ records' = Touched(t)
  BY DEF Collect, AtCommand, Working
<1>1. LabsTypes /\ TaskInv(t) /\ tasks[t] \in Task
  BY <1>0, Facts
<1>2. /\ records' \in [Runs -> Copies]
      /\ \A c \in Clusters \ {tasks[t].run} : records'[c] = records[c]
      /\ tasks[t].run \in Clusters => records'[tasks[t].run] = tasks[t].copy
  BY <1>0, TouchedIs
<1>3. CASE tasks' = [tasks EXCEPT ![t] = Fail(t, tasks[t].copy)]
  <2>1. PICK e : e = Fail(t, tasks[t].copy)
    OBVIOUS
  <2>2. /\ e \in Task /\ TaskOK(e) /\ e.kind = tasks[t].kind /\ e.run = tasks[t].run
        /\ e.step \in {"write", "finish"}
        /\ Missing(e.copy) => Missing(tasks[t].copy)
    BY <1>0, <1>1, <2>1, FailEffect DEF Missing
  <2> QED
    BY <1>0, <1>1, <1>2, <1>3, <2>1, <2>2, StepOn DEF LabsTypes, Gone, Working
<1>4. CASE /\ tasks[t].ok \/ (tasks[t].kind = "create" /\ Stage(t) = "kubectl")
           /\ tasks' = [tasks EXCEPT ![t] = Advance(t, tasks[t].copy)]
  <2>1. PICK e : e = Advance(t, tasks[t].copy)
    OBVIOUS
  <2>2. /\ e \in Task /\ TaskOK(e) /\ e.kind = tasks[t].kind /\ e.run = tasks[t].run
        /\ e.step \in {"next", "write", "finish"}
        /\ Missing(e.copy) => Missing(tasks[t].copy) \/ tasks[t].kind \in {"delete", "remove"}
    BY <1>0, <1>1, <2>1, AdvanceEffect
  <2>3. tasks[t].run \in Clusters /\ tasks[t].kind \in {"delete", "remove"} =>
          clusters[tasks[t].run] = "absent"
    BY <1>0, <1>4 DEF LabsInv, RecordInv
  <2> QED
    BY <1>0, <1>1, <1>2, <1>4, <2>1, <2>2, <2>3, StepOn DEF LabsTypes, Gone, Working, AtCommand
<1> QED
  BY <1>3, <1>4 DEF Collect, Tolerated

\* Steps that are no tracked command write the copy or nothing.
LEMMA PlainKeeps ==
  ASSUME LabsInv, NEW t \in Tasks, PlainStage(t)
  PROVE  LabsInv'
<1>0. /\ tasks[t].step = "next" /\ tasks[t].step \in AtCommand /\ tasks[t].step \in Working
      /\ Stage(t) \in {"export", "download"}
      /\ UNCHANGED <<entry, portOf, clusters>>
  BY DEF PlainStage, AtStage, AtCommand, Working
<1>1. LabsTypes /\ TaskInv(t) /\ tasks[t] \in Task
  BY <1>0, Facts
<1>2. tasks[t].kind \notin {"delete", "remove"}
  BY <1>0, <1>1 DEF TaskInv, TaskOK, Stage, Script
<1>3. CASE tasks' = [tasks EXCEPT ![t] = Fail(t, tasks[t].copy)] /\ records' = records
  <2>1. PICK e : e = Fail(t, tasks[t].copy)
    OBVIOUS
  <2>2. /\ e \in Task /\ TaskOK(e) /\ e.kind = tasks[t].kind /\ e.run = tasks[t].run
        /\ e.step \in {"write", "finish"}
        /\ Missing(e.copy) => Missing(tasks[t].copy)
    BY <1>0, <1>1, <2>1, FailEffect DEF Missing
  <2> QED
    BY <1>0, <1>1, <1>3, <2>1, <2>2, StepOn DEF LabsTypes, Gone, Working
<1>4. CASE /\ records' = IF Stage(t) = "download" THEN Touched(t) ELSE records
           /\ tasks' = [tasks EXCEPT ![t] = Advance(t, tasks[t].copy)]
  <2>1. PICK e : e = Advance(t, tasks[t].copy)
    OBVIOUS
  <2>2. /\ e \in Task /\ TaskOK(e) /\ e.kind = tasks[t].kind /\ e.run = tasks[t].run
        /\ e.step \in {"next", "write", "finish"}
        /\ Missing(e.copy) => Missing(tasks[t].copy)
    BY <1>0, <1>1, <1>2, <2>1, AdvanceEffect
  <2>3. /\ records' \in [Runs -> Copies]
        /\ \A c \in Clusters \ {tasks[t].run} : records'[c] = records[c]
        /\ tasks[t].run \in Clusters => records'[tasks[t].run] \in {records[tasks[t].run], tasks[t].copy}
    BY <1>0, <1>1, <1>4, TouchedIs DEF LabsTypes
  <2> QED
    BY <1>0, <1>1, <1>4, <2>1, <2>2, <2>3, StepOn DEF LabsTypes, Gone, Working, AtCommand
<1> QED
  BY <1>3, <1>4 DEF PlainStage

LEMMA EndpointStages ==
  ASSUME LabsInv, NEW t \in Tasks, AtStage(t, {"endpoint", "listen"})
  PROVE  /\ tasks[t].step = "next" /\ tasks[t].step \in AtCommand /\ tasks[t].step \in Working
         /\ tasks[t].kind = "steve" /\ tasks[t].run \notin Clusters
         /\ LabsTypes /\ TaskInv(t) /\ tasks[t] \in Task /\ tasks[t].copy \in LabRecord
<1>1. /\ tasks[t].step = "next" /\ tasks[t].step \in AtCommand /\ tasks[t].step \in Working
      /\ tasks[t].at <= Len(Script[tasks[t].kind]) /\ Stage(t) \in {"endpoint", "listen"}
  BY DEF AtStage, AtCommand, Working
<1>2. tasks[t] \in Task /\ tasks[t].at \in Nat /\ tasks[t].at >= 1
      /\ tasks[t].kind \in OnCluster \cup {"install", "steve"}
  BY <1>1, Facts DEF Task, TaskInv, TaskOK
<1>3. Stage(t) = Script[tasks[t].kind][tasks[t].at]
  BY DEF Stage
<1>4. tasks[t].kind = "steve"
  <2>1. ASSUME tasks[t].kind \in {"stop", "delete", "remove", "install"} PROVE FALSE
    BY <1>1, <1>2, <1>3, <2>1 DEF Script
  <2>2. ASSUME tasks[t].kind = "create" PROVE FALSE
    BY <1>1, <1>2, <1>3, <2>2 DEF Script
  <2>3. ASSUME tasks[t].kind = "restart" PROVE FALSE
    BY <1>1, <1>2, <1>3, <2>3 DEF Script
  <2> QED
    BY <1>2, <2>1, <2>2, <2>3 DEF OnCluster, ClusterActions
<1> QED
  BY <1>1, <1>4, Facts DEF OnCluster, ClusterActions

LEMMA EndpointKeeps ==
  ASSUME LabsInv, NEW t \in Tasks, StartEndpoint(t) \/ AwaitEndpoint(t)
  PROVE  LabsInv'
<1>0. /\ tasks[t].step = "next" /\ tasks[t].step \in AtCommand /\ tasks[t].step \in Working
      /\ tasks[t].kind = "steve" /\ tasks[t].run \notin Clusters
      /\ LabsTypes /\ TaskInv(t) /\ tasks[t] \in Task /\ tasks[t].copy \in LabRecord
  <2>1. AtStage(t, {"endpoint", "listen"})
    BY DEF StartEndpoint, AwaitEndpoint, AtStage
  <2> QED
    BY <2>1, EndpointStages
<1>1. UNCHANGED <<entry, portOf, clusters>>
  BY DEF StartEndpoint, AwaitEndpoint
<1>2. CASE tasks' = [tasks EXCEPT ![t] = Fail(t, tasks[t].copy)] /\ records' = records
  <2>1. PICK e : e = Fail(t, tasks[t].copy)
    OBVIOUS
  <2>2. e \in Task /\ TaskOK(e) /\ e.kind = tasks[t].kind /\ e.run = tasks[t].run
    BY <1>0, <2>1, FailEffect
  <2> QED
    BY <1>0, <1>1, <1>2, <2>1, <2>2, AsideTask DEF LabsTypes
<1>3. ASSUME NEW copy \in LabRecord, records' = [records EXCEPT ![tasks[t].run] = copy],
             tasks' = [tasks EXCEPT ![t] = Advance(t, copy)]
      PROVE  LabsInv'
  <2>1. PICK e : e = Advance(t, copy)
    OBVIOUS
  <2>2. e \in Task /\ TaskOK(e) /\ e.kind = tasks[t].kind /\ e.run = tasks[t].run
    BY <1>0, <2>1, AdvanceEffect
  <2>3. records' \in [Runs -> Copies] /\ \A c \in Clusters : records'[c] = records[c]
    BY <1>0, <1>3 DEF LabsTypes, Copies, Runs
  <2> QED
    BY <1>0, <1>1, <1>3, <2>1, <2>2, <2>3, AsideTask DEF LabsTypes
<1>4. CASE StartEndpoint(t)
  <2>1. PICK started : started = [status |-> "starting", pid |-> TRUE]
    OBVIOUS
  <2>2. started \in LabRecord
    BY <2>1 DEF LabRecord
  <2> QED
    BY <1>2, <1>3, <1>4, <2>1, <2>2 DEF StartEndpoint
<1>5. CASE AwaitEndpoint(t)
  <2>1. PICK serving : serving = [tasks[t].copy EXCEPT !.status = "serving"]
    OBVIOUS
  <2>2. serving \in LabRecord
    BY <1>0, <2>1 DEF LabRecord
  <2> QED
    BY <1>2, <1>3, <1>5, <2>1, <2>2 DEF AwaitEndpoint
<1> QED
  BY <1>4, <1>5

LEMMA WriteKeeps ==
  ASSUME LabsInv, NEW t \in Tasks, WriteResult(t)
  PROVE  LabsInv'
<1>0. /\ tasks[t].step = "write" /\ tasks[t].step \in Working
      /\ UNCHANGED <<entry, portOf, clusters>>
      /\ tasks' = [tasks EXCEPT ![t].step = "finish"]
  BY DEF WriteResult, Working
<1>1. LabsTypes /\ TaskInv(t) /\ tasks[t] \in Task
  BY <1>0, Facts
<1>2. PICK e : e = [tasks[t] EXCEPT !.step = "finish"]
  OBVIOUS
<1>3. /\ e \in Task /\ e.kind = tasks[t].kind /\ e.run = tasks[t].run /\ e.step = "finish"
      /\ e.copy = tasks[t].copy /\ e.alive = tasks[t].alive
  BY <1>1, <1>2, Updates DEF Steps
<1>4. TaskOK(e)
  BY <1>0, <1>1, <1>3 DEF TaskInv, TaskOK, AtCommand, Working
<1>5. tasks' = [tasks EXCEPT ![t] = e]
  BY <1>0, <1>1, <1>2 DEF LabsTypes
<1>6. /\ records' \in [Runs -> Copies]
      /\ \A c \in Clusters \ {tasks[t].run} : records'[c] = records[c]
      /\ tasks[t].run \in Clusters => records'[tasks[t].run] \in {records[tasks[t].run], tasks[t].copy}
  <2>1. CASE records' = [records EXCEPT ![tasks[t].run] = tasks[t].copy]
    BY <1>1, <2>1 DEF LabsTypes, Task, Runs
  <2>2. CASE records' = records
    BY <1>1, <2>2 DEF LabsTypes
  <2> QED
    BY <2>1, <2>2 DEF WriteResult
<1> QED
  BY <1>0, <1>1, <1>3, <1>4, <1>5, <1>6, StepOn DEF LabsTypes, Gone, Working

LEMMA FinishKeeps ==
  ASSUME LabsInv, NEW t \in Tasks, Finish(t)
  PROVE  LabsInv'
<1>0. /\ tasks[t].step = "finish" /\ tasks[t].step \in Working
      /\ UNCHANGED <<records, portOf, clusters>>
      /\ tasks' = [tasks EXCEPT ![t] = IdleTask]
      /\ entry' = [entry EXCEPT ![LabOf(tasks[t].kind)] = IdleEntry]
  BY DEF Finish, Working
<1>1. LabsTypes
  BY DEF LabsInv
<1>2. /\ tasks' \in [Tasks -> Task] /\ tasks'[t] = IdleTask
      /\ \A u \in Tasks \ {t} : tasks'[u] = tasks[u]
  BY <1>0, <1>1, Idles, SetTask
<1>3. entry' \in [Labs -> Entry]
  BY <1>0, <1>1, Idles DEF LabsTypes, Labs, LabOf
<1>4. ASSUME NEW u \in Tasks, HasEntry(u)' PROVE entry'["k3d"] = entry["k3d"]
  <2>1. u # t /\ HasEntry(u)
    BY <1>2, <1>4, Idles DEF HasEntry, Working, AtCommand
  <2>2. ~HasEntry(t)
    BY <2>1 DEF LabsInv, EntryInv
  <2>3. LabOf(tasks[t].kind) = "steve"
    BY <1>0, <2>2, Facts DEF HasEntry, LabOf
  <2> QED
    BY <1>0, <1>1, <2>3 DEF LabsTypes, Labs
<1>5. \A c \in Clusters : Gone(c) => clusters'[c] = "absent"
  BY <1>0 DEF Gone
<1> QED
  BY <1>0, <1>1, <1>2, <1>3, <1>4, <1>5, Release DEF LabsTypes

LEMMA OrphanKeeps ==
  ASSUME LabsInv, NEW t \in Tasks, OrphanExits(t)
  PROVE  LabsInv'
<1>0. /\ tasks[t].step = "orphan" /\ tasks[t].step \in Working
      /\ UNCHANGED <<entry, records, portOf>>
      /\ tasks' = [tasks EXCEPT ![t] = IdleTask]
  BY DEF OrphanExits, Working, AtCommand
<1>1. LabsTypes
  BY DEF LabsInv
<1>2. PICK ok \in BOOLEAN : CommandEffect(t, ok)
  BY DEF OrphanExits
<1>3. /\ tasks' \in [Tasks -> Task] /\ tasks'[t] = IdleTask
      /\ \A u \in Tasks \ {t} : tasks'[u] = tasks[u]
  BY <1>0, <1>1, Idles, SetTask
<1>4. /\ clusters' \in [Clusters -> {"absent", "up", "down"}]
      /\ \A c \in Clusters : Gone(c) => clusters'[c] = "absent"
      /\ tasks[t].run \in Clusters => HasEntry(t)
      /\ tasks[t].run \notin Clusters => clusters' = clusters
  BY <1>0, <1>2, Effects DEF Gone
<1>5. ASSUME NEW u \in Tasks, HasEntry(u)' PROVE clusters' = clusters
  <2>1. u # t /\ HasEntry(u)
    BY <1>3, <1>5, Idles DEF HasEntry, Working, AtCommand
  <2>2. ~HasEntry(t)
    BY <2>1 DEF LabsInv, EntryInv
  <2> QED
    BY <1>4, <2>2
<1> QED
  BY <1>0, <1>1, <1>3, <1>4, <1>5, Release DEF LabsTypes

\* A panel that dies leaves the commands whose pid its entry holds.
LEMMA RestartKeeps ==
  ASSUME LabsInv, "spawnCrash" \notin Faults, Restart
  PROVE  LabsInv'
<1>0. LabsTypes /\ UNCHANGED <<records, portOf, clusters>> /\ tasks' = Survivors
      /\ \A u \in Tasks : tasks[u].step # "started"
  BY DEF LabsInv, Restart, MayDie
<1>1. ASSUME NEW u \in Tasks
      PROVE  \/ tasks'[u] = IdleTask
             \/ /\ tasks[u].step \in {"running", "orphan"}
                /\ tasks'[u] = [tasks[u] EXCEPT !.step = "orphan"]
  <2>1. TaskOK(tasks[u])
    BY DEF LabsInv, TaskInv
  <2>2. tasks[u].alive /\ tasks[u].step # "exited" => tasks[u].step \in {"running", "orphan"}
    BY <1>0, <2>1 DEF TaskOK, AtCommand
  <2> QED
    BY <1>0, <2>2 DEF Survivors
<1>2. tasks' \in [Tasks -> Task]
  <2>1. \A u \in Tasks : tasks'[u] \in Task
    <3> SUFFICES ASSUME NEW u \in Tasks PROVE tasks'[u] \in Task
      OBVIOUS
    <3>1. tasks[u] \in Task
      BY <1>0 DEF LabsTypes
    <3>2. [tasks[u] EXCEPT !.step = "orphan"] \in Task
      BY <3>1, Updates DEF Steps
    <3> QED
      BY <1>1, <3>2, Idles
  <2>2. tasks' = [u \in Tasks |-> tasks'[u]]
    BY <1>0 DEF Survivors
  <2> QED
    BY <2>1, <2>2
<1>3. /\ entry' \in [Labs -> Entry]
      /\ \A l \in Labs : entry'[l] = IF /\ entry[l].running /\ entry[l].pid # NoPid
                    /\ PidAlive(entry[l].pid) /\ tasks[entry[l].pid[1]].step # "exited"
                 THEN entry[l] ELSE IdleEntry
  BY <1>0, Idles DEF Restart, LabsTypes
<1>4. ASSUME NEW u \in Tasks, HasEntry(u)' PROVE entry'["k3d"] = entry["k3d"]
  <2>1. /\ tasks[u].step \in {"running", "orphan"}
        /\ tasks'[u] = [tasks[u] EXCEPT !.step = "orphan"]
    BY <1>1, <1>4, Idles DEF HasEntry, Working, AtCommand
  <2>2. tasks[u] \in Task /\ TaskOK(tasks[u])
    BY <1>0 DEF LabsInv, LabsTypes, TaskInv
  <2>3. tasks'[u].kind = tasks[u].kind
    BY <2>1, <2>2, Updates DEF Steps
  <2>4. HasEntry(u) /\ tasks[u].alive
    BY <1>4, <2>1, <2>2, <2>3 DEF HasEntry, TaskOK, AtCommand, Working
  <2>5. PICK pid : pid = <<u, tasks[u].cmd>>
    OBVIOUS
  <2>6. pid \in Tasks \X Nat /\ pid[1] = u /\ pid[2] = tasks[u].cmd
    BY <2>2, <2>5 DEF Task
  <2>7. entry["k3d"].running /\ entry["k3d"].pid = pid
    BY <2>1, <2>4, <2>5 DEF LabsInv, EntryInv
  <2>8. pid # NoPid
    BY <2>6, LabsAssumption
  <2>9. PidAlive(pid)
    BY <2>4, <2>6 DEF PidAlive
  <2>10. tasks[entry["k3d"].pid[1]].step # "exited"
    BY <2>1, <2>6, <2>7
  <2> QED
    BY <1>3, <2>7, <2>8, <2>9, <2>10 DEF Labs
<1>5. \A c \in Clusters : Gone(c) => clusters'[c] = "absent"
  BY <1>0 DEF Gone
<1> QED
  BY <1>0, <1>1, <1>2, <1>3, <1>4, <1>5, Release DEF LabsTypes

LEMMA RecordsAside ==
  ASSUME LabsInv, tasks' = tasks, portOf' = portOf, clusters' = clusters,
         entry' \in [Labs -> Entry], entry'["k3d"] = entry["k3d"],
         records' \in [Runs -> Copies], \A c \in Clusters : records'[c] = records[c]
  PROVE  LabsInv'
<1>1. LabsTypes'
  BY DEF LabsInv, LabsTypes
<1> QED
  BY <1>1, Aside

LEMMA SteveKeeps ==
  ASSUME LabsInv, NEW s \in Steves, StopSteve(s) \/ Listen(s) \/ EndpointExits(s) \/ Watch(s)
  PROVE  LabsInv'
<1>0. LabsTypes /\ UNCHANGED <<entry, tasks, portOf, clusters>>
  BY DEF LabsInv, StopSteve, Listen, EndpointExits, Watch
<1>1. CASE records' = records
  BY <1>0, <1>1, RecordsAside DEF LabsTypes
<1>2. CASE StopSteve(s)
  BY <1>0, <1>2, StoppedType, RecordsAside DEF StopSteve, LabsTypes
<1>3. CASE Watch(s)
  <2>1. CASE records[s] = NoRecord \/ ~records[s].pid
    BY <1>1, <1>3, <2>1 DEF Watch
  <2>2. CASE records[s] # NoRecord
    <3>1. records[s] \in LabRecord /\ s \in Runs /\ s \notin Clusters
      BY <1>0, <2>2, LabsAssumption DEF LabsTypes, Copies, Runs
    <3>2. \/ records' = records
          \/ \E failed \in BOOLEAN :
               records' = [records EXCEPT ![s].pid = FALSE, ![s].status =
                             IF failed /\ @ \notin {"stopped", "cleaned"} THEN "failed"
                             ELSE IF @ = "serving" THEN "stopped" ELSE @]
      BY <1>3 DEF Watch
    <3>3. ASSUME NEW f, f \in {"failed", "stopped", records[s].status},
                 records' = [records EXCEPT ![s].pid = FALSE, ![s].status = f]
          PROVE  LabsInv'
      <4>1. PICK e : e = [records[s] EXCEPT !.pid = FALSE, !.status = f]
        OBVIOUS
      <4>2. e \in LabRecord
        BY <3>1, <3>3, <4>1 DEF LabRecord
      <4>3. records' = [records EXCEPT ![s] = e]
        BY <1>0, <3>1, <3>3, <4>1 DEF LabsTypes
      <4>4. records' \in [Runs -> Copies] /\ \A c \in Clusters : records'[c] = records[c]
        BY <1>0, <3>1, <4>2, <4>3 DEF LabsTypes, Copies
      <4> QED
        BY <1>0, <4>4, RecordsAside DEF LabsTypes
    <3>4. ASSUME NEW failed \in BOOLEAN,
                 records' = [records EXCEPT ![s].pid = FALSE, ![s].status =
                             IF failed /\ @ \notin {"stopped", "cleaned"} THEN "failed"
                             ELSE IF @ = "serving" THEN "stopped" ELSE @]
          PROVE  LabsInv'
      <4>1. PICK f : f = IF failed /\ records[s].status \notin {"stopped", "cleaned"} THEN "failed"
                         ELSE IF records[s].status = "serving" THEN "stopped" ELSE records[s].status
        OBVIOUS
      <4>2. f \in {"failed", "stopped", records[s].status}
        BY <4>1
      <4>3. records' = [records EXCEPT ![s].pid = FALSE, ![s].status = f]
        BY <1>0, <3>1, <3>4, <4>1 DEF LabsTypes
      <4> QED
        BY <3>3, <4>2, <4>3
    <3> QED
      BY <1>1, <3>2, <3>4
  <2> QED
    BY <2>1, <2>2
<1> QED
  BY <1>1, <1>2, <1>3 DEF Listen, EndpointExits

LEMMA PollKeeps ==
  ASSUME LabsInv, "k3dGap" \notin Faults, NEW l \in Labs, Poll(l)
  PROVE  LabsInv'
<1>0. /\ LabsTypes /\ UNCHANGED <<tasks, portOf, clusters>>
      /\ entry' = IF Stale(l) THEN [entry EXCEPT ![l] = IdleEntry] ELSE entry
      /\ records' = IF l = "steve" THEN ListSteve ELSE records
  BY DEF LabsInv, Poll
<1>1. records' \in [Runs -> Copies] /\ \A c \in Clusters : records'[c] = records[c]
  BY <1>0, Listed DEF LabsTypes
<1>2. entry' \in [Labs -> Entry]
  BY <1>0, Idles DEF LabsTypes
<1>3. CASE entry'["k3d"] = entry["k3d"]
  BY <1>0, <1>1, <1>2, <1>3, RecordsAside
<1>4. CASE l = "k3d" /\ Stale("k3d")
  <2>1. \A t \in Tasks : ~HasEntry(t)
    BY <1>4, FreeEntry DEF Busy, Poll
  <2> QED
    BY <1>0, <1>1, <1>2, <1>4, <2>1, Release DEF LabsTypes, HasEntry, Gone
<1> QED
  BY <1>0, <1>3, <1>4 DEF LabsTypes, Labs

LEMMA LabsInvNext ==
  ASSUME LabsInv, "k3dGap" \notin Faults, "spawnCrash" \notin Faults, [LabsNext]_labVars
  PROVE  LabsInv'
<1>1. ASSUME NEW t \in Tasks, Request(t) PROVE LabsInv'
  BY <1>1, StartKeeps, InstallKeeps, RequestKeeps, RequestSteveKeeps, CleanupKeeps DEF Request
<1>2. ASSUME NEW t \in Tasks, TaskStep(t) PROVE LabsInv'
  BY <1>2, ClaimKeeps, ReplaceKeeps, ClaimSteveKeeps, FinishCleanupKeeps, SpawnKeeps, PidKeeps,
     ExitKeeps, CollectKeeps, PlainKeeps, EndpointKeeps, WriteKeeps, FinishKeeps, OrphanKeeps
     DEF TaskStep
<1>3. ASSUME NEW s \in Steves, StopSteve(s) \/ Listen(s) \/ EndpointExits(s) \/ Watch(s) PROVE LabsInv'
  BY <1>3, SteveKeeps
<1>4. ASSUME NEW l \in Labs, Poll(l) PROVE LabsInv'
  BY <1>4, PollKeeps
<1>5. CASE Restart
  BY <1>5, RestartKeeps
<1>6. CASE UNCHANGED labVars
  <2>1. LabsTypes'
    BY <1>6 DEF LabsInv, LabsTypes, labVars
  <2> QED
    BY <1>6, <2>1, Aside DEF labVars
<1> QED
  BY <1>1, <1>2, <1>3, <1>4, <1>5, <1>6 DEF LabsNext

LEMMA LabsInvInit ==
  ASSUME LabsInit
  PROVE  LabsInv
<1>1. LabsTypes
  BY Idles DEF LabsInit, LabsTypes, Labs, Copies
<1>2. \A t \in Tasks : tasks[t] = IdleTask
  BY DEF LabsInit
<1>3. \A t \in Tasks : TaskInv(t) /\ ~HasEntry(t) /\ tasks[t].run = NoRun
  BY <1>2, Idles DEF TaskInv, HasEntry, Working, AtCommand
<1>4. ASSUME NEW c \in Clusters PROVE RecordInv(c)
  <2>1. c # NoRun /\ records[c] = NoRecord /\ clusters[c] = "absent"
    BY LabsAssumption DEF LabsInit, Runs
  <2> QED
    BY <1>3, <2>1 DEF RecordInv, Gone
<1> QED
  BY <1>1, <1>3, <1>4 DEF LabsInv, EntryInv

\* The labs keep their invariant for every number of runs, goroutines and
\* ports, when commands fail and when the panel dies under them.
THEOREM LabsInvariance ==
  ASSUME "k3dGap" \notin Faults, "spawnCrash" \notin Faults
  PROVE  LabsSpec => []LabsInv
<1>1. LabsInit => LabsInv
  BY LabsInvInit
<1>2. LabsInv /\ [LabsNext]_labVars => LabsInv'
  BY LabsInvNext
<1> QED
  BY <1>1, <1>2, PTL DEF LabsSpec

\* A k3d cluster on the machine has a record that the lab lists, whatever copy
\* an action read before it took the lock and writes back after each command,
\* as long as nobody looks at the entry between two commands and the panel does
\* not die before a pid is noted (runK3DLabCreate, runK3DLabAction).
THEOREM ClustersAreListed ==
  ASSUME "k3dGap" \notin Faults, "spawnCrash" \notin Faults
  PROVE  LabsSpec => []ClusterIsRecorded
<1>1. LabsInv => ClusterIsRecorded
  BY DEF LabsInv, RecordInv, Missing, Gone, ClusterIsRecorded
<1> QED
  BY <1>1, LabsInvariance, PTL
=============================================================================
