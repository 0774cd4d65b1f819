----------------------------- MODULE LocalLabs -----------------------------
(***************************************************************************)
(* The local labs of the control panel.  K3D Lab keeps k3d clusters, Steve *)
(* Lab keeps Steve endpoints.  Each lab has one entry of the operation     *)
(* table; a lab action is a goroutine that runs several commands one after *)
(* the other under that entry, and between two of them the entry holds the *)
(* pid of a process that is gone.                                          *)
(*                                                                         *)
(* A step is one critical section of p.mu, one record operation or one     *)
(* command of a goroutine.  A goroutine carries its own copy of the record *)
(* and writes that copy back after every command.                          *)
(***************************************************************************)
EXTENDS FiniteSets, Naturals, Sequences

CONSTANTS
  Clusters,   \* run ids of K3D Lab, each drawn once
  Steves,     \* run ids of Steve Lab, each drawn once
  Ports,
  Tasks,      \* goroutine slots
  Actions,    \* which requests of Script and "cleanup" the user makes
  Faults,     \* which of FaultWindows a run opens
  NoRecord, NoPid, NoRun

Runs == Clusters \cup Steves
Labs == {"k3d", "steve"}

\* The commands and other blocking steps of each action, in order.  "remove"
\* is a delete that also removes the run's directory and record.
Script == [create  |-> <<"k3d", "export", "kubectl">>,
           stop    |-> <<"k3d">>,
           restart |-> <<"k3d", "export">>,
           delete  |-> <<"k3d">>,
           remove  |-> <<"k3d">>,
           install |-> <<"brew">>,
           steve   |-> <<"download", "k3d", "export", "kubectl", "endpoint", "listen">>]
ClusterActions == {"stop", "restart", "delete", "remove"}
Commands == {"k3d", "kubectl", "brew"}

FaultWindows == {"restart",    \* the panel dies and is started again
                 "spawnCrash", \* ... between cmd.Start and setOperationPID
                 "k3dGap", "steveGap"}   \* the lab's entry is looked at
                                         \* between two commands of an action

\* The record of a run: its status and whether it names a process.
LabRecord == [status : {"creating", "running", "stopped", "deleted", "failed", "starting",
                        "serving", "cleaned"}, pid : BOOLEAN]

ASSUME LabsAssumption == /\ Clusters \cap Steves = {} /\ Ports \subseteq Nat \ {0}
                         /\ NoRun \notin Runs
                         /\ NoRecord \notin LabRecord /\ NoPid \notin Tasks \X Nat
                         /\ Actions \subseteq DOMAIN Script \cup {"cleanup"}
                         /\ Faults \subseteq FaultWindows

VARIABLES
  entry,     \* the two lab entries of the operation table
  tasks,     \* the goroutines and requests, with their command
  records,   \* run records of both labs
  portOf,    \* the port of each run, 0 before the run exists
  clusters,  \* the k3d clusters of K3D Lab
  endpoints, \* the Steve processes
  watched    \* runs whose watchSteveEndpointProcess goroutine waits

labVars == <<entry, tasks, records, portOf, clusters, endpoints, watched>>

IdleEntry == [running |-> FALSE, pid |-> NoPid]
IdleTask == [kind |-> "idle", step |-> "idle", at |-> 0, run |-> NoRun,
             copy |-> NoRecord, cmd |-> 0, alive |-> FALSE, ok |-> FALSE, todo |-> {}]

LabsInit ==
  /\ entry = [l \in Labs |-> IdleEntry]
  /\ tasks = [t \in Tasks |-> IdleTask]
  /\ records = [r \in Runs |-> NoRecord]
  /\ portOf = [r \in Runs |-> 0]
  /\ clusters = [c \in Clusters |-> "absent"]
  /\ endpoints = [s \in Steves |-> "none"]
  /\ watched = {}

-----------------------------------------------------------------------------
(* Processes, ports, and the operation entry of a lab.                     *)

\* A command that has exited is a zombie until cmd.Wait: it still counts.
PidAlive(pid) == tasks[pid[1]].alive /\ tasks[pid[1]].cmd = pid[2]
Stale(l) == entry[l].running /\ entry[l].pid # NoPid /\ ~PidAlive(entry[l].pid)
Busy(l) == entry[l].running /\ ~Stale(l)

\* The goroutine behind a dead pid is still there, between two commands or
\* before its finish.
InGap(l) == Stale(l) /\ tasks[entry[l].pid[1]].step \in {"next", "started", "write", "finish"}
GapOf == [k3d |-> "k3dGap", steve |-> "steveGap"]
MayLook(l) == GapOf[l] \in Faults \/ ~InGap(l)
LabOf(kind) == IF kind \in {"steve", "cleanup"} THEN "steve" ELSE "k3d"

FreeTask(t) == tasks[t] = IdleTask /\ \A l \in Labs : entry[l].pid # NoPid => entry[l].pid[1] # t

Fresh(r) == portOf[r] = 0
SteveAlive(s) == endpoints[s] \in {"up", "listening", "interrupted"}
Bound(p) == \/ \E c \in Clusters : portOf[c] = p /\ clusters[c] = "up"
            \/ \E s \in Steves : portOf[s] = p /\ endpoints[s] = "listening"
Interrupt(e) == IF e \in {"up", "listening"} THEN "interrupted" ELSE e

BrokenCorrected(s) == records[s]

\* A Steve record as listSteveLabRunRecords leaves it.
Corrected(s) ==
  LET r == records[s] IN
  IF r = NoRecord \/ r.status = "cleaned" \/ ~r.pid \/ SteveAlive(s) THEN r
  ELSE [r EXCEPT !.pid = FALSE,
                 !.status = IF r.status \in {"serving", "starting"} THEN "stopped" ELSE r.status]

ListSteve == [r \in Runs |-> IF r \in Steves THEN Corrected(r) ELSE records[r]]

UsedPorts(recs) ==
  {portOf[s] : s \in {x \in Steves : recs[x] # NoRecord /\
                        (recs[x].status \in {"serving", "starting"} \/ recs[x].pid)}}
  \cup {portOf[c] : c \in {x \in Clusters : recs[x] # NoRecord /\
                             recs[x].status \in {"running", "creating", "stopped"}}}

\* allocateLocalLabPort and ensureLocalLabPortAvailable: not pooled, not bound.
Available(p) == p \notin UsedPorts(ListSteve) /\ ~Bound(p)

Active(recs) == {s \in Steves : recs[s] # NoRecord /\
                   (recs[s].pid \/ recs[s].status \in {"running", "starting", "serving"})}

Claimed(l) == [entry EXCEPT ![l] = [running |-> TRUE, pid |-> NoPid]]

\* Reading a lab's state: the entry of a dead process is marked stale, and
\* Steve records that name a dead endpoint are corrected.
Poll(l) ==
  /\ MayLook(l)
  /\ entry' = IF Stale(l) THEN [entry EXCEPT ![l] = IdleEntry] ELSE entry
  /\ records' = IF l = "steve" THEN ListSteve ELSE records
  /\ <<entry, records>>' # <<entry, records>>
  /\ UNCHANGED <<tasks, portOf, clusters, endpoints, watched>>

-----------------------------------------------------------------------------
(* K3D Lab requests.                                                       *)

BrokenStartK3DLab(t, c, p) ==
  /\ "create" \in Actions
  /\ FreeTask(t) /\ MayLook("k3d") /\ ~Busy("k3d")
  /\ Fresh(c) /\ Available(p)
  /\ entry' = Claimed("k3d")
  /\ portOf' = [portOf EXCEPT ![c] = p]
  /\ records' = ListSteve
  /\ tasks' = [tasks EXCEPT ![t] = [IdleTask EXCEPT !.kind = "create", !.step = "next", !.at = 1,
                                      !.run = c, !.copy = [status |-> "creating", pid |-> FALSE]]]
  /\ UNCHANGED <<clusters, endpoints, watched>>

StartK3DLab(t, c, p) ==
  LET record == [status |-> "creating", pid |-> FALSE] IN
  /\ "create" \in Actions
  /\ FreeTask(t) /\ MayLook("k3d") /\ ~Busy("k3d")
  /\ Fresh(c) /\ Available(p)
  /\ entry' = Claimed("k3d")
  /\ portOf' = [portOf EXCEPT ![c] = p]
  /\ records' = [ListSteve EXCEPT ![c] = record]
  /\ tasks' = [tasks EXCEPT ![t] = [IdleTask EXCEPT !.kind = "create", !.step = "next", !.at = 1,
                                      !.run = c, !.copy = record]]
  /\ UNCHANGED <<clusters, endpoints, watched>>

StartInstall(t) ==
  /\ "install" \in Actions
  /\ FreeTask(t) /\ MayLook("k3d") /\ ~Busy("k3d")
  /\ entry' = Claimed("k3d")
  /\ tasks' = [tasks EXCEPT ![t] = [IdleTask EXCEPT !.kind = "install", !.step = "next", !.at = 1]]
  /\ UNCHANGED <<records, portOf, clusters, endpoints, watched>>

\* runK3DLabAction reads the record before it takes the lock.
RequestAction(t, c, kind) ==
  /\ kind \in Actions
  /\ FreeTask(t) /\ records[c] # NoRecord
  /\ tasks' = [tasks EXCEPT ![t] = [IdleTask EXCEPT !.kind = kind, !.step = "claim",
                                      !.run = c, !.copy = records[c]]]
  /\ UNCHANGED <<entry, records, portOf, clusters, endpoints, watched>>

ClaimAction(t) ==
  /\ tasks[t].step = "claim" /\ tasks[t].kind \in ClusterActions /\ MayLook("k3d")
  /\ \/ /\ ~Busy("k3d")
        /\ entry' = Claimed("k3d")
        /\ tasks' = [tasks EXCEPT ![t].step = "next", ![t].at = 1]
     \/ /\ Busy("k3d")
        /\ tasks' = [tasks EXCEPT ![t] = IdleTask]
        /\ UNCHANGED entry
  /\ UNCHANGED <<records, portOf, clusters, endpoints, watched>>

-----------------------------------------------------------------------------
(* Steve Lab requests.                                                     *)

\* startSteveLab looks for active runs before it takes the lock.
RequestSteve(t, replace) ==
  LET active == Active(ListSteve)
  IN /\ "steve" \in Actions
     /\ FreeTask(t)
     /\ replace \/ active = {}
     /\ records' = ListSteve
     /\ tasks' = [tasks EXCEPT ![t] = [IdleTask EXCEPT !.kind = "steve",
                    !.step = IF active = {} THEN "claim" ELSE "replace",
                    !.todo = {[run |-> s, pid |-> ListSteve[s].pid] : s \in active}]]
     /\ UNCHANGED <<entry, portOf, clusters, endpoints, watched>>

\* cleanupActiveSteveLabRuns, one run: interrupt, then delete cluster,
\* directory and record.  A failure ends the request.
ReplaceInterrupt(t) ==
  /\ tasks[t].step = "replace"
  /\ \E x \in tasks[t].todo :
       /\ endpoints' = IF x.pid THEN [endpoints EXCEPT ![x.run] = Interrupt(@)] ELSE endpoints
       /\ tasks' = [tasks EXCEPT ![t].step = "removing", ![t].run = x.run]
  /\ UNCHANGED <<entry, records, portOf, clusters, watched>>

ReplaceRemove(t) ==
  LET rest == {x \in tasks[t].todo : x.run # tasks[t].run} IN
  /\ tasks[t].step = "removing"
  /\ \/ /\ records' = [records EXCEPT ![tasks[t].run] = NoRecord]
        /\ tasks' = [tasks EXCEPT ![t].step = IF rest = {} THEN "claim" ELSE "replace",
                                  ![t].run = NoRun, ![t].todo = rest]
     \/ /\ tasks' = [tasks EXCEPT ![t] = IdleTask]
        /\ UNCHANGED records
  /\ UNCHANGED <<entry, portOf, clusters, endpoints, watched>>

ClaimSteve(t) ==
  /\ tasks[t].step = "claim" /\ tasks[t].kind = "steve" /\ MayLook("steve")
  /\ \/ /\ ~Busy("steve")
        /\ \E s \in Steves, p \in Ports :
             LET record == [status |-> "running", pid |-> FALSE]
             IN /\ Fresh(s) /\ Available(p)
                /\ portOf' = [portOf EXCEPT ![s] = p]
                /\ records' = [ListSteve EXCEPT ![s] = record]
                /\ tasks' = [tasks EXCEPT ![t].step = "next", ![t].at = 1, ![t].run = s,
                                          ![t].copy = record]
        /\ entry' = Claimed("steve")
     \/ /\ tasks' = [tasks EXCEPT ![t] = IdleTask]   \* busy, or no port
        /\ UNCHANGED <<entry, records, portOf>>
  /\ UNCHANGED <<clusters, endpoints, watched>>

\* stopSteveLabEndpoint.
Stopped(s) == [records EXCEPT ![s].pid = FALSE, ![s].status = "stopped"]
StopSteve(s) ==
  /\ "stop" \in Actions
  /\ records[s] # NoRecord
  /\ endpoints' = IF records[s].pid THEN [endpoints EXCEPT ![s] = Interrupt(@)] ELSE endpoints
  /\ records' = Stopped(s)
  /\ UNCHANGED <<entry, tasks, portOf, clusters, watched>>

\* handleSteveLabCleanup: looks at the entry, stops the endpoint, deletes the
\* cluster and the directory, and at last writes or removes the record.
CleanupSteve(t, s) ==
  LET stopped == IF records[s].pid THEN Stopped(s) ELSE records IN
  /\ "cleanup" \in Actions
  /\ FreeTask(t) /\ records[s] # NoRecord
  /\ MayLook("steve") /\ ~Busy("steve")
  /\ entry' = IF Stale("steve") THEN [entry EXCEPT !["steve"] = IdleEntry] ELSE entry
  /\ endpoints' = IF records[s].pid THEN [endpoints EXCEPT ![s] = Interrupt(@)] ELSE endpoints
  /\ records' = stopped
  /\ tasks' = [tasks EXCEPT ![t] = [IdleTask EXCEPT !.kind = "cleanup", !.step = "cleanup",
                                      !.run = s, !.copy = [stopped[s] EXCEPT !.status = "cleaned"]]]
  /\ UNCHANGED <<portOf, clusters, watched>>

FinishCleanup(t) ==
  /\ tasks[t].step = "cleanup"
  /\ \E new \in {NoRecord, tasks[t].copy, records[tasks[t].run]} :
       records' = [records EXCEPT ![tasks[t].run] = new]
  /\ tasks' = [tasks EXCEPT ![t] = IdleTask]
  /\ UNCHANGED <<entry, portOf, clusters, endpoints, watched>>

-----------------------------------------------------------------------------
(* The goroutine of an action.                                             *)

Stage(t) == Script[tasks[t].kind][tasks[t].at]
AtStage(t, stages) == tasks[t].step = "next" /\ tasks[t].at <= Len(Script[tasks[t].kind])
                      /\ Stage(t) \in stages

FinalStatus(kind) ==
  CASE kind \in {"create", "restart"} -> "running"
    [] kind = "stop"                  -> "stopped"
    [] kind = "delete"                -> "deleted"
    [] kind = "steve"                 -> "serving"
    [] OTHER                          -> "none"

\* The task after its current stage, with copy as its record.
Advance(t, copy) ==
  LET kind == tasks[t].kind
      last == tasks[t].at = Len(Script[kind])
  IN [tasks[t] EXCEPT !.at = @ + 1,
        !.alive = FALSE,
        !.step = IF ~last THEN "next" ELSE IF kind = "install" THEN "finish" ELSE "write",
        !.copy = IF ~last \/ kind = "install" THEN copy
                 ELSE IF kind = "remove" THEN NoRecord
                 ELSE [copy EXCEPT !.status = FinalStatus(kind)]]

BrokenFail(t, copy) == [tasks[t] EXCEPT !.alive = FALSE, !.step = "lost"]

\* A failed create or Steve run records its failure; a failed action does not.
Fail(t, copy) ==
  [tasks[t] EXCEPT !.alive = FALSE,
     !.step = IF tasks[t].kind \in {"create", "steve"} THEN "write" ELSE "finish",
     !.copy = IF tasks[t].kind \in {"create", "steve"} THEN [copy EXCEPT !.status = "failed"]
              ELSE copy]

\* A new cluster is kept when kubectl cannot wait for its nodes.
Tolerated(t) == tasks[t].kind = "create" /\ Stage(t) = "kubectl"

\* The tool is found and starts, or does not.
Spawn(t) ==
  /\ AtStage(t, Commands)
  /\ \/ tasks' = [tasks EXCEPT ![t].step = "started", ![t].alive = TRUE, ![t].cmd = @ + 1]
     \/ tasks' = [tasks EXCEPT ![t] = IF Tolerated(t) THEN Advance(t, tasks[t].copy) ELSE Fail(t, tasks[t].copy)]
  /\ UNCHANGED <<entry, records, portOf, clusters, endpoints, watched>>

\* setOperationPID: into whatever the entry is by now.
RecordPid(t) ==
  /\ tasks[t].step = "started"
  /\ entry' = [entry EXCEPT ![LabOf(tasks[t].kind)].pid = <<t, tasks[t].cmd>>]
  /\ tasks' = [tasks EXCEPT ![t].step = "running"]
  /\ UNCHANGED <<records, portOf, clusters, endpoints, watched>>

\* What a k3d command leaves behind: <<succeeded, cluster>>.
Outcomes(kind, c) ==
  LET now == clusters[c] IN
  CASE kind = "create"  -> {<<FALSE, "absent">>, <<FALSE, "down">>}
                           \cup (IF Bound(portOf[c]) THEN {} ELSE {<<TRUE, "up">>})
    [] kind = "stop"    -> {<<FALSE, now>>} \cup (IF now = "absent" THEN {} ELSE {<<TRUE, "down">>})
    [] kind = "restart" -> {<<FALSE, now>>}
                           \cup (IF now = "absent" \/ (now = "down" /\ Bound(portOf[c])) THEN {}
                                 ELSE {<<TRUE, "up">>})
    [] OTHER            -> {<<FALSE, now>>, <<TRUE, "absent">>}

CommandEffect(t, ok) ==
  IF Stage(t) = "k3d" /\ tasks[t].run \in Clusters
  THEN \E o \in Outcomes(tasks[t].kind, tasks[t].run) :
         ok = o[1] /\ clusters' = [clusters EXCEPT ![tasks[t].run] = o[2]]
  ELSE UNCHANGED clusters

CommandExits(t) ==
  /\ tasks[t].step = "running"
  /\ \E ok \in BOOLEAN :
       /\ CommandEffect(t, ok)
       /\ tasks' = [tasks EXCEPT ![t].step = "exited", ![t].ok = ok]
  /\ UNCHANGED <<entry, records, portOf, endpoints, watched>>

Touched(t) == IF tasks[t].kind = "install" THEN records
              ELSE [records EXCEPT ![tasks[t].run] = tasks[t].copy]

\* The streams are closed, the record is written, cmd.Wait reaps the process.
Collect(t) ==
  /\ tasks[t].step = "exited"
  /\ records' = Touched(t)
  /\ tasks' = [tasks EXCEPT ![t] = IF tasks[t].ok \/ Tolerated(t) THEN Advance(t, tasks[t].copy)
                                   ELSE Fail(t, tasks[t].copy)]
  /\ UNCHANGED <<entry, portOf, clusters, endpoints, watched>>

\* Steps of an action that are no tracked command.
PlainStage(t) ==
  /\ AtStage(t, {"export", "download"})
  /\ \/ /\ records' = IF Stage(t) = "download" THEN Touched(t) ELSE records
        /\ tasks' = [tasks EXCEPT ![t] = Advance(t, tasks[t].copy)]
     \/ /\ tasks' = [tasks EXCEPT ![t] = Fail(t, tasks[t].copy)]
        /\ UNCHANGED records
  /\ UNCHANGED <<entry, portOf, clusters, endpoints, watched>>

\* startSteveEndpoint, up to the watcher and the record with the pid.
StartEndpoint(t) ==
  LET s == tasks[t].run
      started == [status |-> "starting", pid |-> TRUE]
  IN /\ AtStage(t, {"endpoint"})
     /\ \/ /\ endpoints' = [endpoints EXCEPT ![s] = "up"]
           /\ records' = [records EXCEPT ![s] = started]
           /\ watched' = watched \cup {s}
           /\ tasks' = [tasks EXCEPT ![t] = Advance(t, started)]
        \/ /\ tasks' = [tasks EXCEPT ![t] = Fail(t, tasks[t].copy)]
           /\ UNCHANGED <<endpoints, records, watched>>
     /\ UNCHANGED <<entry, portOf, clusters>>

\* waitForLocalPort, with the interrupt of an endpoint that does not open.
AwaitEndpoint(t) ==
  LET s == tasks[t].run
      serving == [tasks[t].copy EXCEPT !.status = "serving"]
  IN /\ AtStage(t, {"listen"})
     /\ \/ /\ SteveAlive(s) /\ Bound(portOf[s])
           /\ records' = [records EXCEPT ![s] = serving]
           /\ tasks' = [tasks EXCEPT ![t] = Advance(t, serving)]
           /\ UNCHANGED endpoints
        \/ /\ endpoints' = [endpoints EXCEPT ![s] = Interrupt(@)]
           /\ tasks' = [tasks EXCEPT ![t] = Fail(t, tasks[t].copy)]
           /\ UNCHANGED records
     /\ UNCHANGED <<entry, portOf, clusters, watched>>

\* The last write of the record; removing the run's directory may fail.
WriteResult(t) ==
  /\ tasks[t].step = "write"
  /\ \/ records' = [records EXCEPT ![tasks[t].run] = tasks[t].copy]
     \/ tasks[t].kind = "remove" /\ UNCHANGED records
  /\ tasks' = [tasks EXCEPT ![t].step = "finish"]
  /\ UNCHANGED <<entry, portOf, clusters, endpoints, watched>>

\* finishK3DLabOperation, finishSteveLabOperation.
Finish(t) ==
  /\ tasks[t].step = "finish"
  /\ entry' = [entry EXCEPT ![LabOf(tasks[t].kind)] = IdleEntry]
  /\ tasks' = [tasks EXCEPT ![t] = IdleTask]
  /\ UNCHANGED <<records, portOf, clusters, endpoints, watched>>

-----------------------------------------------------------------------------
(* The Steve process, its watcher, and the panel.                          *)

Listen(s) ==
  /\ endpoints[s] = "up"
  /\ endpoints' = [endpoints EXCEPT ![s] = IF Bound(portOf[s]) THEN "gone" ELSE "listening"]
  /\ UNCHANGED <<entry, tasks, records, portOf, clusters, watched>>

EndpointExits(s) ==
  /\ SteveAlive(s)
  /\ endpoints' = [endpoints EXCEPT ![s] = "gone"]
  /\ UNCHANGED <<entry, tasks, records, portOf, clusters, watched>>

\* watchSteveEndpointProcess after cmd.Wait; failed is its exit status.
Watch(s) ==
  /\ s \in watched /\ endpoints[s] = "gone"
  /\ watched' = watched \ {s}
  /\ \E failed \in BOOLEAN :
       records' = IF records[s] = NoRecord \/ ~records[s].pid THEN records
                  ELSE [records EXCEPT ![s].pid = FALSE, ![s].status =
                          IF failed /\ @ \notin {"stopped", "cleaned"} THEN "failed"
                          ELSE IF @ = "serving" THEN "stopped" ELSE @]
  /\ UNCHANGED <<entry, tasks, portOf, clusters, endpoints>>

\* The panel dies; its commands and endpoints live on in their own process
\* groups.  loadPersistedOperations keeps an entry whose process is alive.
MayDie == /\ "restart" \in Faults
          /\ "spawnCrash" \in Faults \/ \A t \in Tasks : tasks[t].step # "started"

Survivors ==
  [t \in Tasks |-> IF tasks[t].alive /\ tasks[t].step # "exited"
                   THEN [tasks[t] EXCEPT !.step = "orphan"] ELSE IdleTask]

Restart ==
  /\ MayDie
  /\ tasks' = Survivors
  /\ entry' = [l \in Labs |->
                 IF /\ entry[l].running /\ entry[l].pid # NoPid
                    /\ PidAlive(entry[l].pid) /\ tasks[entry[l].pid[1]].step # "exited"
                 THEN entry[l] ELSE IdleEntry]
  /\ watched' = {}
  /\ UNCHANGED <<records, portOf, clusters, endpoints>>

OrphanExits(t) ==
  /\ tasks[t].step = "orphan"
  /\ \E ok \in BOOLEAN : CommandEffect(t, ok)
  /\ tasks' = [tasks EXCEPT ![t] = IdleTask]
  /\ UNCHANGED <<entry, records, portOf, endpoints, watched>>

-----------------------------------------------------------------------------
TaskStep(t) ==
  \/ ClaimAction(t) \/ ReplaceInterrupt(t) \/ ReplaceRemove(t) \/ ClaimSteve(t) \/ FinishCleanup(t)
  \/ Spawn(t) \/ RecordPid(t) \/ CommandExits(t) \/ Collect(t) \/ PlainStage(t)
  \/ StartEndpoint(t) \/ AwaitEndpoint(t) \/ WriteResult(t) \/ Finish(t) \/ OrphanExits(t)

Request(t) ==
  \/ \E c \in Clusters, p \in Ports : StartK3DLab(t, c, p)
  \/ StartInstall(t)
  \/ \E c \in Clusters, kind \in ClusterActions : RequestAction(t, c, kind)
  \/ \E replace \in BOOLEAN : RequestSteve(t, replace)
  \/ \E s \in Steves : CleanupSteve(t, s)

LabsNext ==
  \/ \E t \in Tasks : Request(t) \/ TaskStep(t)
  \/ \E s \in Steves : StopSteve(s) \/ Listen(s) \/ EndpointExits(s) \/ Watch(s)
  \/ \E l \in Labs : Poll(l)
  \/ Restart

LabsSpec == LabsInit /\ [][LabsNext]_labVars

\* Goroutines are scheduled, commands end, and an open panel polls both labs.
\* k3d cluster create and kubectl carry a timeout; that k3d stop, start, delete
\* and kubeconfig get, and brew, end is an assumption, no deadline of the code.
LabsFairness ==
  /\ \A t \in Tasks : WF_labVars(TaskStep(t))
  /\ \A s \in Steves : WF_labVars(Watch(s))
  /\ \A l \in Labs : WF_labVars(Poll(l))

-----------------------------------------------------------------------------
(* Properties.                                                             *)

\* A k3d cluster on this machine always has a record that the lab lists, so
\* that it can be deleted from the panel: the record is written before the
\* cluster is created and marked deleted only after it is gone, whatever copy
\* an action read before it took the lock (runK3DLabCreate, runK3DLabAction).
\* It fails in the window k3dGap.
ClusterIsRecorded ==
  \A c \in Clusters : clusters[c] # "absent" =>
    records[c] # NoRecord /\ records[c].status # "deleted"

\* A lab's entry is not held for ever by one action: whatever command fails,
\* and although the goroutine may die with the panel while its command lives
\* on, the entry moves on from every pid and from a claim without one.
LabEntryReleased ==
  \A l \in Labs : []<>~entry[l].running \/ []<><<entry'[l] # entry[l]>>_labVars

\* A record that names a dead endpoint does not keep doing so: neither the
\* watcher, nor the goroutine that writes its own copy back, nor a stop or
\* cleanup in between leaves a ghost behind.
GhostEndpointsLeave ==
  \A s \in Steves :
    (records[s] # NoRecord /\ records[s].pid /\ ~SteveAlive(s))
      ~> (records[s] = NoRecord \/ ~records[s].pid \/ records[s].status = "cleaned")
=============================================================================
