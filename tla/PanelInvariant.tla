--------------------------- MODULE PanelInvariant ---------------------------
(***************************************************************************)
(* The inductive invariant behind the safety properties of PanelLifecycle, *)
(* and the slots of RunSlots as PanelLifecycle implements them.            *)
(***************************************************************************)
EXTENDS PanelLifecycle

\* The windows that the proofs exclude; the runs that open them show how each
\* property then fails.
TameFaults == "reapRace" \notin Faults /\ "spawnCrash" \notin Faults

\* Without Linode Docker runs all operations are in one conflict class.
OneClass == \A r \in Runs : KindOf[r] # "linode"

\* The goroutine of the slot, or the worker it left behind, holds its entry.
Owns(w) == jobs[w].pc \in {"launch", "spawn", "setpid", "wait", "orphan", "finish"}

\* The entry of an operation shows the run and the pid of its owner.
OwnerOK(w) ==
  Owns(w) =>
    /\ jobs[w].run \in used
    /\ ops[jobs[w].op].running
    /\ ops[jobs[w].op].run = jobs[w].run
    /\ jobs[w].pc \in {"launch", "spawn", "setpid"} => ops[jobs[w].op].pid = NoWorker
    /\ jobs[w].pc \in {"wait", "orphan"} => ops[jobs[w].op].pid = w
    /\ jobs[w].pc = "finish" => ops[jobs[w].op].pid \in {w, NoWorker}

OwnerInv == \A w \in Workers : OwnerOK(w)

\* The lock lets one operation of a conflict class have an owner.
ExclusiveInv ==
  \A v, w \in Workers :
    v # w /\ Owns(v) /\ Owns(w) => jobs[v].op \notin ConflictsWith(jobs[w].op)

\* Setups and cleanups run in the class of the run they were asked for.
KindInv ==
  \A w \in Workers : Owns(w) =>
    /\ jobs[w].op \in SetupOps => jobs[w].op = SetupOpFor(jobs[w].run)
    /\ jobs[w].op \in CleanupOps => jobs[w].op = CleanupOpFor(jobs[w].run)

HandlerInv ==
  \A h \in Handlers : handlers[h].pc # "idle" =>
    /\ handlers[h].run \in used
    /\ handlers[h].op \notin SetupOps
    /\ handlers[h].op \in CleanupOps => handlers[h].op = CleanupOpFor(handlers[h].run)

\* A setup that can still provision its run.
Unfinished(w) == jobs[w].pc \in {"launch", "spawn", "setpid", "wait", "orphan"}
SettingUp(w, r) == jobs[w].op \in SetupOps /\ jobs[w].run = r /\ Unfinished(w)

\* Nothing is left of the run and nothing can bring it back.
Gone(r) == r \in used /\ r \notin mgmt /\ \A w \in Workers : ~SettingUp(w, r)

RecordInv ==
  /\ \A r \in Runs : Recorded(r) => r \in used
  /\ \A w \in Workers, r \in Runs : SettingUp(w, r) =>
       /\ Recorded(r)
       /\ jobs[w].pc # "launch" => jobs[w].target = r

\* A cleanup that reports success has left nothing of its run, even when its
\* worker was pointed at another one.
CleanupOK(w) ==
  /\ jobs[w].op \in CleanupOps =>
       /\ jobs[w].pc \in {"spawn", "setpid", "wait", "orphan"} =>
            /\ jobs[w].target # jobs[w].run => Gone(jobs[w].run)
            /\ jobs[w].phase = "destroyed" => Gone(jobs[w].run)
       /\ jobs[w].pc = "finish" /\ jobs[w].ok => Gone(jobs[w].run)
       /\ jobs[w].pc = "record" /\ jobs[w].ok => Gone(jobs[w].out)
  /\ jobs[w].ok => jobs[w].pc \in {"finish", "record", "after"}
  /\ jobs[w].phase # "start" => jobs[w].pc \in {"setpid", "wait", "orphan"}

CleanupInv == \A w \in Workers : CleanupOK(w)

\* The sweep waits for one child, which cleans up the run the sweep is at.
ChildOK(w) ==
  jobs[w].child =>
    /\ jobs[w].pc \in {"launch", "spawn", "setpid", "wait", "finish"}
    /\ jobs[w].op \in CleanupOps
    /\ sweep.pc = "await" /\ jobs[w].run = sweep.run

SweepOK ==
  /\ sweep.todo \subseteq used
  /\ sweep.pc \in {"read", "lock", "await", "account", "tally"} => sweep.run \in used
  /\ sweep.pc = "account" /\ sweep.ok => Gone(sweep.run)

SweepInv ==
  /\ \A w \in Workers : ChildOK(w)
  /\ \A v, w \in Workers : jobs[v].child /\ jobs[w].child => v = w
  /\ SweepOK

\* The inductive invariant: who owns an entry, which records stand behind the
\* infrastructure, what a finished cleanup and the sweep may claim.
IInv ==
  /\ TypeOK /\ OwnerInv /\ ExclusiveInv /\ KindInv /\ HandlerInv
  /\ RecordInv /\ CleanupInv /\ SweepInv
  /\ NoOrphanedInfrastructure

-----------------------------------------------------------------------------
\* A swept run has no downstreams until its infrastructure is destroyed
\* (TestHACleanup deletes them first, and no downstream worker runs beside it).
SweptInv ==
  \A w \in Workers :
    jobs[w].phase = "swept" => /\ jobs[w].op \in CleanupOps
                               /\ jobs[w].target \notin ds

-----------------------------------------------------------------------------
(* The cleanup batch and the statuses.                                     *)

AtItem == sweep.pc \in {"read", "lock", "await", "account", "tally"}

\* A running batch has its goroutine, which waits for the only entry in use.
HoldsInv ==
  /\ batch.running <=> sweep.pc # "idle"
  /\ batch.running =>
       /\ AtItem => batch.run = sweep.run
       /\ \A o \in Ops : ops[o].running =>
            sweep.pc = "await" /\ ops[o].run = sweep.run /\ o = CleanupOpFor(sweep.run)

\* The batch knows the pid of the child it waits for, and has interrupted it
\* if it is cancelled.
ReachInv ==
  batch.running =>
    \A w \in Workers : AtPc(w, "wait") /\ jobs[w].child =>
      batch.pid = w /\ (batch.cancel => w \in interrupted)

\* The runs of a batch are done, failed, waiting or the one at hand.
TallyInv ==
  /\ batch.done \cap batch.failed = {}
  /\ \A r \in batch.done : r \in used /\ ~Recorded(r)
  /\ sweep.pc # "idle" =>
       /\ (batch.done \cup batch.failed) \cap sweep.todo = {}
       /\ AtItem => sweep.run \notin batch.done \cup batch.failed \cup sweep.todo
       /\ sweep.pc = "close" => sweep.todo = {} \/ batch.cancel
       /\ ~(sweep.pc = "close" /\ batch.cancel) =>
            batch.ids = batch.done \cup batch.failed \cup sweep.todo
                          \cup (IF AtItem THEN {sweep.run} ELSE {})
  /\ sweep.pc = "tally" /\ sweep.ok => ~Recorded(sweep.run)

\* A worker that was pointed at another run than its own has lost the record
\* that it could write a status to.
EnvOK(w) ==
  /\ jobs[w].pc \in {"spawn", "setpid", "wait", "orphan", "finish"} /\ jobs[w].target # jobs[w].run =>
       ~Recorded(jobs[w].run)
  /\ jobs[w].pc = "record" =>
       jobs[w].out \in used /\ (jobs[w].target # jobs[w].out => ~Recorded(jobs[w].out))

EnvInv == \A w \in Workers : EnvOK(w)

BatchInv == HoldsInv /\ ReachInv /\ TallyInv /\ EnvInv

-----------------------------------------------------------------------------
\* The slots as the abstract specification sees them.
Slots == INSTANCE RunSlots WITH
  drawn <- used,
  recorded <- {r \in Runs : Recorded(r)},
  provisioned <- mgmt,
  extended <- ds

\* The panel implements the slots: every step of every goroutine and worker is
\* one step of RunSlots or changes nothing the slots show.
ImplementsSlots == Slots!Spec
=============================================================================
