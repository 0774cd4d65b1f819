--------------------------- MODULE RunRecordFiles ---------------------------
(***************************************************************************)
(* The run records as files.  A run has its own file, and current-run.json *)
(* holds a copy of the record that was written last through it.  No lock   *)
(* covers either, and os.WriteFile truncates a file before it fills it, so *)
(* a record operation is a sequence of file steps that goroutines          *)
(* interleave and that a crash can cut short.                              *)
(***************************************************************************)
EXTENDS Naturals, FiniteSets

CONSTANTS
  Runs, Tasks, Current,  \* run ids, goroutines, the path of current-run.json
  UpdatedRuns,           \* bound: the runs that get updates
  MaxUpdates,            \* bound on the updates of each kind that such a run gets
  MaxCrashes,            \* bound on the crashes of the panel
  Polls,                 \* the UI polls, and so calls listRunRecords
  NoRun

ASSUME PathsAssumption == Current \notin Runs /\ NoRun \notin Runs
ASSUME BoundsAssumption ==
  UpdatedRuns \subseteq Runs /\ MaxUpdates \in Nat /\ MaxCrashes \in Nat /\ Polls \in BOOLEAN

VARIABLES
  file,    \* content of each path: Absent, Torn or a record
  open,    \* tasks that hold each path truncated and open
  task,    \* the record operation of each goroutine
  life,    \* where each run is between its setup and its destruction
  issued,  \* history: updates of each kind begun for a run
  overlapped,  \* history: runs with two operations under way at a time
  crashes

vars == <<file, open, task, life, issued, overlapped, crashes>>

Paths == Runs \cup {Current}

\* A record names its run; of its fields it keeps the number of the status and
\* of the downstream update that wrote them.
Record == [run : Runs, status : 0..MaxUpdates, down : 0..MaxUpdates]
Blank == [run |-> NoRun, status |-> 0, down |-> 0]
\* What a task has in hand: the number that its update brings, then the record
\* with that number in it.
Draft == [run : Runs \cup {NoRun}, status : 0..MaxUpdates, down : 0..MaxUpdates]
Absent == [run |-> NoRun, status |-> 1, down |-> 0]
Torn == [run |-> NoRun, status |-> 2, down |-> 0]  \* json.Unmarshal fails

OpNames == {"create", "status", "downstream", "remove", "list"}
Pcs == {"idle", "read", "fallback", "truncRun", "fillRun", "readCurrent",
        "truncCurrent", "fillCurrent", "unlinkRun", "unlinkCurrent"}
IdleTask == [pc |-> "idle", op |-> "list", run |-> NoRun, rec |-> Blank]

\* An operator named Broken... or Lazy... is its namesake with a
\* bug put in, for the mutation tests.

\* Paths hold records, absence or torn bytes; tasks know the run they act on.
TypeOK ==
  /\ file \in [Paths -> Record \cup {Absent, Torn}]
  /\ open \in [Paths -> SUBSET Tasks]
  /\ task \in [Tasks -> [pc : Pcs, op : OpNames, run : Runs \cup {NoRun}, rec : Draft]]
  /\ life \in [Runs -> {"new", "creating", "recorded", "removed"}]
  /\ issued \in [Runs -> [status : 0..MaxUpdates, down : 0..MaxUpdates]]
  /\ overlapped \subseteq Runs
  /\ crashes \in 0..MaxCrashes

Init ==
  /\ file = [p \in Paths |-> Absent]
  /\ open = [p \in Paths |-> {}]
  /\ task = [t \in Tasks |-> IdleTask]
  /\ life = [r \in Runs |-> "new"]
  /\ issued = [r \in Runs |-> [status |-> 0, down |-> 0]]
  /\ overlapped = {}
  /\ crashes = 0

-----------------------------------------------------------------------------
(* The calls.  Only creations hold p.mu throughout: finishPanelCommand     *)
(* unlocks it before the update of the record, so a request, a refusal, a  *)
(* batch or a recovery may begin another operation of the same run beside  *)
(* it.                                                                     *)

Names(p, r) == file[p].run = r
AtRest(r) == \A t \in Tasks : task[t].run # r
Goto(t, pc) == task' = [task EXCEPT ![t].pc = pc]
Carry(t, pc, rec) == task' = [task EXCEPT ![t].pc = pc, ![t].run = rec.run, ![t].rec = rec]
Return(t) == task' = [task EXCEPT ![t] = IdleTask]

Call(t, op, r, pc, rec) ==
  /\ task[t].pc = "idle"
  /\ task' = [task EXCEPT ![t] = [pc |-> pc, op |-> op, run |-> r, rec |-> rec]]
  /\ overlapped' = overlapped \cup {q \in Runs \cap {r} : ~AtRest(q)}

CreateCurrentRunRecord(t, r) ==
  /\ life[r] = "new"
  /\ \A u \in Tasks : task[u].pc # "idle" => task[u].op # "create"
  /\ Call(t, "create", r, "truncRun", [run |-> r, status |-> 0, down |-> 0])
  /\ life' = [life EXCEPT ![r] = "creating"]
  /\ UNCHANGED <<file, open, issued, crashes>>

\* A late update of a run that was destroyed meanwhile is tried as well.
UpdateRunRecordStatus(t, r) ==
  /\ life[r] \in {"recorded", "removed"} /\ r \in UpdatedRuns /\ issued[r].status < MaxUpdates
  /\ Call(t, "status", r, "read", [Blank EXCEPT !.status = issued[r].status + 1])
  /\ issued' = [issued EXCEPT ![r].status = @ + 1]
  /\ UNCHANGED <<file, open, life, crashes>>

UpdateRunDownstreamStatus(t, r) ==
  /\ life[r] \in {"recorded", "removed"} /\ r \in UpdatedRuns /\ issued[r].down < MaxUpdates
  /\ Call(t, "downstream", r, "read", [Blank EXCEPT !.down = issued[r].down + 1])
  /\ issued' = [issued EXCEPT ![r].down = @ + 1]
  /\ UNCHANGED <<file, open, life, crashes>>

\* Only a crash leaves a run in the middle of its creation for a cleanup to find.
RemoveRunRecord(t, r) ==
  /\ life[r] \in {"creating", "recorded"}
  /\ life[r] = "creating" => AtRest(r)
  /\ Call(t, "remove", r, "unlinkRun", Blank)
  /\ life' = [life EXCEPT ![r] = "removed"]
  /\ UNCHANGED <<file, open, issued, crashes>>

ListRunRecords(t) ==
  /\ Polls
  /\ Call(t, "list", NoRun, "readCurrent", Blank)
  /\ UNCHANGED <<file, open, life, issued, crashes>>

-----------------------------------------------------------------------------
(* The file steps.                                                         *)

\* A status update writes a record of its own instead of the one it has read.
BrokenUpdated(t, rec) ==
  IF task[t].op = "status" THEN [rec EXCEPT !.status = task[t].rec.status, !.down = 0]
                           ELSE [rec EXCEPT !.down = task[t].rec.down]

\* What an update makes of the record that it has read.
Updated(t, rec) ==
  IF task[t].op = "status" THEN [rec EXCEPT !.status = task[t].rec.status]
                           ELSE [rec EXCEPT !.down = task[t].rec.down]

\* readRunRecord: a file that does not parse ends the update, one that does not
\* exist sends it to the current record.
ReadRun(t) ==
  LET r == task[t].run IN
  /\ task[t].pc = "read"
  /\ \/ file[r] = Absent /\ Goto(t, "fallback")
     \/ file[r] = Torn /\ Return(t)
     \/ Names(r, r) /\ Carry(t, "truncRun", Updated(t, file[r]))
  /\ UNCHANGED <<file, open, life, issued, overlapped, crashes>>

\* The record of another run is taken when it is the current one.
BrokenReadFallback(t) ==
  /\ task[t].pc = "fallback"
  /\ IF file[Current] \in Record
       THEN Carry(t, "truncRun", Updated(t, file[Current]))
       ELSE Return(t)
  /\ UNCHANGED <<file, open, life, issued, overlapped, crashes>>

ReadFallback(t) ==
  /\ task[t].pc = "fallback"
  /\ IF Names(Current, task[t].run)
       THEN Carry(t, "truncRun", Updated(t, file[Current]))
       ELSE Return(t)
  /\ UNCHANGED <<file, open, life, issued, overlapped, crashes>>

\* os.WriteFile opens with O_TRUNC and creates the file.
Truncate(t, p, pc) ==
  /\ file' = [file EXCEPT ![p] = Torn]
  /\ open' = [open EXCEPT ![p] = @ \cup {t}]
  /\ Goto(t, pc)
  /\ UNCHANGED <<life, issued, overlapped, crashes>>

\* The bytes go to offset 0 of the opened file.  When another task has filled
\* it since, the end of a longer record may remain behind them; when the file
\* was removed since, nothing under the path changes.
Fill(t, p) ==
  /\ IF t \in open[p]
       THEN \/ file' = [file EXCEPT ![p] = task[t].rec]
            \/ file[p] # Torn /\ file[p] # task[t].rec /\ file' = [file EXCEPT ![p] = Torn]
       ELSE UNCHANGED file
  /\ open' = [open EXCEPT ![p] = @ \ {t}]
  /\ UNCHANGED <<issued, overlapped, crashes>>

Unlink(t, p) ==
  /\ file' = [file EXCEPT ![p] = Absent]
  /\ open' = [open EXCEPT ![p] = {}]
  /\ UNCHANGED <<life, issued, overlapped, crashes>>

TruncateRun(t) ==
  /\ task[t].pc = "truncRun"
  /\ Truncate(t, task[t].run, "fillRun")

\* writeRunRecord ends here; writeCurrentRunRecord goes on to the current file
\* and updateRunDownstreamStatus looks whose that is.
FillRun(t) ==
  /\ task[t].pc = "fillRun"
  /\ Fill(t, task[t].run)
  /\ CASE task[t].op \in {"create", "status"} -> Goto(t, "truncCurrent")
       [] task[t].op = "downstream"           -> Goto(t, "readCurrent")
       [] task[t].op = "list"                 -> Return(t)
  /\ UNCHANGED life

\* The run file is left as it is when the current record is listed.
BrokenReadCurrent(t) ==
  LET mine == Names(Current, task[t].run) /\ task[t].op # "list" IN
  /\ task[t].pc = "readCurrent"
  /\ CASE task[t].op = "downstream" /\ mine -> Goto(t, "truncCurrent")
       [] task[t].op = "remove" /\ mine     -> Goto(t, "unlinkCurrent")
       [] OTHER                             -> Return(t)
  /\ UNCHANGED <<file, open, life, issued, overlapped, crashes>>

\* The current file is written or removed only for the run of the call;
\* listRunRecords rewrites the file of whatever run is current.
ReadCurrent(t) ==
  LET mine == Names(Current, task[t].run)
      op == task[t].op
  IN  /\ task[t].pc = "readCurrent"
      /\ CASE op = "downstream" /\ mine                  -> Goto(t, "truncCurrent")
           [] op = "remove" /\ mine                      -> Goto(t, "unlinkCurrent")
           [] op = "list" /\ file[Current] \in Record    -> Carry(t, "truncRun", file[Current])
           [] OTHER                                      -> Return(t)
      /\ UNCHANGED <<file, open, life, issued, overlapped, crashes>>

TruncateCurrent(t) ==
  /\ task[t].pc = "truncCurrent"
  /\ Truncate(t, Current, "fillCurrent")

FillCurrent(t) ==
  /\ task[t].pc = "fillCurrent"
  /\ Fill(t, Current)
  /\ life' = IF task[t].op = "create" THEN [life EXCEPT ![task[t].run] = "recorded"] ELSE life
  /\ Return(t)

UnlinkRun(t) ==
  /\ task[t].pc = "unlinkRun"
  /\ Unlink(t, task[t].run)
  /\ Goto(t, "readCurrent")

UnlinkCurrent(t) ==
  /\ task[t].pc = "unlinkCurrent"
  /\ Unlink(t, Current)
  /\ Return(t)

\* The panel dies: what was truncated and not yet filled stays torn.
Crash ==
  /\ crashes < MaxCrashes
  /\ crashes' = crashes + 1
  /\ task' = [t \in Tasks |-> IdleTask]
  /\ open' = [p \in Paths |-> {}]
  /\ UNCHANGED <<file, life, issued, overlapped>>

FileStep(t) ==
  \/ ReadRun(t) \/ ReadFallback(t) \/ TruncateRun(t) \/ FillRun(t) \/ ReadCurrent(t)
  \/ TruncateCurrent(t) \/ FillCurrent(t) \/ UnlinkRun(t) \/ UnlinkCurrent(t)

Next ==
  \/ \E t \in Tasks, r \in Runs :
       \/ CreateCurrentRunRecord(t, r) \/ UpdateRunRecordStatus(t, r)
       \/ UpdateRunDownstreamStatus(t, r) \/ RemoveRunRecord(t, r)
  \/ \E t \in Tasks : ListRunRecords(t) \/ FileStep(t)
  \/ Crash

Spec == Init /\ [][Next]_vars

\* Goroutines are scheduled and an open panel polls.
FairSpec ==
  Spec /\ \A t \in Tasks : WF_vars(FileStep(t)) /\ WF_vars(ListRunRecords(t))

-----------------------------------------------------------------------------
\* Whatever the record operations of other runs do meanwhile, a run at rest whose
\* own operations followed each other has in its file what they left, the last
\* update of each kind or nothing once it was removed, and so has current-run.json
\* when it names the run (updateRunDownstreamStatus and removeRunRecord look at the
\* current record after the file of the run).  Two updates of one run that overlap
\* can undo each other; a poll rewrites what it has read.
Settled ==
  \A r \in Runs \ overlapped : AtRest(r) =>
    /\ life[r] = "recorded" => file[r] = [run |-> r, status |-> issued[r].status,
                                                     down |-> issued[r].down]
    /\ life[r] = "removed" => file[r] = Absent
    /\ Names(Current, r) => file[Current] = file[r]

\* No operation writes into the record of a run that it was not called for,
\* whatever is torn, missing or current at that moment: a record shows updates
\* of its own run only (the sameRunID check of readRunRecord).
NoForeignUpdates ==
  \A r \in Runs, p \in Paths : Names(p, r) =>
    /\ p \in {r, Current}
    /\ file[p].status <= issued[r].status /\ file[p].down <= issued[r].down

\* A panel that polls recovers the file of the current run after a crash in the
\* middle of a write.
CurrentRunRecovers ==
  \A r \in Runs :
    Names(Current, r) ~> (Names(r, r) \/ ~Names(Current, r))

\* A slot whose cleanup removed its record is gone: no listRunRecords brings the
\* file back after removeRunRecord.
CleanedSlotsAreGone ==
  \A r \in Runs : AtRest(r) /\ life[r] = "removed" => file[r] = Absent
=============================================================================
