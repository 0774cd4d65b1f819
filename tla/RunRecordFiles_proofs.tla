----------------------- MODULE RunRecordFiles_proofs ------------------------
(***************************************************************************)
(* The run records stay those of their runs however many goroutines        *)
(* interleave their file steps: with polls and crashes no record shows an  *)
(* update of another run, and without them a run at rest whose operations  *)
(* followed each other has its last one.                                   *)
(***************************************************************************)
EXTENDS RunRecordFiles, TLAPS

TaskRecord == [pc : Pcs, op : OpNames, run : Runs \cup {NoRun}, rec : Draft]
Contents == Record \cup {Absent, Torn}

-----------------------------------------------------------------------------
(* What a record operation carries from file to file.                      *)

\* A record shows no update of its run that was not called for.
Own(rec) ==
  /\ rec \in Record
  /\ rec.status <= issued[rec.run].status /\ rec.down <= issued[rec.run].down

\* The number that an update brings was given to an update of its run.
Brings(t) ==
  /\ task[t].run \in Runs
  /\ task[t].rec.status <= issued[task[t].run].status
  /\ task[t].rec.down <= issued[task[t].run].down

\* The operation works for its own run, with a record of that run.
Carries(t) == task[t].run \in Runs /\ Own(task[t].rec) /\ task[t].rec.run = task[t].run

OperationInv(t) ==
  LET pc == task[t].pc
      op == task[t].op
  IN  /\ pc = "idle" => task[t] = IdleTask
      /\ pc \in {"read", "fallback"} => op \in {"status", "downstream"} /\ Brings(t)
      /\ pc \in {"truncRun", "fillRun"} => op # "remove" /\ Carries(t)
      /\ pc \in {"truncCurrent", "fillCurrent"} =>
           op \in {"create", "status", "downstream"} /\ Carries(t)
      /\ pc = "readCurrent" => \/ op = "downstream" /\ Carries(t)
                               \/ op = "remove" /\ task[t].run \in Runs
                               \/ op = "list"
      /\ pc \in {"unlinkRun", "unlinkCurrent"} => op = "remove" /\ task[t].run \in Runs

FilesInv == \A p \in Paths : file[p] \in Record => Own(file[p]) /\ p \in {file[p].run, Current}

RecordsInv == TypeOK /\ FilesInv /\ \A t \in Tasks : OperationInv(t)

-----------------------------------------------------------------------------
(* What an operation that nobody polls or kills has done so far.           *)

Latest(r) == [run |-> r, status |-> issued[r].status, down |-> issued[r].down]

\* A run that no operation works on.
RestInv(r) == r \notin overlapped /\ AtRest(r) =>
  /\ life[r] = "new" => issued[r].status = 0 /\ issued[r].down = 0
  /\ life[r] = "recorded" => file[r] = Latest(r)
  /\ life[r] \in {"new", "removed"} => file[r] = Absent
  /\ Names(Current, r) => file[Current] = file[r]

\* A run that the operation of t works on: what the operation has in hand, what
\* is in the file of the run, and what may be current.
Gone(r) == life[r] = "removed" /\ file[r] = Absent /\ ~Names(Current, r)
ReadInv(t) ==
  LET r == task[t].run IN
  \/ Gone(r)
  \/ /\ life[r] = "recorded" /\ Names(r, r)
     /\ task[t].op = "status" =>
          task[t].rec.status = issued[r].status /\ file[r].down = issued[r].down
     /\ task[t].op = "downstream" =>
          task[t].rec.down = issued[r].down /\ file[r].status = issued[r].status
WriteInv(t) ==
  LET r == task[t].run
      pc == task[t].pc
  IN  /\ task[t].rec = Latest(r)
      /\ task[t].op = "create" => life[r] = "creating" /\ ~Names(Current, r)
      /\ task[t].op # "create" => life[r] = "recorded"
      /\ pc = "fillRun" => file[r] = Torn /\ t \in open[r]
      /\ pc \in {"readCurrent", "truncCurrent", "fillCurrent"} => file[r] = Latest(r)
      /\ pc = "fillCurrent" => ~Names(Current, r)
RemoveInv(t) ==
  LET r == task[t].run IN
  /\ life[r] = "removed"
  /\ task[t].pc \in {"readCurrent", "unlinkCurrent"} => file[r] = Absent

\* The only operation of a run.
Alone(t, r) == \A u \in Tasks \ {t} : task[u].run # r

BusyInv(t) ==
  /\ task[t].pc # "idle" => task[t].run \in Runs /\ task[t].op # "list"
  /\ task[t].run \in Runs \ overlapped =>
       /\ Alone(t, task[t].run)
       /\ task[t].pc = "read" => ReadInv(t)
       /\ task[t].pc = "fallback" => Gone(task[t].run)
       /\ task[t].pc \notin {"idle", "read", "fallback"} /\ task[t].op # "remove" => WriteInv(t)
       /\ task[t].pc # "idle" /\ task[t].op = "remove" => RemoveInv(t)

SettledInv == (\A r \in Runs : RestInv(r)) /\ \A t \in Tasks : BusyInv(t)

-----------------------------------------------------------------------------
(* Records, and the steps of a task.                                       *)

LEMMA ContentsDiffer ==
  /\ Absent \notin Record /\ Torn \notin Record /\ Absent # Torn
  /\ Current \notin Runs /\ NoRun \notin Runs /\ Runs \subseteq Paths /\ Current \in Paths
  /\ \A r \in Runs : Absent.run # r /\ Torn.run # r
  /\ \A rec \in Contents : rec.run \in Runs => rec \in Record
BY PathsAssumption DEF Absent, Torn, Record, Paths, Contents

LEMMA Types ==
  ASSUME TypeOK, NEW t \in Tasks
  PROVE  /\ task[t] \in TaskRecord /\ task[t].pc \in Pcs /\ task[t].op \in OpNames
         /\ task[t].run \in Runs \cup {NoRun} /\ task[t].rec \in Draft
         /\ \A p \in Paths : file[p] \in Contents /\ open[p] \subseteq Tasks
         /\ \A r \in Runs : issued[r].status \in 0..MaxUpdates /\ issued[r].down \in 0..MaxUpdates
BY DEF TypeOK, TaskRecord, Contents

LEMMA TaskUpdates ==
  ASSUME NEW a \in TaskRecord, NEW pc \in Pcs
  PROVE  LET b == [a EXCEPT !.pc = pc] IN
           b \in TaskRecord /\ b.pc = pc /\ b.op = a.op /\ b.run = a.run /\ b.rec = a.rec
BY DEF TaskRecord

LEMMA Drafts ==
  /\ Record \subseteq Draft /\ Blank \in Draft
  /\ \A n \in 0..MaxUpdates : /\ [Blank EXCEPT !.status = n] \in Draft
                             /\ [Blank EXCEPT !.status = n].status = n
                             /\ [Blank EXCEPT !.status = n].down = 0
                             /\ [Blank EXCEPT !.down = n] \in Draft
                             /\ [Blank EXCEPT !.down = n].down = n
                             /\ [Blank EXCEPT !.down = n].status = 0
BY BoundsAssumption DEF Record, Draft, Blank

LEMMA IdleTyped == IdleTask \in TaskRecord /\ IdleTask.pc = "idle" /\ IdleTask.run = NoRun
BY Drafts DEF IdleTask, TaskRecord, Pcs, OpNames

\* What is left of the other tasks when one of them moves.
OthersWait(t) == task' \in [Tasks -> TaskRecord] /\ \A u \in Tasks \ {t} : task'[u] = task[u]

LEMMA TaskSteps ==
  ASSUME TypeOK, NEW t \in Tasks
  PROVE  /\ \A pc \in Pcs : Goto(t, pc) =>
              /\ OthersWait(t) /\ task'[t].pc = pc /\ task'[t].op = task[t].op
              /\ task'[t].run = task[t].run /\ task'[t].rec = task[t].rec
         /\ \A pc \in Pcs, rec \in Record : Carry(t, pc, rec) =>
              /\ OthersWait(t) /\ task'[t].pc = pc /\ task'[t].op = task[t].op
              /\ task'[t].run = rec.run /\ task'[t].rec = rec
         /\ Return(t) => OthersWait(t) /\ task'[t] = IdleTask
         /\ \A op \in OpNames, r \in Runs \cup {NoRun}, pc \in Pcs, rec \in Draft :
              Call(t, op, r, pc, rec) =>
                /\ OthersWait(t) /\ task'[t].pc = pc /\ task'[t].op = op
                /\ task'[t].run = r /\ task'[t].rec = rec /\ overlapped' \subseteq Runs
<1>0. task \in [Tasks -> TaskRecord] /\ task[t] \in TaskRecord
  BY DEF TypeOK, TaskRecord
<1>1. ASSUME NEW pc \in Pcs, Goto(t, pc)
      PROVE  /\ OthersWait(t) /\ task'[t].pc = pc /\ task'[t].op = task[t].op
             /\ task'[t].run = task[t].run /\ task'[t].rec = task[t].rec
  <2>1. task' = [task EXCEPT ![t] = [task[t] EXCEPT !.pc = pc]]
    BY <1>0, <1>1 DEF Goto
  <2> QED
    BY <1>0, <2>1, TaskUpdates DEF OthersWait
<1>2. ASSUME NEW pc \in Pcs, NEW rec \in Record, Carry(t, pc, rec)
      PROVE  /\ OthersWait(t) /\ task'[t].pc = pc /\ task'[t].op = task[t].op
             /\ task'[t].run = rec.run /\ task'[t].rec = rec
  <2>1. task' = [task EXCEPT ![t] = [task[t] EXCEPT !.pc = pc, !.run = rec.run, !.rec = rec]]
    BY <1>0, <1>2 DEF Carry
  <2> DEFINE b == [task[t] EXCEPT !.pc = pc, !.run = rec.run, !.rec = rec]
  <2>2. /\ b \in TaskRecord /\ b.pc = pc /\ b.op = task[t].op
        /\ b.run = rec.run /\ b.rec = rec
    BY <1>0, Drafts DEF TaskRecord, Record
  <2> HIDE DEF b
  <2>3. task' = [task EXCEPT ![t] = b]
    BY <2>1 DEF b
  <2> QED
    BY <1>0, <2>2, <2>3 DEF OthersWait
<1>3. Return(t) => OthersWait(t) /\ task'[t] = IdleTask
  BY <1>0, IdleTyped DEF Return, OthersWait
<1>4. ASSUME NEW op \in OpNames, NEW r \in Runs \cup {NoRun}, NEW pc \in Pcs,
             NEW rec \in Draft, Call(t, op, r, pc, rec)
      PROVE  /\ OthersWait(t) /\ task'[t].pc = pc /\ task'[t].op = op
             /\ task'[t].run = r /\ task'[t].rec = rec /\ overlapped' \subseteq Runs
  <2>1. task' = [task EXCEPT ![t] = [pc |-> pc, op |-> op, run |-> r, rec |-> rec]]
    BY <1>4 DEF Call
  <2>2. [pc |-> pc, op |-> op, run |-> r, rec |-> rec] \in TaskRecord
    BY <1>4 DEF TaskRecord
  <2>3. overlapped' \subseteq Runs
    BY <1>4 DEF Call, TypeOK
  <2> QED
    BY <1>0, <2>1, <2>2, <2>3 DEF OthersWait
<1> QED
  BY <1>1, <1>2, <1>3, <1>4

\* What an update makes of a record of its run is the run's own again.
LEMMA UpdatedIsOwn ==
  ASSUME TypeOK, NEW t \in Tasks, NEW rec, Own(rec), rec.run = task[t].run, Brings(t)
  PROVE  /\ Own(Updated(t, rec)) /\ Updated(t, rec).run = rec.run
         /\ task[t].op = "status" => /\ Updated(t, rec).status = task[t].rec.status
                                     /\ Updated(t, rec).down = rec.down
         /\ task[t].op # "status" => /\ Updated(t, rec).status = rec.status
                                     /\ Updated(t, rec).down = task[t].rec.down
<1>1. rec \in Record /\ task[t].rec.status \in 0..MaxUpdates /\ task[t].rec.down \in 0..MaxUpdates
  BY Types DEF Own, Draft
<1>2. /\ [rec EXCEPT !.status = task[t].rec.status] \in Record
      /\ [rec EXCEPT !.down = task[t].rec.down] \in Record
  BY <1>1 DEF Record
<1> QED
  BY <1>1, <1>2 DEF Updated, Own, Record, Brings

-----------------------------------------------------------------------------
(* No operation writes into the record of another run.                     *)

\* A step of t that leaves t in order, and puts into a file at most what t
\* carries, keeps everything in order.
Grown == \A r \in Runs : issued'[r].status >= issued[r].status /\ issued'[r].down >= issued[r].down
Touched(t) ==
  \A p \in Paths :
    \/ file'[p] \in {file[p], Torn, Absent}
    \/ file'[p] = task[t].rec /\ Carries(t) /\ p \in {task[t].run, Current}

LEMMA RecordsFrame ==
  ASSUME RecordsInv, TypeOK', NEW t \in Tasks, OthersWait(t), Grown, Touched(t), OperationInv(t)'
  PROVE  RecordsInv'
<1>1. ASSUME NEW rec, Own(rec)
      PROVE  /\ rec \in Record /\ rec.status <= issued'[rec.run].status
             /\ rec.down <= issued'[rec.run].down
  <2>1. rec \in Record /\ rec.run \in Runs /\ rec.status \in Nat /\ rec.down \in Nat
    BY <1>1, BoundsAssumption DEF Own, Record
  <2>2. /\ issued[rec.run].status \in Nat /\ issued'[rec.run].status \in Nat
        /\ issued[rec.run].down \in Nat /\ issued'[rec.run].down \in Nat
    BY <2>1, BoundsAssumption DEF RecordsInv, TypeOK
  <2> QED
    BY <1>1, <2>1, <2>2 DEF Own, Grown
<1>2. FilesInv'
  <2> SUFFICES ASSUME NEW p \in Paths, file'[p] \in Record
               PROVE  Own(file[p])' /\ p \in {file'[p].run, Current}
    BY DEF FilesInv
  <2>1. CASE file'[p] = file[p]
    BY <1>1, <2>1 DEF RecordsInv, FilesInv, Own
  <2>2. CASE file'[p] # file[p]
    <3>1. file'[p] = task[t].rec /\ Carries(t) /\ p \in {task[t].run, Current}
      BY <2>2, ContentsDiffer DEF Touched
    <3> QED
      BY <1>1, <3>1 DEF Carries, Own
  <2> QED
    BY <2>1, <2>2
<1>3. ASSUME NEW u \in Tasks \ {t}
      PROVE  OperationInv(u)'
  <2>1. OperationInv(u) /\ task'[u] = task[u]
    BY DEF RecordsInv, OthersWait
  <2>2. Carries(u) => Carries(u)'
    BY <1>1, <2>1 DEF Carries, Own
  <2>3. Brings(u) => Brings(u)'
    <3>1. /\ task[u].rec.status \in Nat /\ task[u].rec.down \in Nat
          /\ \A r \in Runs : /\ issued[r].status \in Nat /\ issued'[r].status \in Nat
                              /\ issued[r].down \in Nat /\ issued'[r].down \in Nat
      BY BoundsAssumption, Types DEF RecordsInv, TypeOK, Draft
    <3> QED
      BY <2>1, <3>1 DEF Brings, Grown
  <2> QED
    BY <2>1, <2>2, <2>3 DEF OperationInv
<1> QED
  BY <1>2, <1>3 DEF RecordsInv

\* What the file steps do to the paths.
LEMMA FileTypes ==
  ASSUME TypeOK, NEW t \in Tasks, NEW p \in Paths
  PROVE  /\ \A pc \in Pcs : Truncate(t, p, pc) =>
              /\ file' \in [Paths -> Contents] /\ open' \in [Paths -> SUBSET Tasks]
              /\ file'[p] = Torn /\ open'[p] = open[p] \cup {t}
              /\ \A q \in Paths \ {p} : file'[q] = file[q] /\ open'[q] = open[q]
         /\ Fill(t, p) /\ task[t].rec \in Record =>
              /\ file' \in [Paths -> Contents] /\ open' \in [Paths -> SUBSET Tasks]
              /\ file'[p] \in {task[t].rec, Torn, file[p]}
              /\ t \in open[p] => file'[p] \in {task[t].rec, Torn}
              /\ t \in open[p] /\ file[p] = Torn => file'[p] = task[t].rec
              /\ \A q \in Paths \ {p} : file'[q] = file[q] /\ open'[q] = open[q]
         /\ Unlink(t, p) =>
              /\ file' \in [Paths -> Contents] /\ open' \in [Paths -> SUBSET Tasks]
              /\ file'[p] = Absent
              /\ \A q \in Paths \ {p} : file'[q] = file[q] /\ open'[q] = open[q]
<1>0. file \in [Paths -> Contents] /\ open \in [Paths -> SUBSET Tasks]
      /\ Absent \in Contents /\ Torn \in Contents /\ Record \subseteq Contents
  BY DEF TypeOK, Contents
<1>1. ASSUME NEW pc \in Pcs, Truncate(t, p, pc)
      PROVE  /\ file' \in [Paths -> Contents] /\ open' \in [Paths -> SUBSET Tasks]
             /\ file'[p] = Torn /\ open'[p] = open[p] \cup {t}
             /\ \A q \in Paths \ {p} : file'[q] = file[q] /\ open'[q] = open[q]
  BY <1>0, <1>1 DEF Truncate
<1>2. ASSUME Fill(t, p), task[t].rec \in Record
      PROVE  /\ file' \in [Paths -> Contents] /\ open' \in [Paths -> SUBSET Tasks]
             /\ file'[p] \in {task[t].rec, Torn, file[p]}
             /\ t \in open[p] => file'[p] \in {task[t].rec, Torn}
             /\ t \in open[p] /\ file[p] = Torn => file'[p] = task[t].rec
             /\ \A q \in Paths \ {p} : file'[q] = file[q] /\ open'[q] = open[q]
  <2>1. open' \in [Paths -> SUBSET Tasks] /\ \A q \in Paths \ {p} : open'[q] = open[q]
    BY <1>0, <1>2 DEF Fill
  <2>2. \/ t \notin open[p] /\ file' = file
        \/ t \in open[p] /\ file' = [file EXCEPT ![p] = task[t].rec]
        \/ t \in open[p] /\ file[p] # Torn /\ file' = [file EXCEPT ![p] = Torn]
    BY <1>2 DEF Fill
  <2> QED
    BY <1>0, <1>2, <2>1, <2>2
<1>3. ASSUME Unlink(t, p)
      PROVE  /\ file' \in [Paths -> Contents] /\ open' \in [Paths -> SUBSET Tasks]
             /\ file'[p] = Absent
             /\ \A q \in Paths \ {p} : file'[q] = file[q] /\ open'[q] = open[q]
  BY <1>0, <1>3 DEF Unlink
<1> QED
  BY <1>1, <1>2, <1>3

LEMMA Alphabets ==
  /\ Pcs = {"idle", "read", "fallback", "truncRun", "fillRun", "readCurrent",
            "truncCurrent", "fillCurrent", "unlinkRun", "unlinkCurrent"}
  /\ OpNames = {"create", "status", "downstream", "remove", "list"}
BY DEF Pcs, OpNames

\* The types once more, with the record of a task by its name.
LEMMA TypeParts ==
  /\ TypeOK <=> /\ file \in [Paths -> Contents] /\ open \in [Paths -> SUBSET Tasks]
                /\ task \in [Tasks -> TaskRecord]
                /\ life \in [Runs -> {"new", "creating", "recorded", "removed"}]
                /\ issued \in [Runs -> [status : 0..MaxUpdates, down : 0..MaxUpdates]]
                /\ overlapped \subseteq Runs /\ crashes \in 0..MaxCrashes
  /\ TypeOK' <=> /\ file' \in [Paths -> Contents] /\ open' \in [Paths -> SUBSET Tasks]
                 /\ task' \in [Tasks -> TaskRecord]
                 /\ life' \in [Runs -> {"new", "creating", "recorded", "removed"}]
                 /\ issued' \in [Runs -> [status : 0..MaxUpdates, down : 0..MaxUpdates]]
                 /\ overlapped' \subseteq Runs /\ crashes' \in 0..MaxCrashes
BY DEF TypeOK, Contents, TaskRecord

\* A step of t that leaves the files and the counts alone.
LEMMA QuietFrame ==
  ASSUME RecordsInv, NEW t \in Tasks, OthersWait(t), UNCHANGED <<file, open, issued, crashes>>,
         overlapped' \subseteq Runs,
         life' \in [Runs -> {"new", "creating", "recorded", "removed"}], OperationInv(t)'
  PROVE  RecordsInv'
<1>1. TypeOK'
  BY TypeParts DEF RecordsInv, OthersWait
<1>2. Grown
  BY BoundsAssumption DEF Grown, RecordsInv, TypeOK
<1>3. Touched(t)
  BY DEF Touched
<1> QED
  BY <1>1, <1>2, <1>3, RecordsFrame

LEMMA CallKeepsRecords ==
  ASSUME RecordsInv, NEW t \in Tasks, NEW r \in Runs,
         \/ CreateCurrentRunRecord(t, r) \/ UpdateRunRecordStatus(t, r)
         \/ UpdateRunDownstreamStatus(t, r) \/ RemoveRunRecord(t, r)
  PROVE  RecordsInv'
<1>0. TypeOK /\ life \in [Runs -> {"new", "creating", "recorded", "removed"}]
      /\ Blank \in Draft /\ r \in Runs \cup {NoRun}
      /\ issued \in [Runs -> [status : 0..MaxUpdates, down : 0..MaxUpdates]]
  BY Drafts DEF RecordsInv, TypeOK
<1>1. CASE CreateCurrentRunRecord(t, r)
  <2> DEFINE new == [run |-> r, status |-> 0, down |-> 0]
  <2>1. new \in Record /\ new.run = r /\ new.status = 0 /\ new.down = 0
    BY BoundsAssumption DEF Record
  <2>2. issued' = issued /\ issued[r].status >= 0 /\ issued[r].down >= 0
    BY <1>0, <1>1, BoundsAssumption DEF CreateCurrentRunRecord
  <2>3. Call(t, "create", r, "truncRun", new)
    BY <1>1 DEF CreateCurrentRunRecord
  <2> HIDE DEF new
  <2>4. /\ OthersWait(t) /\ task'[t].pc = "truncRun" /\ task'[t].op = "create"
        /\ task'[t].run = r /\ task'[t].rec = new /\ overlapped' \subseteq Runs
    BY <1>0, <2>1, <2>3, TaskSteps, Alphabets, Drafts
  <2>5. Own(task[t].rec)'
    BY <2>1, <2>2, <2>4 DEF Own
  <2>6. OperationInv(t)'
    BY <2>1, <2>4, <2>5 DEF OperationInv, Carries
  <2>7. UNCHANGED <<file, open, issued, crashes>>
        /\ life' \in [Runs -> {"new", "creating", "recorded", "removed"}]
    BY <1>0, <1>1 DEF CreateCurrentRunRecord
  <2> QED
    BY <2>4, <2>6, <2>7, QuietFrame
<1>2. CASE UpdateRunRecordStatus(t, r) \/ UpdateRunDownstreamStatus(t, r)
  <2>0. /\ issued[r].status \in 0..MaxUpdates /\ issued[r].down \in 0..MaxUpdates
        /\ issued[r].status \in Nat /\ issued[r].down \in Nat
    BY <1>0, BoundsAssumption
  <2>1. PICK op \in {"status", "downstream"}, rec \in Draft :
          /\ Call(t, op, r, "read", rec)
          /\ rec.status <= issued'[r].status /\ rec.down <= issued'[r].down
    <3>1. CASE UpdateRunRecordStatus(t, r)
      <4> DEFINE n == issued[r].status + 1
      <4>1. /\ n \in 0..MaxUpdates /\ Call(t, "status", r, "read", [Blank EXCEPT !.status = n])
            /\ issued' = [issued EXCEPT ![r].status = n]
        BY <1>0, <2>0, <3>1, BoundsAssumption DEF UpdateRunRecordStatus
      <4>2. issued'[r].status = n /\ issued'[r].down = issued[r].down
        BY <1>0, <4>1
      <4> HIDE DEF n
      <4> DEFINE d == [Blank EXCEPT !.status = n]
      <4>a. d \in Draft /\ d.status = n /\ d.down = 0
        BY <4>1, Drafts
      <4>3. d \in Draft /\ d.status <= issued'[r].status /\ d.down <= issued'[r].down
        BY <2>0, <4>1, <4>2, <4>a
      <4>4. Call(t, "status", r, "read", d)
        BY <4>1
      <4> HIDE DEF d
      <4> QED
        BY <4>3, <4>4
    <3>2. CASE UpdateRunDownstreamStatus(t, r)
      <4> DEFINE n == issued[r].down + 1
      <4>1. /\ n \in 0..MaxUpdates /\ Call(t, "downstream", r, "read", [Blank EXCEPT !.down = n])
            /\ issued' = [issued EXCEPT ![r].down = n]
        BY <1>0, <2>0, <3>2, BoundsAssumption DEF UpdateRunDownstreamStatus
      <4>2. issued'[r].down = n /\ issued'[r].status = issued[r].status
        BY <1>0, <4>1
      <4> HIDE DEF n
      <4> DEFINE d == [Blank EXCEPT !.down = n]
      <4>a. d \in Draft /\ d.down = n /\ d.status = 0
        BY <4>1, Drafts
      <4>3. d \in Draft /\ d.status <= issued'[r].status /\ d.down <= issued'[r].down
        BY <2>0, <4>1, <4>2, <4>a
      <4>4. Call(t, "downstream", r, "read", d)
        BY <4>1
      <4> HIDE DEF d
      <4> QED
        BY <4>3, <4>4
    <3> QED
      BY <1>2, <3>1, <3>2
  <2>2. /\ OthersWait(t) /\ task'[t].pc = "read" /\ task'[t].op = op
        /\ task'[t].run = r /\ task'[t].rec = rec /\ overlapped' \subseteq Runs
    BY <1>0, <2>1, TaskSteps, Alphabets
  <2>3. OperationInv(t)'
    BY <2>1, <2>2 DEF OperationInv, Brings
  <2>4. issued' \in [Runs -> [status : 0..MaxUpdates, down : 0..MaxUpdates]] /\ Grown
    <3>1. CASE UpdateRunRecordStatus(t, r)
      <4>1. issued[r].status + 1 \in 0..MaxUpdates /\ issued[r].status \in 0..MaxUpdates
        BY <1>0, <3>1, BoundsAssumption DEF UpdateRunRecordStatus
      <4>2. issued' = [issued EXCEPT ![r] = [issued[r] EXCEPT !.status = issued[r].status + 1]]
        BY <1>0, <3>1 DEF UpdateRunRecordStatus
      <4>3. PICK e \in [status : 0..MaxUpdates, down : 0..MaxUpdates] :
              /\ issued' = [issued EXCEPT ![r] = e]
              /\ e.status >= issued[r].status /\ e.down >= issued[r].down
        <5> DEFINE e == [issued[r] EXCEPT !.status = issued[r].status + 1]
        <5>1. /\ e \in [status : 0..MaxUpdates, down : 0..MaxUpdates]
              /\ e.status >= issued[r].status /\ e.down >= issued[r].down
          BY <1>0, <4>1, BoundsAssumption
        <5> QED
          BY <4>2, <5>1
      <4>4. \A q \in Runs : issued[q].status \in Nat /\ issued[q].down \in Nat
        BY <1>0, BoundsAssumption
      <4> QED
        BY <1>0, <4>3, <4>4 DEF Grown
    <3>2. CASE UpdateRunDownstreamStatus(t, r)
      <4>1. issued[r].down + 1 \in 0..MaxUpdates /\ issued[r].down \in 0..MaxUpdates
        BY <1>0, <3>2, BoundsAssumption DEF UpdateRunDownstreamStatus
      <4>2. issued' = [issued EXCEPT ![r] = [issued[r] EXCEPT !.down = issued[r].down + 1]]
        BY <1>0, <3>2 DEF UpdateRunDownstreamStatus
      <4>3. PICK e \in [status : 0..MaxUpdates, down : 0..MaxUpdates] :
              /\ issued' = [issued EXCEPT ![r] = e]
              /\ e.status >= issued[r].status /\ e.down >= issued[r].down
        <5> DEFINE e == [issued[r] EXCEPT !.down = issued[r].down + 1]
        <5>1. /\ e \in [status : 0..MaxUpdates, down : 0..MaxUpdates]
              /\ e.status >= issued[r].status /\ e.down >= issued[r].down
          BY <1>0, <4>1, BoundsAssumption
        <5> QED
          BY <4>2, <5>1
      <4>4. \A q \in Runs : issued[q].status \in Nat /\ issued[q].down \in Nat
        BY <1>0, BoundsAssumption
      <4> QED
        BY <1>0, <4>3, <4>4 DEF Grown
    <3> QED
      BY <1>2, <3>1, <3>2
  <2>5. UNCHANGED <<file, open, life, crashes>>
    BY <1>2 DEF UpdateRunRecordStatus, UpdateRunDownstreamStatus
  <2>6. TypeOK' /\ Touched(t)
    BY <1>0, <2>2, <2>4, <2>5, TypeParts DEF OthersWait, Touched
  <2> QED
    BY <2>2, <2>3, <2>4, <2>6, RecordsFrame
<1>3. CASE RemoveRunRecord(t, r)
  <2>1. /\ OthersWait(t) /\ task'[t].pc = "unlinkRun" /\ task'[t].op = "remove"
        /\ task'[t].run = r /\ overlapped' \subseteq Runs
    BY <1>0, <1>3, TaskSteps, Alphabets DEF RemoveRunRecord
  <2>2. OperationInv(t)'
    BY <2>1 DEF OperationInv
  <2> QED
    BY <1>0, <1>3, <2>1, <2>2, QuietFrame DEF RemoveRunRecord
<1> QED
  BY <1>1, <1>2, <1>3

LEMMA ListKeepsRecords ==
  ASSUME RecordsInv, NEW t \in Tasks, ListRunRecords(t)
  PROVE  RecordsInv'
<1>1. /\ OthersWait(t) /\ task'[t].pc = "readCurrent" /\ task'[t].op = "list"
      /\ task'[t].run = NoRun /\ overlapped' \subseteq Runs
  BY TaskSteps, Alphabets, Drafts DEF ListRunRecords, RecordsInv
<1>2. OperationInv(t)'
  BY <1>1 DEF OperationInv
<1> QED
  BY <1>1, <1>2, QuietFrame DEF ListRunRecords, RecordsInv, TypeOK

LEMMA ReturnKeepsOperation ==
  ASSUME NEW t \in Tasks, task'[t] = IdleTask
  PROVE  OperationInv(t)'
BY IdleTyped DEF OperationInv

\* The steps that only read.
LEMMA ReadKeepsRecords ==
  ASSUME RecordsInv, NEW t \in Tasks, ReadRun(t) \/ ReadFallback(t) \/ ReadCurrent(t)
  PROVE  RecordsInv'
<1>0. TypeOK /\ OperationInv(t) /\ FilesInv
      /\ life \in [Runs -> {"new", "creating", "recorded", "removed"}]
  BY DEF RecordsInv, TypeOK
<1>1. UNCHANGED <<file, open, life, issued, overlapped, crashes>> /\ overlapped' \subseteq Runs
  BY <1>0 DEF ReadRun, ReadFallback, ReadCurrent, TypeOK
<1>2. ASSUME NEW p \in Paths, NEW rec, Own(rec), rec.run \in Runs, task[t].op # "remove",
             Carry(t, "truncRun", rec)
      PROVE  OthersWait(t) /\ OperationInv(t)'
  <2>1. /\ OthersWait(t) /\ task'[t].pc = "truncRun" /\ task'[t].op = task[t].op
        /\ task'[t].run = rec.run /\ task'[t].rec = rec
    BY <1>0, <1>2, TaskSteps, Alphabets DEF Own
  <2>2. Own(task[t].rec)'
    BY <1>1, <1>2, <2>1 DEF Own
  <2> QED
    BY <1>2, <2>1, <2>2 DEF OperationInv, Carries
<1>3. Return(t) => OthersWait(t) /\ OperationInv(t)'
  BY <1>0, TaskSteps, ReturnKeepsOperation
<1>4. CASE ReadRun(t)
  <2> DEFINE r == task[t].run
  <2>0. r \in Runs /\ task[t].op \in {"status", "downstream"} /\ r \in Paths /\ Brings(t)
    BY <1>0, <1>4, ContentsDiffer DEF ReadRun, OperationInv, Brings
  <2>1. CASE Goto(t, "fallback")
    <3>1. /\ OthersWait(t) /\ task'[t].pc = "fallback" /\ task'[t].op = task[t].op
          /\ task'[t].run = task[t].run /\ task'[t].rec = task[t].rec
      BY <1>0, <2>1, TaskSteps, Alphabets
    <3>2. OperationInv(t)'
      BY <1>1, <2>0, <3>1 DEF OperationInv, Brings
    <3> QED
      BY <1>0, <1>1, <3>1, <3>2, QuietFrame
  <2>2. CASE Names(r, r) /\ Carry(t, "truncRun", Updated(t, file[r]))
    <3>1. Own(file[r]) /\ file[r].run = r
      BY <1>0, <2>0, <2>2, ContentsDiffer, Types DEF Names, FilesInv
    <3>2. Own(Updated(t, file[r])) /\ Updated(t, file[r]).run = r
      BY <1>0, <2>0, <3>1, UpdatedIsOwn
    <3> QED
      BY <1>0, <1>1, <1>2, <2>0, <2>2, <3>2, QuietFrame
  <2> QED
    BY <1>0, <1>1, <1>3, <1>4, <2>1, <2>2, QuietFrame DEF ReadRun
<1>5. CASE ReadFallback(t)
  <2> DEFINE r == task[t].run
  <2>0. r \in Runs /\ task[t].op \in {"status", "downstream"} /\ Current \in Paths
        /\ Brings(t)
    BY <1>0, <1>5, ContentsDiffer DEF ReadFallback, OperationInv, Brings
  <2>1. CASE Names(Current, r) /\ Carry(t, "truncRun", Updated(t, file[Current]))
    <3>1. Own(file[Current]) /\ file[Current].run = r
      BY <1>0, <2>0, <2>1, ContentsDiffer, Types DEF Names, FilesInv
    <3>2. Own(Updated(t, file[Current])) /\ Updated(t, file[Current]).run = r
      BY <1>0, <2>0, <3>1, UpdatedIsOwn
    <3> QED
      BY <1>0, <1>1, <1>2, <2>0, <2>1, <3>2, QuietFrame
  <2> QED
    BY <1>0, <1>1, <1>3, <1>5, <2>1, QuietFrame DEF ReadFallback
<1>6. CASE ReadCurrent(t)
  <2>1. CASE task[t].op = "downstream" /\ Goto(t, "truncCurrent")
    <3>1. /\ OthersWait(t) /\ task'[t].pc = "truncCurrent" /\ task'[t].op = "downstream"
          /\ task'[t].run = task[t].run /\ task'[t].rec = task[t].rec
      BY <1>0, <2>1, TaskSteps, Alphabets
    <3>2. Carries(t)
      BY <1>0, <1>6, <2>1 DEF ReadCurrent, OperationInv
    <3>3. OperationInv(t)'
      BY <1>1, <3>1, <3>2 DEF OperationInv, Carries, Own
    <3> QED
      BY <1>0, <1>1, <3>1, <3>3, QuietFrame
  <2>2. CASE task[t].op = "remove" /\ Goto(t, "unlinkCurrent")
    <3>1. /\ OthersWait(t) /\ task'[t].pc = "unlinkCurrent" /\ task'[t].op = "remove"
          /\ task'[t].run = task[t].run
      BY <1>0, <2>2, TaskSteps, Alphabets
    <3>2. OperationInv(t)'
      BY <1>0, <1>6, <2>2, <3>1 DEF ReadCurrent, OperationInv
    <3> QED
      BY <1>0, <1>1, <3>1, <3>2, QuietFrame
  <2>3. CASE /\ task[t].op = "list" /\ file[Current] \in Record
             /\ Carry(t, "truncRun", file[Current])
    <3>1. Own(file[Current]) /\ file[Current].run \in Runs /\ Current \in Paths
      BY <1>0, <2>3, ContentsDiffer DEF FilesInv, Record
    <3> QED
      BY <1>0, <1>1, <1>2, <2>3, <3>1, QuietFrame
  <2> QED
    BY <1>0, <1>1, <1>3, <1>6, <2>1, <2>2, <2>3, QuietFrame DEF ReadCurrent
<1> QED
  BY <1>4, <1>5, <1>6

\* The steps that write: each touches one path.
LEMMA WriteKeepsRecords ==
  ASSUME RecordsInv, NEW t \in Tasks,
         TruncateRun(t) \/ TruncateCurrent(t) \/ FillRun(t) \/ FillCurrent(t)
  PROVE  RecordsInv'
<1>0. TypeOK /\ OperationInv(t) /\ Carries(t) /\ task[t].rec \in Record
  BY DEF RecordsInv, OperationInv, TruncateRun, TruncateCurrent, FillRun, FillCurrent, Carries, Own
<1>1. task[t].run \in Paths /\ Current \in Paths /\ task[t].run \in Runs
  BY <1>0, ContentsDiffer DEF Carries
<1>a. issued' = issued /\ overlapped' = overlapped /\ crashes' = crashes
  BY DEF TruncateRun, TruncateCurrent, FillRun, FillCurrent, Truncate, Fill
<1>2. issued' = issued /\ overlapped' = overlapped /\ crashes' = crashes /\ Grown
  BY <1>0, <1>a, BoundsAssumption DEF Grown, TypeOK
<1>3. CASE TruncateRun(t) \/ TruncateCurrent(t)
  <2>1. PICK p \in {task[t].run, Current}, pc \in {"fillRun", "fillCurrent"} :
          Truncate(t, p, pc) /\ (pc = "fillRun" <=> TruncateRun(t))
    BY <1>3 DEF TruncateRun, TruncateCurrent
  <2>2. /\ OthersWait(t) /\ task'[t].pc = pc /\ task'[t].op = task[t].op
        /\ task'[t].run = task[t].run /\ task'[t].rec = task[t].rec
    BY <1>0, <2>1, TaskSteps, Alphabets DEF Truncate
  <2>3. /\ file' \in [Paths -> Contents] /\ open' \in [Paths -> SUBSET Tasks] /\ Touched(t)
    BY <1>0, <1>1, <2>1, FileTypes, Alphabets DEF Touched
  <2>4. TypeOK'
    BY <1>0, <1>2, <2>1, <2>2, <2>3, TypeParts DEF Truncate, OthersWait
  <2>5. OperationInv(t)'
    BY <1>0, <1>2, <1>3, <2>1, <2>2 DEF OperationInv, Carries, Own, TruncateRun, TruncateCurrent
  <2> QED
    BY <1>2, <2>2, <2>3, <2>4, <2>5, RecordsFrame
<1>4. CASE FillRun(t) \/ FillCurrent(t)
  <2>1. PICK p \in {task[t].run, Current} : Fill(t, p)
    BY <1>4 DEF FillRun, FillCurrent
  <2>2. file' \in [Paths -> Contents] /\ open' \in [Paths -> SUBSET Tasks] /\ Touched(t)
    BY <1>0, <1>1, <2>1, FileTypes DEF Touched
  <2>3. life' \in [Runs -> {"new", "creating", "recorded", "removed"}]
    BY <1>0, <1>1, <1>4 DEF FillRun, FillCurrent, TypeOK
  <2>4. OthersWait(t) /\ OperationInv(t)'
    <3>1. CASE Return(t)
      BY <1>0, <3>1, TaskSteps, ReturnKeepsOperation
    <3>2. CASE FillRun(t) /\ ~Return(t)
      <4>1. PICK pc \in {"truncCurrent", "readCurrent"} :
              /\ Goto(t, pc)
              /\ pc = "truncCurrent" => task[t].op \in {"create", "status"}
              /\ pc = "readCurrent" => task[t].op = "downstream"
        BY <1>0, <3>2, Types, Alphabets DEF FillRun, OperationInv
      <4>2. /\ OthersWait(t) /\ task'[t].pc = pc /\ task'[t].op = task[t].op
            /\ task'[t].run = task[t].run /\ task'[t].rec = task[t].rec
        BY <1>0, <4>1, TaskSteps, Alphabets
      <4> QED
        BY <1>0, <1>2, <4>1, <4>2 DEF OperationInv, Carries, Own
    <3> QED
      BY <1>4, <3>1, <3>2 DEF FillCurrent
  <2>5. TypeOK'
    BY <1>0, <1>2, <2>2, <2>3, <2>4, TypeParts DEF OthersWait
  <2> QED
    BY <1>2, <2>2, <2>4, <2>5, RecordsFrame
<1> QED
  BY <1>3, <1>4

LEMMA UnlinkKeepsRecords ==
  ASSUME RecordsInv, NEW t \in Tasks, UnlinkRun(t) \/ UnlinkCurrent(t)
  PROVE  RecordsInv'
<1>0. TypeOK /\ OperationInv(t) /\ task[t].run \in Runs /\ task[t].op = "remove"
  BY DEF RecordsInv, OperationInv, UnlinkRun, UnlinkCurrent
<1>1. PICK p \in {task[t].run, Current} : Unlink(t, p)
  BY DEF UnlinkRun, UnlinkCurrent
<1>2. p \in Paths
  BY <1>0, ContentsDiffer
<1>3. file' \in [Paths -> Contents] /\ open' \in [Paths -> SUBSET Tasks] /\ Touched(t)
  BY <1>0, <1>1, <1>2, FileTypes DEF Touched
<1>4. issued' = issued /\ overlapped' = overlapped /\ crashes' = crashes /\ life' = life /\ Grown
  BY <1>0, <1>1, BoundsAssumption DEF Unlink, Grown, TypeOK
<1>5. OthersWait(t) /\ OperationInv(t)'
  <2>1. CASE UnlinkRun(t)
    BY <1>0, <2>1, TaskSteps, Alphabets DEF UnlinkRun, OperationInv
  <2>2. CASE UnlinkCurrent(t)
    BY <1>0, <2>2, TaskSteps, ReturnKeepsOperation DEF UnlinkCurrent
  <2> QED
    BY <2>1, <2>2
<1>6. TypeOK'
  BY <1>0, <1>3, <1>4, <1>5, TypeParts DEF OthersWait
<1> QED
  BY <1>3, <1>4, <1>5, <1>6, RecordsFrame

LEMMA CrashKeepsRecords ==
  ASSUME RecordsInv, Crash
  PROVE  RecordsInv'
<1>1. TypeOK'
  BY IdleTyped, TypeParts, BoundsAssumption DEF RecordsInv, Crash
<1>2. FilesInv'
  BY DEF RecordsInv, Crash, FilesInv, Own
<1>3. \A t \in Tasks : OperationInv(t)'
  BY ReturnKeepsOperation DEF Crash
<1> QED
  BY <1>1, <1>2, <1>3 DEF RecordsInv

LEMMA RecordsStep == RecordsInv /\ [Next]_vars => RecordsInv'
<1> SUFFICES ASSUME RecordsInv, [Next]_vars
             PROVE  RecordsInv'
  OBVIOUS
<1>1. CASE UNCHANGED vars
  BY <1>1 DEF vars, RecordsInv, TypeOK, FilesInv, OperationInv, Carries, Own, Brings
<1>2. CASE Next
  BY <1>2, CallKeepsRecords, ListKeepsRecords, ReadKeepsRecords, WriteKeepsRecords,
     UnlinkKeepsRecords, CrashKeepsRecords DEF Next, FileStep
<1> QED
  BY <1>1, <1>2

LEMMA RecordsInit == Init => RecordsInv
<1> SUFFICES ASSUME Init
             PROVE  RecordsInv
  OBVIOUS
<1>1. TypeOK
  BY IdleTyped, TypeParts, BoundsAssumption DEF Init, Contents
<1>2. FilesInv
  BY ContentsDiffer DEF Init, FilesInv
<1>3. \A t \in Tasks : OperationInv(t)
  BY IdleTyped DEF Init, OperationInv
<1> QED
  BY <1>1, <1>2, <1>3 DEF RecordsInv

\* The files hold records, tasks and contents of their types in every state, and
\* what an operation carries is the record of its run.
THEOREM RecordsInvariance == Spec => []RecordsInv
<1> QED
  BY RecordsInit, RecordsStep, PTL DEF Spec

\* With polls and crashes, for every number of runs and goroutines: an operation
\* writes into no record but that of its run, and a record shows no update that
\* its run did not get (the sameRunID check of readRunRecord).
THEOREM UpdatesStayHome == Spec => []NoForeignUpdates
<1>1. RecordsInv => NoForeignUpdates
  <2> SUFFICES ASSUME RecordsInv, NEW r \in Runs, NEW p \in Paths, Names(p, r)
               PROVE  /\ p \in {r, Current}
                      /\ file[p].status <= issued[r].status /\ file[p].down <= issued[r].down
    BY DEF NoForeignUpdates
  <2>1. file[p] \in Record /\ file[p].run = r
    BY ContentsDiffer, TypeParts DEF RecordsInv, Names
  <2> QED
    BY <2>1 DEF RecordsInv, FilesInv, Own
<1> QED
  BY <1>1, RecordsInvariance, PTL

-----------------------------------------------------------------------------
(* Without polls and crashes a run at rest has its last record, unless its *)
(* own operations overlapped.                                              *)

\* A step of t for run r that touches the file of the run, and lets
\* current-run.json name no other run, disturbs no other run.
LEMMA SettledFrame ==
  ASSUME RecordsInv, SettledInv, NEW t \in Tasks, NEW r \in Runs, OthersWait(t),
         task[t].run \in {r, NoRun}, task'[t].run \in {r, NoRun},
         overlapped \subseteq overlapped', overlapped' \subseteq overlapped \cup {r},
         r \notin overlapped' => Alone(t, r),
         \A p \in Runs \ {r} : file'[p] = file[p] /\ open'[p] = open[p],
         file'[Current] = file[Current] \/ file'[Current].run \in {r, NoRun},
         \A q \in Runs \ {r} : issued'[q] = issued[q] /\ life'[q] = life[q],
         RestInv(r)', BusyInv(t)'
  PROVE  SettledInv'
<1>0. NoRun \notin Runs
  BY ContentsDiffer
<1>1. ASSUME NEW q \in Runs \ {r}
      PROVE  RestInv(q)'
  <2>1. AtRest(q)' => AtRest(q)
    BY <1>0 DEF AtRest, OthersWait
  <2>2. Names(Current, q)' => file'[Current] = file[Current] /\ Names(Current, q)
    BY <1>0 DEF Names
  <2>3. RestInv(q) /\ (q \in overlapped' <=> q \in overlapped)
    BY DEF SettledInv
  <2> QED
    BY <2>1, <2>2, <2>3 DEF RestInv, Names, Latest
<1>2. ASSUME NEW u \in Tasks \ {t}
      PROVE  BusyInv(u)'
  <2>0. /\ task'[u] = task[u] /\ BusyInv(u) /\ OperationInv(u)
        /\ task[u].run = r => r \in overlapped'
    BY DEF OthersWait, Alone, SettledInv, RecordsInv
  <2>1. CASE task[u].run \notin Runs \ overlapped'
    BY <2>0, <2>1 DEF BusyInv
  <2>2. CASE task[u].run \in Runs \ overlapped'
    <3>0. PICK q \in Runs \ {r} : q = task[u].run /\ q \notin overlapped /\ q \notin overlapped'
      BY <2>0, <2>2
    <3>1. /\ file'[q] = file[q] /\ open'[q] = open[q] /\ issued'[q] = issued[q]
          /\ life'[q] = life[q] /\ (~Names(Current, q) => ~Names(Current, q)')
          /\ (Names(q, q) => Names(q, q)')
      BY <1>0, <3>0 DEF Names
    <3>2. Alone(u, q) => Alone(u, q)'
      BY <1>0, <2>0, <3>0 DEF OthersWait, Alone
    <3>3. Gone(q) => Gone(q)'
      BY <3>1 DEF Gone
    <3>4. task'[u].run = q /\ task'[u].op = task[u].op /\ task'[u].rec = task[u].rec
          /\ task'[u].pc = task[u].pc
      BY <2>0, <3>0
    <3>5. ReadInv(u) => ReadInv(u)'
      BY <3>0, <3>1, <3>3, <3>4 DEF ReadInv, Names
    <3>6. RemoveInv(u) => RemoveInv(u)'
      BY <3>0, <3>1, <3>4 DEF RemoveInv
    <3>7. Latest(q)' = Latest(q)
      BY <3>1 DEF Latest
    <3>8. WriteInv(u) => WriteInv(u)'
      BY <3>0, <3>1, <3>4, <3>7 DEF WriteInv
    <3>9. BusyInv(u) => BusyInv(u)'
      BY <3>0, <3>2, <3>3, <3>4, <3>5, <3>6, <3>8 DEF BusyInv
    <3> QED
      BY <2>0, <3>9
  <2> QED
    BY <2>1, <2>2
<1> QED
  BY <1>1, <1>2 DEF SettledInv

\* The run of an operation that is under way, alone if none overlapped it.
LEMMA WorkingAlone ==
  ASSUME RecordsInv, SettledInv, NEW t \in Tasks, task[t].pc # "idle"
  PROVE  /\ task[t].run \in Runs /\ task[t].op # "list"
         /\ task[t].run \notin overlapped => Alone(t, task[t].run)
         /\ task[t].run # Current /\ task[t].run # NoRun
BY ContentsDiffer DEF SettledInv, BusyInv

\* An operation that returns leaves its run at rest, and in order.
LEMMA ReturnSettles ==
  ASSUME NEW t \in Tasks, OthersWait(t), task'[t] = IdleTask
  PROVE  BusyInv(t)' /\ task'[t].run = NoRun
BY IdleTyped, ContentsDiffer DEF BusyInv

LEMMA CallKeepsSettled ==
  ASSUME RecordsInv, SettledInv, NEW t \in Tasks, NEW r \in Runs,
         \/ CreateCurrentRunRecord(t, r) \/ UpdateRunRecordStatus(t, r)
         \/ UpdateRunDownstreamStatus(t, r) \/ RemoveRunRecord(t, r)
  PROVE  SettledInv'
<1>0. /\ task[t].pc = "idle" /\ file' = file /\ open' = open
      /\ overlapped' = overlapped \cup {q \in Runs \cap {r} : ~AtRest(q)}
      /\ \A q \in Runs \ {r} : issued'[q] = issued[q] /\ life'[q] = life[q]
  <2>1. CASE CreateCurrentRunRecord(t, r) \/ RemoveRunRecord(t, r)
    BY <2>1 DEF CreateCurrentRunRecord, RemoveRunRecord, Call, RecordsInv, TypeOK
  <2>2. CASE UpdateRunRecordStatus(t, r)
    BY <2>2 DEF UpdateRunRecordStatus, Call, RecordsInv, TypeOK
  <2>3. CASE UpdateRunDownstreamStatus(t, r)
    BY <2>3 DEF UpdateRunDownstreamStatus, Call, RecordsInv, TypeOK
  <2> QED
    BY <2>1, <2>2, <2>3
<1>1. RestInv(r) /\ TypeOK /\ NoRun \notin Runs /\ task[t].run = NoRun
      /\ Blank \in Draft /\ Absent.run # r
  BY <1>0, ContentsDiffer, IdleTyped, Drafts DEF SettledInv, RecordsInv, OperationInv
<1>a. r \notin overlapped' => r \notin overlapped /\ AtRest(r) /\ Alone(t, r)
  BY <1>0 DEF AtRest, Alone
<1>2. ASSUME OthersWait(t), task'[t].run = r, BusyInv(t)'
      PROVE  SettledInv'
  <2>1. RestInv(r)'
    BY <1>2 DEF RestInv, AtRest
  <2> QED
    BY <1>0, <1>1, <1>2, <1>a, <2>1, SettledFrame
<1>3. ASSUME OthersWait(t), task'[t].run = r, task'[t].op # "list", r \in overlapped'
      PROVE  SettledInv'
  BY <1>2, <1>3 DEF BusyInv
<1>b. ASSUME OthersWait(t), r \notin overlapped'
      PROVE  Alone(t, r)'
  BY <1>a, <1>b DEF OthersWait, Alone
<1>4. CASE CreateCurrentRunRecord(t, r)
  <2> DEFINE new == [run |-> r, status |-> 0, down |-> 0]
  <2>1. Call(t, "create", r, "truncRun", new) /\ new \in Record
    BY <1>4, BoundsAssumption DEF CreateCurrentRunRecord, Record
  <2>2. r \notin overlapped' =>
          new = Latest(r)' /\ life'[r] = "creating" /\ ~Names(Current, r)'
    <3>1. life[r] = "new" /\ issued' = issued /\ life' = [life EXCEPT ![r] = "creating"]
      BY <1>4 DEF CreateCurrentRunRecord
    <3> QED
      BY <1>0, <1>1, <1>a, <3>1 DEF RestInv, Latest, Names, TypeOK
  <2> HIDE DEF new
  <2>3. /\ OthersWait(t) /\ task'[t].pc = "truncRun" /\ task'[t].op = "create"
        /\ task'[t].run = r /\ task'[t].rec = new
    BY <1>1, <2>1, TaskSteps, Alphabets, Drafts
  <2>4. r \notin overlapped' => WriteInv(t)'
    BY <2>2, <2>3 DEF WriteInv, Latest
  <2>5. r \notin overlapped' => BusyInv(t)'
    BY <1>b, <2>3, <2>4 DEF BusyInv
  <2> QED
    BY <1>2, <1>3, <2>3, <2>5
<1>5. CASE UpdateRunRecordStatus(t, r) \/ UpdateRunDownstreamStatus(t, r)
  <2>0. /\ issued[r].status \in 0..MaxUpdates /\ issued[r].down \in 0..MaxUpdates
        /\ issued \in [Runs -> [status : 0..MaxUpdates, down : 0..MaxUpdates]]
        /\ issued[r] \in [status : 0..MaxUpdates, down : 0..MaxUpdates]
    BY <1>1, Types DEF TypeOK
  <2>1. PICK op \in {"status", "downstream"}, rec \in Draft :
          /\ Call(t, op, r, "read", rec)
          /\ op = "status" => rec.status = issued'[r].status /\ issued'[r].down = issued[r].down
          /\ op = "downstream" => rec.down = issued'[r].down /\ issued'[r].status = issued[r].status
    <3>1. CASE UpdateRunRecordStatus(t, r)
      <4> DEFINE n == issued[r].status + 1
                 d == [Blank EXCEPT !.status = n]
      <4>1. /\ n \in 0..MaxUpdates /\ Call(t, "status", r, "read", d)
            /\ issued' = [issued EXCEPT ![r].status = n]
        BY <2>0, <3>1, BoundsAssumption DEF UpdateRunRecordStatus
      <4>2. issued'[r].status = n /\ issued'[r].down = issued[r].down
        BY <2>0, <4>1
      <4> HIDE DEF n
      <4>3. d \in Draft /\ d.status = n
        BY <4>1, Drafts
      <4> HIDE DEF d
      <4> QED
        BY <4>1, <4>2, <4>3
    <3>2. CASE UpdateRunDownstreamStatus(t, r)
      <4> DEFINE n == issued[r].down + 1
                 d == [Blank EXCEPT !.down = n]
      <4>1. /\ n \in 0..MaxUpdates /\ Call(t, "downstream", r, "read", d)
            /\ issued' = [issued EXCEPT ![r].down = n]
        BY <2>0, <3>2, BoundsAssumption DEF UpdateRunDownstreamStatus
      <4>2. issued'[r].down = n /\ issued'[r].status = issued[r].status
        BY <2>0, <4>1
      <4> HIDE DEF n
      <4>3. d \in Draft /\ d.down = n
        BY <4>1, Drafts
      <4> HIDE DEF d
      <4> QED
        BY <4>1, <4>2, <4>3
    <3> QED
      BY <1>5, <3>1, <3>2
  <2>2. /\ OthersWait(t) /\ task'[t].pc = "read" /\ task'[t].op = op /\ task'[t].run = r
        /\ task'[t].rec = rec
    BY <1>1, <2>1, TaskSteps, Alphabets
  <2>3. life' = life /\ life[r] \in {"recorded", "removed"}
    BY <1>5 DEF UpdateRunRecordStatus, UpdateRunDownstreamStatus
  <2>4. r \notin overlapped' => ReadInv(t)'
    <3>1. ASSUME r \notin overlapped'
          PROVE  \/ Gone(r)'
                 \/ life[r] = "recorded" /\ file[r] = Latest(r)
      BY <1>0, <1>1, <1>a, <2>3, <3>1 DEF RestInv, Gone, Names
    <3> QED
      BY <1>0, <2>1, <2>2, <2>3, <3>1 DEF ReadInv, Names, Latest, Gone
  <2>5. r \notin overlapped' => BusyInv(t)'
    BY <1>b, <2>2, <2>4 DEF BusyInv
  <2> QED
    BY <1>2, <1>3, <2>2, <2>5
<1>6. CASE RemoveRunRecord(t, r)
  <2>1. /\ OthersWait(t) /\ task'[t].pc = "unlinkRun" /\ task'[t].op = "remove"
        /\ task'[t].run = r
    BY <1>1, <1>6, TaskSteps, Alphabets DEF RemoveRunRecord
  <2>2. RemoveInv(t)'
    BY <1>1, <1>6, <2>1 DEF RemoveInv, RemoveRunRecord, TypeOK
  <2>3. r \notin overlapped' => BusyInv(t)'
    BY <1>b, <2>1, <2>2 DEF BusyInv
  <2> QED
    BY <1>2, <1>3, <2>1, <2>3
<1> QED
  BY <1>4, <1>5, <1>6

LEMMA IsLatest ==
  ASSUME NEW r \in Runs, NEW rec \in Record, rec.run = r,
         rec.status = issued[r].status, rec.down = issued[r].down
  PROVE  rec = Latest(r)
BY DEF Record, Latest

\* A file step of t for its run: what is left is to look at that run.
LEMMA StepFrame ==
  ASSUME RecordsInv, SettledInv, NEW t \in Tasks, task[t].pc # "idle", OthersWait(t),
         NEW r \in Runs, r = task[t].run, r \notin overlapped, overlapped' = overlapped,
         \/ task'[t] = IdleTask /\ RestInv(r)'
         \/ task'[t].run = r /\ task'[t].op = task[t].op
            /\ (task'[t].pc = "fallback" => Gone(r)')
            /\ (task'[t].op # "remove" /\ task'[t].pc # "fallback" => WriteInv(t)')
            /\ (task'[t].op = "remove" => RemoveInv(t)')
            /\ task'[t].pc \notin {"idle", "read"},
         \A p \in Runs \ {r} : file'[p] = file[p] /\ open'[p] = open[p],
         file'[Current] = file[Current] \/ file'[Current].run \in {r, NoRun},
         \A q \in Runs \ {r} : issued'[q] = issued[q] /\ life'[q] = life[q]
  PROVE  SettledInv'
<1>1. task[t].op # "list" /\ Alone(t, r)
  BY WorkingAlone
<1>2. CASE task'[t] = IdleTask /\ RestInv(r)'
  <2>1. BusyInv(t)' /\ task'[t].run = NoRun
    BY <1>2, ReturnSettles
  <2> QED
    BY <1>1, <1>2, <2>1, SettledFrame
<1>3. CASE /\ task'[t].run = r /\ task'[t].op = task[t].op
           /\ (task'[t].pc = "fallback" => Gone(r)')
           /\ (task'[t].op # "remove" /\ task'[t].pc # "fallback" => WriteInv(t)')
           /\ (task'[t].op = "remove" => RemoveInv(t)')
           /\ task'[t].pc \notin {"idle", "read"}
  <2>1. Alone(t, r)'
    BY <1>1 DEF Alone, OthersWait
  <2>2. Gone(r)' => Gone(task[t].run)'
    BY <1>3 DEF Gone, Names
  <2>3. BusyInv(t)'
    BY <1>1, <1>3, <2>1, <2>2 DEF BusyInv
  <2>4. RestInv(r)'
    BY <1>3 DEF RestInv, AtRest
  <2> QED
    BY <1>1, <1>3, <2>3, <2>4, SettledFrame
<1> QED
  BY <1>2, <1>3

LEMMA ReadKeepsSettled ==
  ASSUME RecordsInv, SettledInv, NEW t \in Tasks, ReadRun(t) \/ ReadFallback(t) \/ ReadCurrent(t),
         task[t].run \notin overlapped
  PROVE  SettledInv'
<1>0. TypeOK /\ OperationInv(t) /\ FilesInv /\ BusyInv(t) /\ task[t].pc # "idle"
  BY DEF RecordsInv, SettledInv, ReadRun, ReadFallback, ReadCurrent
<1>1. UNCHANGED <<file, open, life, issued, overlapped, crashes>>
  BY DEF ReadRun, ReadFallback, ReadCurrent
<1>2. PICK r \in Runs : r = task[t].run /\ r \notin overlapped
  BY <1>0, WorkingAlone
<1>3. r # Current /\ r # NoRun /\ r \in Paths /\ Current \in Paths /\ task[t].op # "list"
      /\ Absent.run # r /\ Torn.run # r /\ Absent # Torn
  BY <1>0, <1>2, WorkingAlone, ContentsDiffer
<1>4. Return(t) => OthersWait(t) /\ task'[t] = IdleTask
  BY <1>0, TaskSteps
<1>5. Gone(r) => RestInv(r)'
  BY <1>1, <1>2 DEF Gone, RestInv, Names
<1>6. CASE ReadRun(t)
  <2>0. ReadInv(t) /\ task[t].op \in {"status", "downstream"}
    BY <1>0, <1>2, <1>6 DEF ReadRun, BusyInv, OperationInv
  <2>1. CASE file[r] = Absent /\ Goto(t, "fallback")
    <3>1. Gone(r)'
      BY <1>1, <1>2, <1>3, <2>0, <2>1 DEF ReadInv, Names, Gone
    <3>2. /\ OthersWait(t) /\ task'[t].pc = "fallback" /\ task'[t].op = task[t].op
          /\ task'[t].run = task[t].run
      BY <1>0, <2>1, TaskSteps, Alphabets
    <3> QED
      BY <1>0, <1>1, <1>2, <2>0, <3>1, <3>2, StepFrame
  <2>2. CASE file[r] = Torn /\ Return(t)
    BY <1>2, <1>3, <2>0, <2>2 DEF ReadInv, Names, Gone
  <2>3. CASE Names(r, r) /\ Carry(t, "truncRun", Updated(t, file[r]))
    <3> DEFINE rec == Updated(t, file[r])
    <3>1. /\ life[r] = "recorded"
          /\ task[t].op = "status" =>
               task[t].rec.status = issued[r].status /\ file[r].down = issued[r].down
          /\ task[t].op = "downstream" =>
               task[t].rec.down = issued[r].down /\ file[r].status = issued[r].status
      BY <1>2, <1>3, <2>0, <2>3 DEF ReadInv, Names, Gone
    <3>2. Own(file[r]) /\ file[r].run = r
      BY <1>0, <1>3, <2>3, ContentsDiffer, Types DEF Names, FilesInv
    <3>a. Brings(t)
      BY <1>0, <1>6 DEF OperationInv, ReadRun
    <3>3. /\ rec \in Record /\ rec.run = r
          /\ rec.status = issued[r].status /\ rec.down = issued[r].down
      BY <1>0, <1>2, <2>0, <3>1, <3>2, <3>a, UpdatedIsOwn DEF Own
    <3>4. rec = Latest(r)
      BY <3>3, IsLatest
    <3>5. /\ OthersWait(t) /\ task'[t].pc = "truncRun" /\ task'[t].op = task[t].op
          /\ task'[t].run = r /\ task'[t].rec = rec
      BY <1>0, <2>3, <3>3, TaskSteps, Alphabets
    <3> HIDE DEF rec
    <3>6. WriteInv(t)'
      BY <1>1, <2>0, <3>1, <3>4, <3>5 DEF WriteInv, Latest
    <3> QED
      BY <1>0, <1>1, <1>2, <2>0, <3>5, <3>6, StepFrame
  <2> QED
    BY <1>2, <1>6, <2>1, <2>2, <2>3 DEF ReadRun
<1>7. CASE ReadFallback(t)
  <2>1. Gone(r)
    BY <1>0, <1>2, <1>7 DEF ReadFallback, BusyInv
  <2>2. Return(t)
    BY <1>2, <1>7, <2>1 DEF ReadFallback, Gone
  <2> QED
    BY <1>0, <1>1, <1>2, <1>4, <1>5, <2>1, <2>2, StepFrame
<1>8. CASE ReadCurrent(t)
  <2>0. /\ task[t].op \in {"downstream", "remove"}
        /\ task[t].op = "downstream" => WriteInv(t)
        /\ task[t].op = "remove" => RemoveInv(t)
    BY <1>0, <1>2, <1>3, <1>8 DEF ReadCurrent, BusyInv, OperationInv
  <2>1. CASE task[t].op = "downstream" /\ Goto(t, "truncCurrent")
    <3>1. /\ OthersWait(t) /\ task'[t].pc = "truncCurrent" /\ task'[t].op = task[t].op
          /\ task'[t].run = r /\ task'[t].rec = task[t].rec
      BY <1>0, <1>2, <2>1, TaskSteps, Alphabets
    <3>2. WriteInv(t)'
      BY <1>1, <1>2, <1>8, <2>0, <2>1, <3>1 DEF WriteInv, Latest, ReadCurrent
    <3> QED
      BY <1>0, <1>1, <1>2, <2>1, <3>1, <3>2, StepFrame
  <2>2. CASE task[t].op = "remove" /\ Goto(t, "unlinkCurrent")
    <3>1. /\ OthersWait(t) /\ task'[t].pc = "unlinkCurrent" /\ task'[t].op = task[t].op
          /\ task'[t].run = r
      BY <1>0, <1>2, <2>2, TaskSteps, Alphabets
    <3>2. RemoveInv(t)'
      BY <1>1, <1>2, <1>8, <2>0, <2>2, <3>1 DEF RemoveInv, ReadCurrent
    <3> QED
      BY <1>0, <1>1, <1>2, <2>2, <3>1, <3>2, StepFrame
  <2>3. CASE ~Names(Current, r) /\ Return(t)
    <3>1. RestInv(r)'
      <4>1. CASE task[t].op = "downstream"
        BY <1>1, <1>2, <1>8, <2>0, <2>3, <4>1 DEF WriteInv, Latest, ReadCurrent, RestInv, Names
      <4>2. CASE task[t].op = "remove"
        BY <1>1, <1>2, <1>8, <2>0, <2>3, <4>2 DEF RemoveInv, ReadCurrent, RestInv, Names
      <4> QED
        BY <2>0, <4>1, <4>2
    <3> QED
      BY <1>0, <1>1, <1>2, <1>4, <2>3, <3>1, StepFrame
  <2> QED
    BY <1>2, <1>8, <2>0, <2>1, <2>2, <2>3 DEF ReadCurrent
<1> QED
  BY <1>6, <1>7, <1>8

LEMMA TruncateKeepsSettled ==
  ASSUME RecordsInv, SettledInv, NEW t \in Tasks, TruncateRun(t) \/ TruncateCurrent(t),
         task[t].run \notin overlapped
  PROVE  SettledInv'
<1>a. PICK r \in Runs : r = task[t].run /\ r \notin overlapped
  BY WorkingAlone DEF TruncateRun, TruncateCurrent
<1>0. TypeOK /\ OperationInv(t) /\ BusyInv(t) /\ task[t].pc # "idle" /\ task[t].op # "remove"
      /\ WriteInv(t)
  BY <1>a DEF RecordsInv, SettledInv, TruncateRun, TruncateCurrent, OperationInv, BusyInv
<1>1. r = task[t].run
  BY <1>a
<1>2. r # Current /\ r \in Paths /\ Current \in Paths /\ Torn.run = NoRun /\ r # NoRun
      /\ Runs \subseteq Paths /\ Current \notin Runs
  BY <1>0, <1>1, WorkingAlone, ContentsDiffer DEF Torn
<1>3. PICK p \in {r, Current}, pc \in {"fillRun", "fillCurrent"} :
        /\ Truncate(t, p, pc) /\ (pc = "fillRun" <=> p = r)
        /\ pc = "fillCurrent" => task[t].pc = "truncCurrent"
  BY <1>1, <1>2 DEF TruncateRun, TruncateCurrent
<1>4. /\ OthersWait(t) /\ task'[t].pc = pc /\ task'[t].op = task[t].op
      /\ task'[t].run = r /\ task'[t].rec = task[t].rec
  BY <1>0, <1>1, <1>3, TaskSteps, Alphabets DEF Truncate
<1>5. /\ file'[p] = Torn /\ open'[p] = open[p] \cup {t}
      /\ \A q \in Paths \ {p} : file'[q] = file[q] /\ open'[q] = open[q]
  BY <1>0, <1>2, <1>3, FileTypes, Alphabets
<1>6. issued' = issued /\ life' = life /\ overlapped' = overlapped
  BY <1>3 DEF Truncate
<1>7. WriteInv(t)'
  <2>1. CASE p = r
    BY <1>0, <1>1, <1>2, <1>3, <1>4, <1>5, <1>6, <2>1 DEF WriteInv, Latest, Names
  <2>2. CASE p = Current
    BY <1>0, <1>1, <1>2, <1>3, <1>4, <1>5, <1>6, <2>2 DEF WriteInv, Latest, Names
  <2> QED
    BY <1>3, <2>1, <2>2
<1>8. \/ file'[Current] = file[Current] \/ file'[Current].run = NoRun
  BY <1>2, <1>3, <1>5
<1>9. \A q \in Runs \ {r} : file'[q] = file[q] /\ open'[q] = open[q]
  BY <1>2, <1>3, <1>5
<1> QED
  BY <1>0, <1>1, <1>3, <1>4, <1>6, <1>7, <1>8, <1>9, <1>a, StepFrame

LEMMA FillKeepsSettled ==
  ASSUME RecordsInv, SettledInv, NEW t \in Tasks, FillRun(t) \/ FillCurrent(t),
         task[t].run \notin overlapped
  PROVE  SettledInv'
<1>a. PICK r \in Runs : r = task[t].run /\ r \notin overlapped
  BY WorkingAlone DEF FillRun, FillCurrent
<1>0. TypeOK /\ OperationInv(t) /\ BusyInv(t) /\ task[t].pc # "idle" /\ task[t].op # "remove"
      /\ WriteInv(t) /\ task[t].rec \in Record
  BY <1>a DEF RecordsInv, SettledInv, FillRun, FillCurrent, OperationInv, BusyInv, Carries, Own
<1>1. r = task[t].run
  BY <1>a
<1>2. r # Current /\ r \in Paths /\ Current \in Paths /\ Torn.run = NoRun /\ r # NoRun
      /\ Runs \subseteq Paths /\ Current \notin Runs
  BY <1>0, <1>1, WorkingAlone, ContentsDiffer DEF Torn
<1>3. task[t].rec = Latest(r) /\ Latest(r).run = r /\ task[t].op # "list"
  BY <1>0, <1>1, WorkingAlone DEF WriteInv, Latest
<1>4. CASE FillRun(t)
  <2>1. Fill(t, r) /\ life' = life /\ issued' = issued /\ overlapped' = overlapped
    BY <1>1, <1>4 DEF FillRun, Fill
  <2>2. file'[r] = Latest(r) /\ \A q \in Paths \ {r} : file'[q] = file[q] /\ open'[q] = open[q]
    BY <1>0, <1>1, <1>2, <1>3, <1>4, <2>1, FileTypes DEF WriteInv, FillRun
  <2>3. PICK pc \in {"truncCurrent", "readCurrent"} : Goto(t, pc)
    BY <1>0, <1>3, <1>4, Types, Alphabets DEF FillRun
  <2>4. /\ OthersWait(t) /\ task'[t].pc = pc /\ task'[t].op = task[t].op
        /\ task'[t].run = r /\ task'[t].rec = task[t].rec
    BY <1>0, <1>1, <2>3, TaskSteps, Alphabets
  <2>5. WriteInv(t)'
    BY <1>0, <1>1, <1>2, <1>3, <2>1, <2>2, <2>4 DEF WriteInv, Latest, Names
  <2> QED
    BY <1>0, <1>1, <1>2, <2>1, <2>2, <2>4, <2>5, <1>a, StepFrame
<1>5. CASE FillCurrent(t)
  <2>1. Fill(t, Current) /\ issued' = issued /\ overlapped' = overlapped /\ Return(t)
    BY <1>5 DEF FillCurrent, Fill
  <2>2. /\ file'[Current] \in {Latest(r), Torn, file[Current]}
        /\ \A q \in Paths \ {Current} : file'[q] = file[q] /\ open'[q] = open[q]
    BY <1>0, <1>2, <1>3, <2>1, FileTypes
  <2>3. OthersWait(t) /\ task'[t] = IdleTask
    BY <1>0, <2>1, TaskSteps
  <2>4. life'[r] = "recorded" /\ \A q \in Runs \ {r} : life'[q] = life[q]
    BY <1>0, <1>1, <1>5 DEF FillCurrent, WriteInv, TypeOK
  <2>5. RestInv(r)'
    <3>1. file[r] = Latest(r) /\ ~Names(Current, r)
      BY <1>0, <1>1, <1>5 DEF WriteInv, FillCurrent
    <3>2. file'[r] = Latest(r) /\ Latest(r)' = Latest(r)
      BY <1>2, <2>1, <2>2, <3>1 DEF Latest
    <3>3. Names(Current, r)' => file'[Current] = Latest(r)
      BY <1>2, <2>2, <3>1 DEF Names
    <3> QED
      BY <2>4, <3>2, <3>3 DEF RestInv
  <2>6. file'[Current] = file[Current] \/ file'[Current].run \in {r, NoRun}
    BY <1>2, <1>3, <2>2
  <2> QED
    BY <1>0, <1>1, <1>2, <2>1, <2>2, <2>3, <2>4, <2>5, <2>6, <1>a, StepFrame
<1> QED
  BY <1>4, <1>5

LEMMA UnlinkKeepsSettled ==
  ASSUME RecordsInv, SettledInv, NEW t \in Tasks, UnlinkRun(t) \/ UnlinkCurrent(t),
         task[t].run \notin overlapped
  PROVE  SettledInv'
<1>a. PICK r \in Runs : r = task[t].run /\ r \notin overlapped
  BY WorkingAlone DEF UnlinkRun, UnlinkCurrent
<1>0. TypeOK /\ OperationInv(t) /\ BusyInv(t) /\ task[t].pc # "idle" /\ task[t].op = "remove"
      /\ RemoveInv(t)
  BY <1>a DEF RecordsInv, SettledInv, UnlinkRun, UnlinkCurrent, OperationInv, BusyInv
<1>1. r = task[t].run
  BY <1>a
<1>2. r # Current /\ r \in Paths /\ Current \in Paths /\ Absent.run = NoRun /\ r # NoRun
      /\ Runs \subseteq Paths /\ Current \notin Runs
  BY <1>0, <1>1, WorkingAlone, ContentsDiffer DEF Absent
<1>3. CASE UnlinkRun(t)
  <2>1. Unlink(t, r) /\ Goto(t, "readCurrent") /\ issued' = issued /\ life' = life
        /\ overlapped' = overlapped
    BY <1>1, <1>3 DEF UnlinkRun, Unlink
  <2>2. file'[r] = Absent /\ \A q \in Paths \ {r} : file'[q] = file[q] /\ open'[q] = open[q]
    BY <1>0, <1>2, <2>1, FileTypes
  <2>3. /\ OthersWait(t) /\ task'[t].pc = "readCurrent" /\ task'[t].op = task[t].op
        /\ task'[t].run = r
    BY <1>0, <1>1, <2>1, TaskSteps, Alphabets
  <2>4. RemoveInv(t)'
    BY <1>0, <1>1, <2>1, <2>2, <2>3 DEF RemoveInv
  <2> QED
    BY <1>0, <1>1, <1>2, <2>1, <2>2, <2>3, <2>4, <1>a, StepFrame
<1>4. CASE UnlinkCurrent(t)
  <2>1. Unlink(t, Current) /\ Return(t) /\ issued' = issued /\ life' = life
        /\ overlapped' = overlapped
    BY <1>4 DEF UnlinkCurrent, Unlink
  <2>2. /\ file'[Current] = Absent
        /\ \A q \in Paths \ {Current} : file'[q] = file[q] /\ open'[q] = open[q]
    BY <1>0, <1>2, <2>1, FileTypes
  <2>3. OthersWait(t) /\ task'[t] = IdleTask
    BY <1>0, <2>1, TaskSteps
  <2>4. RestInv(r)'
    BY <1>0, <1>1, <1>2, <1>4, <2>1, <2>2 DEF RemoveInv, RestInv, Names, UnlinkCurrent
  <2> QED
    BY <1>0, <1>1, <1>2, <2>1, <2>2, <2>3, <2>4, <1>a, StepFrame
<1> QED
  BY <1>3, <1>4

\* A file step of a run whose operations overlapped disturbs no other run.
LEMMA OverlappedStep ==
  ASSUME RecordsInv, SettledInv, NEW t \in Tasks, FileStep(t), task[t].run \in overlapped
  PROVE  SettledInv'
<1>0. task[t].pc # "idle" /\ TypeOK /\ OperationInv(t)
  BY DEF FileStep, ReadRun, ReadFallback, TruncateRun, FillRun, ReadCurrent, TruncateCurrent,
         FillCurrent, UnlinkRun, UnlinkCurrent, RecordsInv
<1>1. PICK r \in Runs : r = task[t].run /\ r \in overlapped
  BY <1>0, WorkingAlone
<1>2. task[t].op # "list" /\ r \in Paths /\ Current \in Paths /\ Current \notin Runs
      /\ Runs \subseteq Paths /\ r # NoRun /\ Torn.run = NoRun /\ Absent.run = NoRun
  BY <1>0, <1>1, WorkingAlone, ContentsDiffer DEF Torn, Absent
<1>3. /\ issued' = issued /\ overlapped' = overlapped
      /\ \A q \in Runs \ {r} : life'[q] = life[q]
  BY <1>0, <1>1 DEF FileStep, ReadRun, ReadFallback, TruncateRun, FillRun, ReadCurrent,
                    TruncateCurrent, FillCurrent, UnlinkRun, UnlinkCurrent, Truncate, Fill,
                    Unlink, TypeOK
<1>4. /\ \A p \in Runs \ {r} : file'[p] = file[p] /\ open'[p] = open[p]
      /\ file'[Current] = file[Current] \/ file'[Current].run \in {r, NoRun}
  <2>1. CASE ReadRun(t) \/ ReadFallback(t) \/ ReadCurrent(t)
    BY <2>1 DEF ReadRun, ReadFallback, ReadCurrent
  <2>2. CASE TruncateRun(t) \/ TruncateCurrent(t)
    <3>1. PICK p \in {r, Current}, pc \in {"fillRun", "fillCurrent"} : Truncate(t, p, pc)
      BY <1>1, <2>2 DEF TruncateRun, TruncateCurrent
    <3> QED
      BY <1>0, <1>2, <3>1, FileTypes, Alphabets
  <2>3. CASE FillRun(t) \/ FillCurrent(t)
    <3>1. PICK p \in {r, Current} : Fill(t, p)
      BY <1>1, <2>3 DEF FillRun, FillCurrent
    <3>2. task[t].rec \in Record /\ task[t].rec.run = r
      BY <1>0, <1>1, <2>3 DEF FillRun, FillCurrent, OperationInv, Carries, Own
    <3> QED
      BY <1>0, <1>2, <3>1, <3>2, FileTypes
  <2>4. CASE UnlinkRun(t) \/ UnlinkCurrent(t)
    <3>1. PICK p \in {r, Current} : Unlink(t, p)
      BY <1>1, <2>4 DEF UnlinkRun, UnlinkCurrent
    <3> QED
      BY <1>0, <1>2, <3>1, FileTypes
  <2> QED
    BY <2>1, <2>2, <2>3, <2>4 DEF FileStep
<1>5. /\ OthersWait(t)
      /\ \/ task'[t] = IdleTask
         \/ task'[t].run = r /\ task'[t].op = task[t].op
  <2>0. Return(t) => OthersWait(t) /\ task'[t] = IdleTask
    BY <1>0, TaskSteps
  <2>1. CASE Return(t)
    BY <2>0, <2>1
  <2>2. ASSUME NEW pc \in Pcs, Goto(t, pc)
        PROVE  OthersWait(t) /\ task'[t].run = r /\ task'[t].op = task[t].op
    BY <1>0, <1>1, <2>2, TaskSteps
  <2>3. CASE FillRun(t)
    <3>1. Goto(t, "truncCurrent") \/ Goto(t, "readCurrent") \/ Return(t)
      BY <1>0, <2>3, Types, Alphabets DEF FillRun, OperationInv
    <3> QED
      BY <2>1, <2>2, <3>1, Alphabets
  <2>4. CASE ReadRun(t) \/ ReadFallback(t)
    <3>1. Brings(t)
      BY <1>0, <2>4 DEF ReadRun, ReadFallback, OperationInv
    <3>2. ASSUME NEW p \in {r, Current}, Names(p, r), Carry(t, "truncRun", Updated(t, file[p]))
          PROVE  OthersWait(t) /\ task'[t].run = r /\ task'[t].op = task[t].op
      <4>1. Own(file[p]) /\ file[p].run = task[t].run
        BY <1>0, <1>1, <1>2, <3>2, ContentsDiffer, Types DEF Names, FilesInv, RecordsInv
      <4>2. Updated(t, file[p]) \in Record /\ Updated(t, file[p]).run = r
        BY <1>0, <1>1, <3>1, <4>1, UpdatedIsOwn DEF Own
      <4> QED
        BY <1>0, <3>2, <4>2, TaskSteps, Alphabets
    <3> QED
      BY <1>1, <2>1, <2>2, <2>4, <3>2, Alphabets DEF ReadRun, ReadFallback
  <2> QED
    BY <1>2, <2>1, <2>2, <2>3, <2>4, Alphabets
       DEF FileStep, ReadCurrent, TruncateRun, TruncateCurrent, Truncate, FillCurrent, UnlinkRun,
           UnlinkCurrent
<1>6. RestInv(r)' /\ BusyInv(t)' /\ task'[t].run \in {r, NoRun}
  BY <1>1, <1>2, <1>3, <1>5, IdleTyped, ContentsDiffer DEF RestInv, BusyInv
<1> QED
  BY <1>1, <1>3, <1>4, <1>5, <1>6, SettledFrame

LEMMA SettledStep ==
  ASSUME ~Polls, RecordsInv, crashes = 0 => SettledInv, [Next]_vars
  PROVE  crashes' = 0 => SettledInv'
<1>0. SUFFICES ASSUME crashes' = 0
               PROVE  SettledInv'
  OBVIOUS
<1>1. CASE UNCHANGED vars
  BY <1>0, <1>1 DEF vars, SettledInv, RestInv, BusyInv, Alone, AtRest, Names, Latest, Gone, ReadInv,
                    WriteInv, RemoveInv
<1>2. CASE Crash
  BY <1>0, <1>2 DEF Crash, RecordsInv, TypeOK
<1>3. CASE \E t \in Tasks, r \in Runs :
             \/ CreateCurrentRunRecord(t, r) \/ UpdateRunRecordStatus(t, r)
             \/ UpdateRunDownstreamStatus(t, r) \/ RemoveRunRecord(t, r)
  <2>1. crashes' = crashes
    BY <1>3 DEF CreateCurrentRunRecord, UpdateRunRecordStatus, UpdateRunDownstreamStatus,
                RemoveRunRecord
  <2> QED
    BY <1>0, <1>3, <2>1, CallKeepsSettled
<1>4. CASE \E t \in Tasks : FileStep(t)
  <2>1. crashes' = crashes
    BY <1>4 DEF FileStep, ReadRun, ReadFallback, TruncateRun, FillRun, ReadCurrent, TruncateCurrent,
                FillCurrent, UnlinkRun, UnlinkCurrent, Truncate, Fill, Unlink
  <2> QED
    BY <1>0, <1>4, <2>1, OverlappedStep, ReadKeepsSettled, TruncateKeepsSettled,
       FillKeepsSettled, UnlinkKeepsSettled DEF FileStep
<1> QED
  BY <1>1, <1>2, <1>3, <1>4 DEF Next, ListRunRecords

\* Without polls and up to the first crash, for every number of runs, goroutines
\* and updates: a run at rest of which no two operations were under way at a time
\* has in its file what they left, and so has current-run.json when it names the
\* run (updateRunDownstreamStatus and removeRunRecord look at the current record
\* after the file of the run), even when operations of other runs overlapped.
THEOREM RecordsSettle ==
  ASSUME ~Polls
  PROVE  Spec => [](crashes = 0 => Settled)
<1>1. Init => (crashes = 0 => SettledInv)
  <2> SUFFICES ASSUME Init
               PROVE  SettledInv
    OBVIOUS
  <2>1. \A r \in Runs : RestInv(r)
    BY ContentsDiffer DEF Init, RestInv, Names, Paths
  <2>2. \A t \in Tasks : BusyInv(t)
    BY ContentsDiffer, IdleTyped DEF Init, BusyInv
  <2> QED
    BY <2>1, <2>2 DEF SettledInv
<1>2. RecordsInv /\ (crashes = 0 => SettledInv) /\ [Next]_vars => (crashes = 0 => SettledInv)'
  BY SettledStep
<1>3. RecordsInv /\ SettledInv => Settled
  BY ContentsDiffer DEF SettledInv, RestInv, Settled, Latest
<1>4. RecordsInv /\ (crashes = 0 => SettledInv) => (crashes = 0 => Settled)
  BY <1>3
<1> QED
  BY <1>1, <1>2, <1>4, RecordsInvariance, PTL DEF Spec
=============================================================================
