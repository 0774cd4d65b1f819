--------------------------- MODULE Signoff_proofs ---------------------------
(***************************************************************************)
(* The sign-off planner and its lanes, proved for every number of builds,  *)
(* every list of lanes and every limit: which build a plan names, which    *)
(* build a lane runs, and what is dispatched.  Then planning by hand, for  *)
(* every list of targets and every ledger: which lanes are left out, and   *)
(* what pruning forgets.                                                   *)
(***************************************************************************)
EXTENDS Signoff, SignoffLedger, SequenceTheorems, FiniteSetTheorems, WellFoundedInduction, TLAPS

-----------------------------------------------------------------------------
(* Types.  A label may name the newest build, or the build of a commit.    *)

BuildTag == Builds \union {0, NewestBuild, Commit}
LabelType ==
  [build : BuildTag, tag : BuildTag, patch : BOOLEAN, repository : BOOLEAN, prime : BOOLEAN,
   revision : BuildTag, created : BuildTag, digest : BuildTag \union {-b : b \in BuildTag}]
PlannerType ==
  [pc : {"idle", "server", "agent", "list", "inspect", "snapshot", "dispatch"}, at : Nat, tag : BuildTag,
   server : LabelType, first : {<<>>} \union (LabelType \X LabelType),
   listed : SUBSET (Builds \X PairRoles), complete : SUBSET Builds, found : SUBSET Builds,
   queue : SUBSET (DOMAIN Lanes), branch : Branches, rerun : BOOLEAN, unseen : SUBSET Nat]
RunType ==
  [version : {Requested}, lane : Range(Lanes), branch : Branches, resolved : BuildTag, planned : BuildTag,
   rerun : BOOLEAN, unseen : SUBSET Nat,
   status : {"queued", "running", "success", "failure", "cancelled"}, server : BuildTag, agent : BuildTag]
SignoffType ==
  /\ \E c \in Cases : request = c.request
  /\ published \subseteq Builds \X PairRoles
  /\ alias \in [Registries -> [PairRoles -> Builds \union {0}]]
  /\ planner \in PlannerType /\ planner.at \in DOMAIN RegistryOrder /\ plan.build \in BuildTag /\ runs \in Seq(RunType)

\* The target and what is wrong with it stay as they are.
LEMMA TargetStays ==
  ASSUME [SignoffNext]_signoffVars
  PROVE  UNCHANGED <<request, flaw, docker>>
BY DEF SignoffNext, PlanningNext, signoffVars, BeginPlan, ReadServer, ReadAgent, ListTags, InspectTag, ChooseTag,
   PlanFails, Snapshot, Dispatch, EndDispatch, Publish, MoveAlias, StartByHand, RunLane, LanePlans, LaneEnds,
   Step, Give, FoundPair, NextRegistry, SetRun

\* What depends on the target alone.
LEMMA TargetFrame ==
  ASSUME UNCHANGED <<request, flaw, docker>>
  PROVE  /\ Home' = Home /\ Requested' = Requested /\ RegistryOrder' = RegistryOrder /\ Mutable' = Mutable
         /\ RunType' = RunType /\ BuildTag' = BuildTag /\ PlannerType' = PlannerType /\ LabelType' = LabelType
         /\ \A b, o : Image(b, o)' = Image(b, o)
         /\ \A b : Sound(b)' = Sound(b)
         /\ \A s : CanonicalFits(s)' = CanonicalFits(s)
<1>1. Home' = Home /\ Requested' = Requested /\ RegistryOrder' = RegistryOrder /\ PatchQualified' = PatchQualified
  BY DEF Home, Requested, RegistryOrder, PatchQualified
<1>2. \A b, o : Image(b, o)' = Image(b, o)
  BY <1>1 DEF Image
<1>3. BuildTag' = BuildTag
  BY DEF BuildTag, NewestBuild, Commit
<1>4. LabelType' = LabelType
  BY <1>3 DEF LabelType
<1> QED
  BY <1>1, <1>2, <1>3, <1>4 DEF Mutable, RunType, PlannerType, Sound, CanonicalFits

\* Labels.
LEMMA ImageType ==
  ASSUME NEW b \in BuildTag, NEW o
  PROVE  /\ Image(b, o) \in LabelType
         /\ Image(b, o).build = b
         /\ NoImage \in LabelType /\ NoImage.build = 0
<1>1. \A c \in BuildTag : \A r : Image(c, r) \in LabelType /\ Image(c, r).build = c
  BY DEF Image, LabelType, BuildTag, Commit
<1>2. NewestBuild \in BuildTag /\ 0 \in BuildTag
  BY DEF BuildTag
<1>3. NoImage \in LabelType /\ NoImage.build = 0
  BY <1>1, <1>2 DEF NoImage, LabelType
<1> QED
  BY <1>1, <1>3

\* What a registry answers: the image of the build that is named, if any, and
\* every label but the digest is that of the build.
LEMMA InspectTells ==
  ASSUME SignoffType, NEW registry \in Registries, NEW tag \in BuildTag, NEW o \in PairRoles
  PROVE  LET image == Inspect(registry, tag, o)
         IN /\ image \in LabelType
            /\ tag # Alias =>
                 \/ image.build = 0 /\ ~(<<tag, o>> \in published /\ Home[tag] = registry)
                 \/ /\ <<tag, o>> \in published /\ Home[tag] = registry
                    /\ image = [Image(tag, o) EXCEPT !.digest = image.digest]
<1>1. CASE tag = Alias
  <2>1. alias[registry][o] \in BuildTag
    BY DEF SignoffType, BuildTag
  <2> QED
    BY <1>1, <2>1, ImageType DEF Inspect
<1>2. CASE tag # Alias
  <2>1. CASE Home[tag] # registry \/ <<tag, o>> \notin published
    BY <1>2, <2>1, ImageType DEF Inspect
  <2>2. CASE Home[tag] = registry /\ <<tag, o>> \in published
    <3>1. PICK d \in {tag, -tag} : Inspect(registry, tag, o) = [Image(tag, o) EXCEPT !.digest = d]
      BY <1>2, <2>2 DEF Inspect
    <3>2. Image(tag, o) \in LabelType
      BY ImageType
    <3>3. d \in BuildTag \union {-b : b \in BuildTag}
      OBVIOUS
    <3> QED
      BY <1>2, <2>2, <3>1, <3>2, <3>3 DEF LabelType
  <2> QED
    BY <2>1, <2>2
<1> QED
  BY <1>1, <1>2

LEMMA AnswerTells ==
  ASSUME SignoffType, NEW registry \in Registries, NEW tag \in BuildTag, NEW o \in PairRoles
  PROVE  /\ Inspect(registry, tag, o) \in LabelType
         /\ tag # Alias => \/ Inspect(registry, tag, o).build = 0
                           \/ Inspect(registry, tag, o) = [Image(tag, o) EXCEPT !.digest = Inspect(registry, tag, o).digest]
<1>1. Inspect(registry, tag, o) \in LabelType
  BY InspectTells, Zenon
<1>2. CASE tag # Alias
  <2>1. \/ Inspect(registry, tag, o).build = 0
        \/ Inspect(registry, tag, o) = [Image(tag, o) EXCEPT !.digest = Inspect(registry, tag, o).digest]
    <3>1. CASE Home[tag] = registry /\ <<tag, o>> \in published
      <4>1. PICK d : Inspect(registry, tag, o) = [Image(tag, o) EXCEPT !.digest = d]
        BY <1>2, <3>1 DEF Inspect
      <4>2. Image(tag, o) \in LabelType
        BY ImageType
      <4> QED
        BY <4>1, <4>2 DEF LabelType
    <3>2. CASE ~(Home[tag] = registry /\ <<tag, o>> \in published)
      <4>1. Inspect(registry, tag, o) = NoImage
        BY <1>2, <3>2, Zenon DEF Inspect
      <4>2. NoImage.build = 0
        BY DEF NoImage, Image
      <4> QED
        BY <4>1, <4>2
    <3> QED
      BY <3>1, <3>2, Zenon
  <2> QED
    BY <1>1, <2>1
<1> QED
  BY <1>1, <1>2

\* A planner that is idle, and its types.
LEMMA IdleType ==
  /\ AnyBranch \in Branches /\ Idle \in PlannerType /\ Idle.pc = "idle" /\ Idle.listed = {} /\ Idle.complete = {} /\ Idle.found = {} /\ Idle.queue = {}
  /\ Requested \in BuildTag /\ Alias \in BuildTag
<1>1. Alias \in BuildTag /\ Requested \in BuildTag
  BY DEF BuildTag, Alias, Requested
<1>2. NoImage \in LabelType
  BY <1>1, ImageType
<1>3. AnyBranch \in Branches
  BY SignoffAssumption DEF AnyBranch
<1> QED
  BY <1>1, <1>2, <1>3 DEF Idle, PlannerType

\* What users give a planner.
LEMMA GivenTyped ==
  ASSUME SignoffType, NEW given \in Inputs[request]
  PROVE  given \in [branch : Branches, rerun : BOOLEAN, limit : 0..MaxParallel, ignored : Nat]
BY SignoffAssumption DEF SignoffType

\* Runs that are added or changed are runs.
LEMMA AddedType ==
  ASSUME runs \in Seq(RunType), NEW run \in RunType, Added(run)
  PROVE  /\ runs' \in Seq(RunType) /\ Len(runs') = Len(runs) + 1 /\ Len(runs) \in Nat
         /\ runs'[Len(runs) + 1] = run
         /\ \A i \in 1..Len(runs) :
              runs'[i] = runs[i] \/ (runs[i].status = "queued" /\ runs'[i] = [runs[i] EXCEPT !.status = "cancelled"])
         /\ \A i \in 1..Len(runs) : Title(runs[i]) = Title(run) => runs'[i].status # "queued"
<1> DEFINE After(i) == IF Title(runs[i]) = Title(run) /\ runs[i].status = "queued"
                       THEN [runs[i] EXCEPT !.status = "cancelled"] ELSE runs[i]
           before == [i \in 1..Len(runs) |-> After(i)]
<1>1. DOMAIN runs = 1..Len(runs) /\ Len(runs) \in Nat /\ \A i \in 1..Len(runs) : runs[i] \in RunType
  BY ElementOfSeq, LenProperties
<1>2. runs' = Append(before, run)
  BY <1>1 DEF Added
<1>3. \A i \in 1..Len(runs) : After(i) \in RunType
  BY <1>1 DEF RunType
<1>4. before \in Seq(RunType) /\ Len(before) = Len(runs)
  BY <1>1, <1>3
<1>5. \A i \in 1..Len(runs) : before[i] = After(i)
  OBVIOUS
<1>6. \A i \in 1..Len(runs) :
        /\ \/ After(i) = runs[i]
           \/ runs[i].status = "queued" /\ After(i) = [runs[i] EXCEPT !.status = "cancelled"]
        /\ Title(runs[i]) = Title(run) => After(i).status # "queued"
  BY <1>1 DEF RunType
<1> HIDE DEF before, After
<1>7. runs' \in Seq(RunType) /\ Len(runs') = Len(runs) + 1
  BY <1>2, <1>4, AppendProperties
<1>8. \A i \in 1..(Len(runs) + 1) : runs'[i] = IF i = Len(runs) + 1 THEN run ELSE before[i]
  BY <1>1, <1>2, <1>4
<1> QED
  BY <1>1, <1>5, <1>6, <1>7, <1>8

LEMMA SetRunType ==
  ASSUME runs \in Seq(RunType), NEW i \in DOMAIN runs, NEW run \in RunType, SetRun(i, run)
  PROVE  /\ runs' \in Seq(RunType) /\ Len(runs') = Len(runs) /\ DOMAIN runs = 1..Len(runs) /\ Len(runs) \in Nat
         /\ runs'[i] = run
         /\ \A j \in DOMAIN runs : j # i => runs'[j] = runs[j]
<1>1. DOMAIN runs = 1..Len(runs) /\ Len(runs) \in Nat
  BY LenProperties
<1>2. runs' = [runs EXCEPT ![i] = run]
  BY DEF SetRun
<1> QED
  BY <1>1, <1>2, ExceptSeq

\* A set of builds has a greatest, and a set of lanes a first.
LEMMA LeastExists ==
  ASSUME NEW S \in SUBSET Nat, S # {}
  PROVE  \E m \in S : \A n \in S : m <= n
<1>1. PICK m \in S : \A n \in S : ~(<<n, m>> \in OpToRel(<, Nat))
  BY NatLessThanWellFounded, WFMin, Zenon
<1>2. \A n \in S : ~(n < m)
  BY <1>1 DEF OpToRel
<1> QED
  BY <1>2

LEMMA GreatestExists ==
  ASSUME NEW S \in SUBSET Nat, S # {}, NEW bound \in Nat, \A n \in S : n <= bound
  PROVE  \E m \in S : \A n \in S : m >= n
<1> DEFINE T == {bound - n : n \in S}
<1>1. T \in SUBSET Nat /\ T # {}
  <2>1. \A n \in S : bound - n \in Nat
    OBVIOUS
  <2> QED
    BY <2>1
<1>2. PICK t \in T : \A u \in T : t <= u
  BY <1>1, LeastExists
<1>3. PICK m \in S : t = bound - m
  OBVIOUS
<1>4. \A n \in S : bound - m <= bound - n
  BY <1>2, <1>3
<1> QED
  BY <1>4

LEMMA MaxExists ==
  ASSUME NEW S \in SUBSET Builds, S # {}
  PROVE  Max(S) \in S /\ \A b \in S : Max(S) >= b
<1>1. Cardinality(Builds) \in Nat /\ Builds = 1..Cardinality(Builds)
  BY SignoffAssumption, FS_CardinalityType
<1>2. S \in SUBSET Nat /\ \A n \in S : n <= Cardinality(Builds)
  BY <1>1
<1>3. \E m \in S : \A n \in S : m >= n
  BY <1>1, <1>2, GreatestExists
<1> QED
  BY <1>3, Zenon DEF Max

LEMMA MinExists ==
  ASSUME NEW S \in SUBSET (DOMAIN Lanes), S # {}
  PROVE  Min(S) \in S /\ \A i \in S : Min(S) <= i
<1>1. S \in SUBSET Nat
  BY SignoffAssumption, LenProperties
<1>2. \E m \in S : \A n \in S : m <= n
  BY <1>1, LeastExists
<1> QED
  BY <1>2, Zenon DEF Min

\* The registries in their order.
LEMMA OrderTells ==
  /\ 1 \in DOMAIN RegistryOrder /\ DOMAIN RegistryOrder = 1..Len(RegistryOrder) /\ Len(RegistryOrder) \in Nat
  /\ \A i \in DOMAIN RegistryOrder : RegistryOrder[i] \in Registries
  /\ Idle.at \in DOMAIN RegistryOrder
<1>1. RegistryOrder \in {<<"docker">>, <<"staging", "docker">>, <<"staging">>}
  BY DEF RegistryOrder
<1>2. Idle.at = 1
  BY DEF Idle
<1> QED
  BY <1>1, <1>2 DEF Registries

\* Steps of the planner keep the types, each for itself.
LEMMA RunsNumbered ==
  ASSUME SignoffType
  PROVE  DOMAIN runs = 1..Len(runs) /\ Len(runs) \in Nat /\ DOMAIN runs \subseteq Nat
<1>1. DOMAIN runs = 1..Len(runs) /\ Len(runs) \in Nat
  BY LenProperties DEF SignoffType
<1> QED
  BY <1>1

\* What a planner takes from the list of runs.
Newest == {i \in DOMAIN runs : Len(runs) - i < ListLimit}
Counted(given) == {i \in Newest \ {given.ignored} : runs[i].status \in Active}
Succeeded(given) == {i \in Newest : runs[i].status = "success" /\ runs[i].branch = given.branch}
Wanted(given) ==
  {k \in DOMAIN Lanes :
     /\ <<Requested, Lanes[k]>> \notin Titles(Counted(given))
     /\ given.rerun \/ Mutable \/ <<Requested, Lanes[k]>> \notin Titles(Succeeded(given))}
Unseen(given) == (DOMAIN runs \ Newest) \union {i \in {given.ignored} \intersect DOMAIN runs : runs[i].status \in Active}
Selected(given) ==
  {i \in Wanted(given) : Cardinality({j \in Wanted(given) : j < i}) < given.limit - Cardinality(Counted(given))}

LEMMA SnapshotTells ==
  ASSUME Snapshot
  PROVE  \E given \in Inputs[request] :
           /\ planner.pc = "snapshot" /\ plan' = plan
           /\ Step([Idle EXCEPT !.pc = "dispatch", !.branch = given.branch, !.rerun = given.rerun,
                                !.queue = Selected(given), !.unseen = Unseen(given)])
           /\ Selected(given) \subseteq DOMAIN Lanes /\ Unseen(given) \subseteq DOMAIN runs
<1>1. \A given : Selected(given) \subseteq DOMAIN Lanes /\ Unseen(given) \subseteq DOMAIN runs
  BY DEF Selected, Unseen, Wanted
<1> QED
  BY <1>1 DEF Snapshot, Newest, Counted, Succeeded, Wanted, Unseen, Selected

LEMMA PlannerTypeKept ==
  ASSUME SignoffType, PlanningNext, ~Dispatch
  PROVE  SignoffType'
<1>0. UNCHANGED <<request, flaw, docker>>
  BY TargetStays DEF SignoffNext
<1>1. RunType' = RunType /\ BuildTag' = BuildTag /\ PlannerType' = PlannerType /\ RegistryOrder' = RegistryOrder
  BY <1>0, TargetFrame
<1>2. /\ planner \in PlannerType /\ planner.at \in DOMAIN RegistryOrder /\ plan.build \in BuildTag
      /\ 0 \in BuildTag /\ Requested \in BuildTag /\ Builds \subseteq BuildTag
      /\ Idle \in PlannerType /\ Idle.at \in DOMAIN RegistryOrder
  BY IdleType, OrderTells DEF SignoffType, BuildTag
<1> DEFINE Same == published' = published /\ alias' = alias /\ runs' = runs
<1>3. ASSUME planner' \in PlannerType, planner'.at \in DOMAIN RegistryOrder, plan'.build \in BuildTag, Same
      PROVE  SignoffType'
  BY <1>0, <1>1, <1>3 DEF SignoffType
<1>4. ASSUME Give PROVE SignoffType'
  BY <1>2, <1>3, <1>4 DEF Give
<1>5. ASSUME NEW p, p \in PlannerType, p.at \in DOMAIN RegistryOrder, Step(p), plan'.build \in BuildTag
      PROVE  SignoffType'
  BY <1>3, <1>5 DEF Step
<1>6. ASSUME NEW server \in LabelType, NEW agent \in LabelType, FoundPair(server, agent)
      PROVE  SignoffType'
  <2> DEFINE p == [Idle EXCEPT !.pc = "snapshot", !.complete = planner.complete]
  <2>1. p \in PlannerType /\ p.at \in DOMAIN RegistryOrder
    BY <1>2 DEF PlannerType
  <2>2. plan'.build \in BuildTag /\ Step(p)
    BY <1>6 DEF FoundPair, PlanOf, LabelType
  <2> QED
    BY <1>5, <2>1, <2>2
<1>7. CASE BeginPlan
  <2>1. planner' = [Idle EXCEPT !.pc = IF request = "patch" THEN "list" ELSE "server", !.tag = Requested]
    BY <1>7 DEF BeginPlan
  <2>2. planner' \in PlannerType /\ planner'.at = Idle.at
    BY <2>1, <1>2 DEF PlannerType
  <2> QED
    BY <1>7, <1>2, <1>3, <2>2 DEF BeginPlan, NoPlan
<1>8. ASSUME NextRegistry PROVE SignoffType'
  <2>1. CASE Give
    BY <1>4, <2>1
  <2>2. CASE ~Give
    <3> DEFINE p == [planner EXCEPT !.pc = "server", !.at = @ + 1]
    <3>1. Step(p) /\ plan' = plan /\ planner.at < Len(RegistryOrder)
      BY <1>8, <2>2 DEF NextRegistry
    <3>2. p \in PlannerType /\ p.at = planner.at + 1
      <4>1. planner.at + 1 \in Nat
        BY <1>2, OrderTells
      <4>2. PICK n \in Nat : n = planner.at + 1
        BY <4>1
      <4>3. p = [planner EXCEPT !.pc = "server", !.at = n]
        BY <1>2, <4>2 DEF PlannerType
      <4> HIDE DEF p
      <4> QED
        BY <1>2, <4>2, <4>3 DEF PlannerType
    <3>3. p.at \in DOMAIN RegistryOrder
      BY <1>2, <3>1, <3>2, OrderTells
    <3> HIDE DEF p
    <3> QED
      BY <1>2, <1>5, <3>1, <3>2, <3>3
  <2> QED
    BY <2>1, <2>2
<1> DEFINE Answer(o) == Inspect(RegistryOrder[planner.at], planner.tag, o)
<1>9. \A o \in PairRoles : Answer(o) \in LabelType
  BY <1>2, OrderTells, InspectTells DEF PlannerType
<1>10. CASE ReadServer
  <2>1. CASE NextRegistry
    BY <1>8, <2>1
  <2>2. CASE ~NextRegistry
    <3> DEFINE p == [planner EXCEPT !.pc = "agent", !.server = Answer("server")]
    <3>1. Step(p) /\ plan' = plan
      BY <1>10, <2>2 DEF ReadServer
    <3>2. p \in PlannerType /\ p.at = planner.at
      BY <1>2, <1>9 DEF PlannerType, PairRoles
    <3> HIDE DEF p
    <3> QED
      BY <1>2, <1>5, <3>1, <3>2
  <2> QED
    BY <2>1, <2>2
<1>11. CASE ReadAgent
  <2> DEFINE agent == Answer("agent")
             server == planner.server
             p == [planner EXCEPT !.pc = "server", !.tag = server.tag, !.first = <<server, agent>>]
  <2>1. server \in LabelType /\ agent \in LabelType
    BY <1>2, <1>9 DEF PlannerType, PairRoles
  <2>2. p \in PlannerType /\ p.at = planner.at
    <3>1. server.tag \in BuildTag
      BY <2>1 DEF LabelType
    <3>2. PICK b \in BuildTag, pair \in LabelType \X LabelType : b = server.tag /\ pair = <<server, agent>>
      BY <2>1, <3>1
    <3>3. p = [planner EXCEPT !.pc = "server", !.tag = b, !.first = pair]
      BY <3>2
    <3> HIDE DEF p, agent, server
    <3> QED
      BY <1>2, <3>2, <3>3 DEF PlannerType
  <2>3. NextRegistry \/ Give \/ (Step(p) /\ plan' = plan) \/ FoundPair(server, agent)
    BY <1>11, Zenon DEF ReadAgent
  <2> HIDE DEF p, agent, server
  <2> QED
    BY <1>2, <1>4, <1>5, <1>6, <1>8, <2>1, <2>2, <2>3
<1>12. CASE ListTags
  <2> DEFINE tags == {b \in Builds : Home[b] = "staging" /\ <<b, "server">> \in published}
             p == [planner EXCEPT !.pc = "inspect", !.listed = tags \X {"server"},
                                  !.complete = {b \in tags : <<b, "agent">> \in published}]
  <2>1. Step(p) /\ plan' = plan
    BY <1>12 DEF ListTags
  <2>2. p \in PlannerType /\ p.at = planner.at
    BY <1>2 DEF PlannerType, PairRoles
  <2> HIDE DEF p
  <2> QED
    BY <1>2, <1>5, <2>1, <2>2
<1>13. CASE InspectTag
  <2>1. \E l \in SUBSET (Builds \X PairRoles), f \in SUBSET Builds :
          Step([planner EXCEPT !.listed = l, !.found = f]) /\ plan' = plan
    <3>0. PICK b \in Builds, o \in PairRoles :
            LET image == Inspect("staging", b, o)
                fits == IF o = "server"
                        THEN /\ image.created # 0 /\ image.tag = b /\ CanonicalFits(image)
                             /\ image.prime /\ image.revision = b
                        ELSE image.created # 0 /\ PairValid(b, Inspect("staging", b, "server"), image)
                rest == planner.listed \ {<<b, o>>}
            IN Step([planner EXCEPT
                 !.listed = IF o = "server" /\ image.build # 0 /\ fits THEN rest \union {<<b, "agent">>} ELSE rest,
                 !.found = IF o = "agent" /\ image.build # 0 /\ fits THEN @ \union {b} ELSE @]) /\ plan' = plan
      BY <1>13 DEF InspectTag
    <3>1. PICK l, f :
            /\ Step([planner EXCEPT !.listed = l, !.found = f]) /\ plan' = plan
            /\ l \subseteq planner.listed \union {<<b, "agent">>}
            /\ f \subseteq planner.found \union {b}
      BY <3>0
    <3>2. l \in SUBSET (Builds \X PairRoles) /\ f \in SUBSET Builds
      BY <1>2, <3>1 DEF PlannerType, PairRoles
    <3> QED
      BY <3>1, <3>2
  <2>2. PICK l \in SUBSET (Builds \X PairRoles), f \in SUBSET Builds :
          Step([planner EXCEPT !.listed = l, !.found = f]) /\ plan' = plan
    BY <2>1
  <2> DEFINE p == [planner EXCEPT !.listed = l, !.found = f]
  <2>3. p \in PlannerType /\ p.at = planner.at
    BY <1>2 DEF PlannerType
  <2> HIDE DEF p
  <2> QED
    BY <1>2, <1>5, <2>2, <2>3 DEF p
<1>14. CASE Snapshot
  <2>1. PICK given \in Inputs[request], q \in SUBSET (DOMAIN Lanes), u \in SUBSET (DOMAIN runs) :
          Step([Idle EXCEPT !.pc = "dispatch", !.branch = given.branch, !.rerun = given.rerun,
                            !.queue = q, !.unseen = u]) /\ plan' = plan
    BY <1>14, SnapshotTells
  <2> DEFINE p == [Idle EXCEPT !.pc = "dispatch", !.branch = given.branch, !.rerun = given.rerun,
                               !.queue = q, !.unseen = u]
  <2>2. p \in PlannerType /\ p.at = Idle.at
    <3>1. u \in SUBSET Nat
      BY RunsNumbered
    <3>2. given.branch \in Branches /\ given.rerun \in BOOLEAN
      BY GivenTyped
    <3> QED
      BY <1>2, <3>1, <3>2 DEF PlannerType
  <2> HIDE DEF p
  <2> QED
    BY <1>2, <1>5, <2>1, <2>2 DEF p
<1>15. CASE ChooseTag
  <2>1. Give \/ FoundPair(Image(Max(planner.found), "server"), Image(Max(planner.found), "agent"))
    BY <1>15 DEF ChooseTag
  <2>2. CASE planner.found # {}
    <3>1. PICK b \in planner.found : Max(planner.found) = b
      BY <1>2, <2>2, MaxExists DEF PlannerType
    <3>2. b \in BuildTag
      BY <1>2, <3>1 DEF PlannerType
    <3> QED
      BY <1>4, <1>6, <2>1, <3>1, <3>2, ImageType
  <2>3. CASE planner.found = {}
    BY <1>4, <1>15, <2>3 DEF ChooseTag
  <2> QED
    BY <2>2, <2>3
<1>16. CASE PlanFails \/ EndDispatch
  BY <1>4, <1>16 DEF PlanFails, EndDispatch
<1> QED
  BY <1>7, <1>10, <1>11, <1>12, <1>13, <1>14, <1>15, <1>16 DEF PlanningNext

-----------------------------------------------------------------------------
(* Lanes.                                                                  *)

\* A run that the planner dispatched was handed the plan's build; a run that
\* has a build has the one it was planned for, or was named.
RunsInv ==
  \A i \in DOMAIN runs :
    /\ runs[i].planned # 0 => runs[i].resolved = runs[i].planned
    /\ runs[i].server # 0 =>
         /\ runs[i].server = runs[i].agent
         /\ runs[i].planned # 0 => runs[i].server = runs[i].planned
         /\ runs[i].version # Alias => runs[i].server = runs[i].version

LEMMA RunIsTyped ==
  ASSUME SignoffType
  PROVE  /\ DOMAIN runs = 1..Len(runs) /\ Len(runs) \in Nat
         /\ \A i \in DOMAIN runs : runs[i] \in RunType
         /\ \A l \in Range(Lanes), b \in Branches, a \in BuildTag : NewRun(l, b, a) \in RunType
         /\ 0 \in BuildTag /\ NewestBuild \in BuildTag /\ Builds \subseteq BuildTag
<1>1. runs \in Seq(RunType)
  BY DEF SignoffType
<1>2. DOMAIN runs = 1..Len(runs) /\ Len(runs) \in Nat /\ \A i \in DOMAIN runs : runs[i] \in RunType
  BY <1>1, ElementOfSeq, LenProperties
<1>3. 0 \in BuildTag /\ NewestBuild \in BuildTag /\ Builds \subseteq BuildTag
  BY DEF BuildTag
<1>4. \A l \in Range(Lanes), b \in Branches, a \in BuildTag : NewRun(l, b, a) \in RunType
  BY <1>3 DEF RunType, NewRun
<1> QED
  BY <1>2, <1>3, <1>4

\* The run that a planner dispatches, and one that is started by hand.
FirstLane == Lanes[Min(planner.queue)]
PlannedRun == [NewRun(FirstLane, planner.branch, plan.build) EXCEPT
                 !.planned = plan.build, !.rerun = planner.rerun, !.unseen = planner.unseen]
LEMMA PlannedRunTyped ==
  ASSUME SignoffType, Dispatch
  PROVE  /\ planner.queue \in SUBSET (DOMAIN Lanes) /\ planner.queue # {} /\ Min(planner.queue) \in planner.queue
         /\ planner \in PlannerType /\ planner' = [planner EXCEPT !.queue = @ \ {Min(@)}]
         /\ PlannedRun \in RunType /\ Added(PlannedRun)
         /\ PlannedRun.lane = FirstLane /\ PlannedRun.branch = planner.branch /\ PlannedRun.rerun = planner.rerun
         /\ PlannedRun.unseen = planner.unseen
         /\ PlannedRun.server = 0 /\ PlannedRun.resolved = PlannedRun.planned
<1>1. planner.queue \in SUBSET (DOMAIN Lanes) /\ planner.queue # {} /\ plan.build \in BuildTag /\ planner \in PlannerType
  BY DEF Dispatch, SignoffType, PlannerType
<1>2. Min(planner.queue) \in planner.queue
  BY <1>1, MinExists
<1>3. FirstLane \in Range(Lanes)
  BY <1>1, <1>2 DEF FirstLane, Range
<1>4. planner.branch \in Branches /\ planner.rerun \in BOOLEAN /\ planner.unseen \in SUBSET Nat
  BY <1>1 DEF PlannerType
<1>5. NewRun(FirstLane, planner.branch, plan.build) \in RunType
  BY <1>1, <1>3, <1>4, RunIsTyped
<1>6. PlannedRun \in RunType
  BY <1>1, <1>4, <1>5 DEF PlannedRun, RunType
<1>7. /\ PlannedRun.lane = FirstLane /\ PlannedRun.branch = planner.branch /\ PlannedRun.rerun = planner.rerun
      /\ PlannedRun.unseen = planner.unseen
      /\ PlannedRun.server = 0 /\ PlannedRun.resolved = PlannedRun.planned
  BY DEF PlannedRun, NewRun
<1>8. Added(PlannedRun) /\ planner' = [planner EXCEPT !.queue = @ \ {Min(@)}]
  BY DEF Dispatch, PlannedRun, FirstLane
<1> QED
  BY <1>1, <1>2, <1>6, <1>7, <1>8

LEMMA HandRunTyped ==
  ASSUME SignoffType, StartByHand
  PROVE  \E run \in RunType : Added(run) /\ run.server = 0 /\ run.planned = 0
<1>1. PICK l \in Range(Lanes), given \in Inputs[request], resolved \in {0, NewestBuild} :
        Added(NewRun(l, given.branch, resolved))
  BY DEF StartByHand
<1>2. given.branch \in Branches
  BY GivenTyped
<1>3. NewRun(l, given.branch, resolved) \in RunType
  BY <1>2, RunIsTyped
<1> QED
  BY <1>1, <1>3 DEF NewRun

\* A run that is added has no build yet.
LEMMA AddedKeeps ==
  ASSUME SignoffType, RunsInv, UNCHANGED <<request, flaw, docker>>, UNCHANGED <<published, alias>>,
         planner' \in PlannerType, planner'.at = planner.at, plan' = plan,
         NEW run \in RunType, run.server = 0, run.planned # 0 => run.resolved = run.planned, Added(run)
  PROVE  SignoffType' /\ RunsInv'
<1>1. run \in RunType /\ run.server = 0 /\ (run.planned # 0 => run.resolved = run.planned)
  OBVIOUS
<1>2. runs \in Seq(RunType)
  BY DEF SignoffType
<1>3. Added(run)
  OBVIOUS
<1>4. /\ runs' \in Seq(RunType) /\ Len(runs') = Len(runs) + 1 /\ Len(runs) \in Nat
      /\ runs'[Len(runs) + 1] = run
      /\ \A i \in 1..Len(runs) :
           runs'[i] = runs[i] \/ (runs[i].status = "queued" /\ runs'[i] = [runs[i] EXCEPT !.status = "cancelled"])
  BY <1>1, <1>2, <1>3, AddedType
<1>5. SignoffType'
  BY <1>4, TargetFrame DEF SignoffType
<1>6. DOMAIN runs' = 1..(Len(runs) + 1) /\ DOMAIN runs = 1..Len(runs)
  BY <1>2, <1>4, LenProperties
<1>7. ASSUME NEW i \in 1..Len(runs)
      PROVE  /\ runs'[i].planned = runs[i].planned /\ runs'[i].resolved = runs[i].resolved
             /\ runs'[i].server = runs[i].server /\ runs'[i].agent = runs[i].agent /\ runs'[i].version = runs[i].version
  <2>1. runs[i] \in RunType
    BY <1>6, <1>7, RunIsTyped
  <2>2. CASE runs'[i] = runs[i]
    BY <2>2
  <2>3. CASE runs'[i] = [runs[i] EXCEPT !.status = "cancelled"]
    BY <2>1, <2>3 DEF RunType
  <2> QED
    BY <1>4, <2>2, <2>3
<1>8. RunsInv'
  <2> SUFFICES ASSUME NEW i \in DOMAIN runs'
               PROVE  /\ runs'[i].planned # 0 => runs'[i].resolved = runs'[i].planned
                      /\ runs'[i].server # 0 =>
                           /\ runs'[i].server = runs'[i].agent
                           /\ runs'[i].planned # 0 => runs'[i].server = runs'[i].planned
                           /\ runs'[i].version # Alias => runs'[i].server = runs'[i].version
    BY DEF RunsInv, Alias
  <2>1. CASE i = Len(runs) + 1
    BY <1>1, <1>4, <2>1
  <2>2. CASE i # Len(runs) + 1
    <3>1. i \in 1..Len(runs)
      BY <1>4, <1>6, <2>2
    <3> QED
      BY <1>6, <1>7, <3>1 DEF RunsInv
  <2> QED
    BY <2>1, <2>2
<1> QED
  BY <1>5, <1>8

\* A run that changes.
LEMMA SetRunKeeps ==
  ASSUME SignoffType, RunsInv, NEW i \in DOMAIN runs, NEW run \in RunType, SetRun(i, run),
         run.planned = runs[i].planned, run.resolved = runs[i].resolved, run.version = runs[i].version,
         run.server # 0 =>
           /\ run.server = run.agent
           /\ run.planned # 0 => run.server = run.planned
           /\ run.version # Alias => run.server = run.version
  PROVE  SignoffType' /\ RunsInv'
<1>1. runs \in Seq(RunType)
  BY DEF SignoffType
<1>2. /\ runs' \in Seq(RunType) /\ Len(runs') = Len(runs) /\ DOMAIN runs = 1..Len(runs)
      /\ runs'[i] = run
      /\ \A j \in DOMAIN runs : j # i => runs'[j] = runs[j]
  BY <1>1, SetRunType
<1>3. SignoffType'
  BY <1>2, TargetFrame DEF SignoffType, SetRun
<1>4. DOMAIN runs' = DOMAIN runs
  BY <1>2, LenProperties
<1>5. RunsInv'
  <2> SUFFICES ASSUME NEW j \in DOMAIN runs
               PROVE  /\ runs'[j].planned # 0 => runs'[j].resolved = runs'[j].planned
                      /\ runs'[j].server # 0 =>
                           /\ runs'[j].server = runs'[j].agent
                           /\ runs'[j].planned # 0 => runs'[j].server = runs'[j].planned
                           /\ runs'[j].version # Alias => runs'[j].server = runs'[j].version
    BY <1>4 DEF RunsInv, Alias
  <2>1. CASE j = i
    BY <1>2, <2>1 DEF RunsInv
  <2>2. CASE j # i
    BY <1>2, <2>2 DEF RunsInv
  <2> QED
    BY <2>1, <2>2
<1> QED
  BY <1>3, <1>5

\* A resolution of a build is that build.
LEMMA ResolutionTells ==
  ASSUME NEW tag, NEW b \in Resolution(tag)
  PROVE  b \in Builds /\ (tag # Alias => b = tag)
BY DEF Resolution

LEMMA RunsKept ==
  ASSUME SignoffType, RunsInv, [SignoffNext]_signoffVars
  PROVE  SignoffType' /\ RunsInv'
<1>0. UNCHANGED <<request, flaw, docker>>
  BY TargetStays
<1>1. ASSUME runs' = runs PROVE RunsInv'
  BY <1>1 DEF RunsInv, Alias
<1>2. CASE PlanningNext /\ ~Dispatch
  <2>1. runs' = runs
    BY <1>2 DEF PlanningNext, BeginPlan, ReadServer, ReadAgent, ListTags, InspectTag, ChooseTag,
       PlanFails, Snapshot, EndDispatch, Step, Give, FoundPair, NextRegistry
  <2> QED
    BY <1>1, <1>2, <2>1, PlannerTypeKept
<1>3. CASE Dispatch
  <2>1. planner' \in PlannerType /\ planner'.at = planner.at
    BY <1>3, PlannedRunTyped DEF PlannerType
  <2>2. plan' = plan /\ UNCHANGED <<published, alias>>
    BY <1>3 DEF Dispatch
  <2> QED
    BY <1>0, <1>3, <2>1, <2>2, PlannedRunTyped, AddedKeeps
<1>4. CASE StartByHand
  <2>1. PICK run \in RunType : Added(run) /\ run.server = 0 /\ run.planned = 0
    BY <1>4, HandRunTyped
  <2>2. planner' = planner /\ plan' = plan /\ planner \in PlannerType /\ UNCHANGED <<published, alias>>
    BY <1>4 DEF StartByHand, SignoffType
  <2> QED
    BY <1>0, <2>1, <2>2, AddedKeeps
<1>5. ASSUME NEW i \in DOMAIN runs, NEW status \in {"running", "success", "failure"},
             SetRun(i, [runs[i] EXCEPT !.status = status])
      PROVE  SignoffType' /\ RunsInv'
  <2> DEFINE run == [runs[i] EXCEPT !.status = status]
  <2>1. run \in RunType /\ run.planned = runs[i].planned /\ run.resolved = runs[i].resolved
        /\ run.server = runs[i].server /\ run.agent = runs[i].agent /\ run.version = runs[i].version
    BY RunIsTyped DEF RunType
  <2> HIDE DEF run
  <2>2. SetRun(i, run)
    BY <1>5 DEF run
  <2> QED
    BY <2>1, <2>2, SetRunKeeps DEF RunsInv
<1>6. CASE LanePlans
  <2>1. PICK i \in DOMAIN runs :
          /\ runs[i].status = "running" /\ runs[i].server = 0
          /\ runs[i].resolved # 0 => ResolvedFits(runs[i].resolved)
          /\ \E b \in Resolution(LaneTarget(runs[i])) :
               SetRun(i, [runs[i] EXCEPT !.server = b, !.agent = b])
    BY <1>6 DEF LanePlans
  <2>2. PICK b \in Resolution(LaneTarget(runs[i])) : SetRun(i, [runs[i] EXCEPT !.server = b, !.agent = b])
    BY <2>1
  <2> DEFINE run == [runs[i] EXCEPT !.server = b, !.agent = b]
  <2>3. b \in Builds /\ (LaneTarget(runs[i]) # Alias => b = LaneTarget(runs[i]))
    BY ResolutionTells
  <2>4. run \in RunType /\ run.planned = runs[i].planned /\ run.resolved = runs[i].resolved
        /\ run.server = b /\ run.agent = b /\ run.version = runs[i].version /\ runs[i].version = Requested
    <3>1. b \in BuildTag /\ runs[i] \in RunType
      BY <2>3, RunIsTyped
    <3> QED
      BY <3>1 DEF RunType
  <2>5. run.planned # 0 => b = run.planned
    BY <2>3, <2>4 DEF RunsInv, LaneTarget, Alias
  <2>6. run.version # Alias => b = run.version
    BY <2>1, <2>3, <2>4 DEF LaneTarget, ResolvedFits, Mutable, Alias
  <2>7. SetRun(i, run)
    BY <2>2
  <2> HIDE DEF run
  <2> QED
    BY <2>4, <2>5, <2>6, <2>7, SetRunKeeps
<1>7. CASE Publish \/ MoveAlias
  <2>1. runs' = runs /\ planner' = planner /\ plan' = plan
    BY <1>7 DEF Publish, MoveAlias
  <2>2. published' \subseteq Builds \X PairRoles
    <3>1. CASE Publish
      <4>1. PICK b \in Builds, o \in PairRoles : published' = published \union {<<b, o>>}
        BY <3>1 DEF Publish
      <4> QED
        BY <4>1 DEF SignoffType
    <3>2. CASE MoveAlias
      BY <3>2 DEF MoveAlias, SignoffType
    <3> QED
      BY <1>7, <3>1, <3>2
  <2>3. alias' \in [Registries -> [PairRoles -> Builds \union {0}]]
    <3>1. CASE alias' = alias
      BY <3>1 DEF SignoffType
    <3>2. CASE MoveAlias
      BY <3>2 DEF MoveAlias, SignoffType, Home, Registries
    <3> QED
      BY <1>7, <3>1, <3>2 DEF Publish
  <2> QED
    BY <1>0, <1>1, <2>1, <2>2, <2>3, TargetFrame DEF SignoffType
<1>8. CASE UNCHANGED signoffVars
  BY <1>0, <1>1, <1>8, TargetFrame DEF signoffVars, SignoffType
<1> QED
  BY <1>2, <1>3, <1>4, <1>5, <1>6, <1>7, <1>8 DEF SignoffNext, PlanningNext, RunLane, LaneEnds

LEMMA TypesHoldFirst ==
  ASSUME SignoffInit
  PROVE  SignoffType /\ RunsInv
<1>1. runs \in Seq(RunType) /\ DOMAIN runs = {}
  BY DEF SignoffInit
<1> QED
  BY <1>1, IdleType, OrderTells DEF SignoffInit, SignoffType, RunsInv, NoPlan, BuildTag, Alias

\* A lane that the planner dispatched runs the server and the agent of the
\* build that was planned, and a lane of a target that names a build runs that
\* build, however the alias moves between planning and running and whatever
\* resolution it was started with (the lane's TARGET_RANCHER_VERSION,
\* validate-resolved-rancher-version).
THEOREM LanesHold == SignoffSpec => []LanesRunThePlan
<1>1. SignoffInit => SignoffType /\ RunsInv
  BY TypesHoldFirst
<1>2. SignoffType /\ RunsInv /\ [SignoffNext]_signoffVars => (SignoffType /\ RunsInv)'
  BY RunsKept
<1>3. SignoffType /\ RunsInv => LanesRunThePlan
  BY RunIsTyped DEF RunsInv, LanesRunThePlan, Range
<1> QED
  BY <1>1, <1>2, <1>3, PTL DEF SignoffSpec

-----------------------------------------------------------------------------
(* What is dispatched.                                                     *)

Over == {"failure", "cancelled"}
Mine == {i \in DOMAIN runs : runs[i].planned # 0}
Busy == {i \in Mine : runs[i].status \in Active}
\* The lanes under way that no dispatch left out of account, and of these the
\* lanes that this planner takes into account too.
Heeded == {i \in Busy : \A j \in Mine : i \notin runs[j].unseen}
HeededNow == {i \in Heeded : i \notin planner.unseen}
\* Why a lane does not keep a planner from dispatching another one like it.
Repeatable(i, branch, rerun, unseen) ==
  \/ runs[i].status \in Over
  \/ i \in unseen
  \/ runs[i].status = "success" /\ (rerun \/ runs[i].branch # branch)
\* No lane of an immutable target is dispatched beside one that is not repeatable
\* for its planner, nor is one still to be dispatched; and for these there is room.
RepeatInv ==
  /\ \A i, j \in Mine :
       i < j /\ runs[i].lane = runs[j].lane /\ runs[i].version # Alias
         => Repeatable(i, runs[j].branch, runs[j].rerun, runs[j].unseen)
  /\ planner.pc = "dispatch" =>
       \A k \in planner.queue, i \in Mine :
         runs[i].lane = Lanes[k] /\ runs[i].version # Alias
           => Repeatable(i, planner.branch, planner.rerun, planner.unseen)
  /\ Cardinality(Heeded) <= MaxParallel
  /\ planner.pc = "dispatch" /\ planner.queue # {} =>
       Cardinality(HeededNow) + Cardinality(planner.queue) <= MaxParallel

LEMMA BusyFinite ==
  ASSUME SignoffType
  PROVE  /\ IsFiniteSet(Heeded) /\ Cardinality(Heeded) \in Nat
         /\ IsFiniteSet(HeededNow) /\ Cardinality(HeededNow) \in Nat
         /\ \A given : IsFiniteSet(Counted(given)) /\ Cardinality(Counted(given)) \in Nat
         /\ MaxParallel \in Nat
<1>1. DOMAIN runs = 1..Len(runs) /\ Len(runs) \in Nat
  BY RunIsTyped
<1>2. IsFiniteSet(DOMAIN runs)
  BY <1>1, FS_Interval
<1>3. /\ Heeded \in SUBSET DOMAIN runs /\ HeededNow \in SUBSET DOMAIN runs
      /\ \A given : Counted(given) \in SUBSET DOMAIN runs
  BY DEF Heeded, HeededNow, Busy, Mine, Counted, Newest
<1> QED
  BY <1>2, <1>3, FS_Subset, FS_CardinalityType, SignoffAssumption

\* A run keeps its lane and its plan; what has ended stays as it is.
Keeps(i, run) ==
  /\ run.planned = runs[i].planned /\ run.lane = runs[i].lane /\ run.version = runs[i].version
  /\ run.branch = runs[i].branch /\ run.rerun = runs[i].rerun /\ run.unseen = runs[i].unseen
Proceeds(i) ==
  /\ Keeps(i, runs'[i])
  /\ runs[i].status \notin Active => runs'[i].status = runs[i].status
  /\ runs'[i].status \in Active => runs[i].status \in Active

LEMMA OthersKeep ==
  ASSUME SignoffType, SignoffType', RepeatInv,
         DOMAIN runs \subseteq DOMAIN runs', \A i \in DOMAIN runs : Proceeds(i),
         \A j \in (DOMAIN runs') \ DOMAIN runs : runs'[j].planned = 0,
         planner' = planner \/ planner'.pc # "dispatch"
  PROVE  RepeatInv'
<1>1. Mine' = Mine
  BY DEF Mine, Proceeds, Keeps
<1>2. Busy' \in SUBSET Busy
  BY <1>1 DEF Busy, Mine, Proceeds, Active
<1>3. /\ \A i \in Mine : Keeps(i, runs'[i])
      /\ \A i \in Mine : runs[i].status \notin Active => runs'[i].status = runs[i].status
      /\ \A i \in Mine : runs[i] \in RunType
  BY RunIsTyped DEF Mine, Proceeds
<1>4. Heeded' \in SUBSET Heeded
  BY <1>1, <1>2, <1>3 DEF Heeded, Keeps, Mine, Busy
<1>5. IsFiniteSet(DOMAIN Lanes)
  BY SignoffAssumption, LenProperties, FS_Interval
<1>6. planner.queue \in SUBSET DOMAIN Lanes
  BY DEF SignoffType, PlannerType
<1>7. Cardinality(planner.queue) \in Nat
  BY <1>5, <1>6, FS_Subset, FS_CardinalityType
<1>8. MaxParallel \in Nat
  BY SignoffAssumption
<1>9. ASSUME NEW i \in Mine, NEW branch, NEW rerun, NEW unseen, Repeatable(i, branch, rerun, unseen)
      PROVE  Repeatable(i, branch, rerun, unseen)'
  BY <1>3, <1>9 DEF Repeatable, Keeps, Over, Active
<1>10. ASSUME NEW i \in Mine', NEW j \in Mine', i < j, runs'[i].lane = runs'[j].lane, runs'[i].version # Alias
       PROVE  Repeatable(i, runs[j].branch, runs[j].rerun, runs[j].unseen)'
  BY <1>1, <1>3, <1>9, <1>10 DEF RepeatInv, Keeps
<1>11. ASSUME planner' = planner, planner.pc = "dispatch", NEW k \in planner.queue, NEW i \in Mine',
              runs'[i].lane = Lanes[k], runs'[i].version # Alias
       PROVE  Repeatable(i, planner.branch, planner.rerun, planner.unseen)'
  BY <1>1, <1>3, <1>9, <1>11 DEF RepeatInv, Keeps
<1>12. Cardinality(Heeded') <= MaxParallel
  <2>1. Cardinality(Heeded') <= Cardinality(Heeded) /\ Cardinality(Heeded) \in Nat /\ Cardinality(Heeded') \in Nat
    BY <1>4, BusyFinite, FS_Subset, FS_CardinalityType
  <2> QED
    BY <1>8, <2>1 DEF RepeatInv
<1>13. ASSUME planner' = planner, planner.pc = "dispatch", planner.queue # {}
       PROVE  Cardinality(HeededNow') + Cardinality(planner.queue) <= MaxParallel
  <2>1. HeededNow' \in SUBSET HeededNow
    BY <1>4, <1>13 DEF HeededNow
  <2>2. Cardinality(HeededNow') <= Cardinality(HeededNow) /\ Cardinality(HeededNow) \in Nat /\ Cardinality(HeededNow') \in Nat
    BY <2>1, BusyFinite, FS_Subset, FS_CardinalityType
  <2> QED
    BY <1>7, <1>8, <1>13, <2>2 DEF RepeatInv
<1> QED
  BY <1>10, <1>11, <1>12, <1>13 DEF RepeatInv, Alias

\* As many as there is room for.
LEMMA FirstFew ==
  ASSUME NEW W \in SUBSET (DOMAIN Lanes), NEW room \in Nat
  PROVE  LET S == {i \in W : Cardinality({j \in W : j < i}) < room}
         IN IsFiniteSet(S) /\ Cardinality(S) \in Nat /\ Cardinality(S) <= room
<1> DEFINE S == {i \in W : Cardinality({j \in W : j < i}) < room}
<1>1. DOMAIN Lanes = 1..Len(Lanes) /\ Len(Lanes) \in Nat
  BY SignoffAssumption, LenProperties
<1>2. IsFiniteSet(W) /\ \A i \in W : i \in Nat /\ i <= Len(Lanes)
  <2>1. IsFiniteSet(DOMAIN Lanes)
    BY <1>1, FS_Interval
  <2>2. IsFiniteSet(W)
    BY <2>1, FS_Subset
  <2> QED
    BY <1>1, <2>2
<1>3. IsFiniteSet(S) /\ Cardinality(S) \in Nat
  <2>1. S \in SUBSET W
    OBVIOUS
  <2> HIDE DEF S
  <2> QED
    BY <1>2, <2>1, FS_Subset, FS_CardinalityType
<1>4. S = {} => Cardinality(S) <= room
  <2>1. 0 <= room
    OBVIOUS
  <2> HIDE DEF S
  <2> QED
    BY <2>1, FS_EmptySet, Zenon
<1>5. ASSUME S # {} PROVE Cardinality(S) <= room
  <2>1. S \in SUBSET Nat /\ \A n \in S : n <= Len(Lanes)
    BY <1>2
  <2>2. PICK m \in S : \A n \in S : m >= n
    BY <1>1, <1>5, <2>1, GreatestExists
  <2> DEFINE B == {j \in W : j < m}
  <2>3. IsFiniteSet(B) /\ Cardinality(B) < room /\ Cardinality(B) \in Nat
    <3>1. B \in SUBSET W /\ Cardinality(B) < room
      BY <2>2
    <3> HIDE DEF B
    <3> QED
      BY <1>2, <3>1, FS_Subset, FS_CardinalityType
  <2>4. S \in SUBSET (B \union {m})
    <3>1. \A n \in S : n \in W /\ (n = m \/ n < m)
      <4>1. \A n \in S : n \in W /\ n \in Nat
        BY <1>2
      <4>2. m \in Nat
        BY <4>1
      <4> HIDE DEF S
      <4> QED
        BY <2>2, <4>1, <4>2
    <3> QED
      BY <3>1
  <2>5. IsFiniteSet(B \union {m}) /\ Cardinality(B \union {m}) <= Cardinality(B) + 1 /\ Cardinality(B \union {m}) \in Nat
    BY <2>3, FS_AddElement, FS_CardinalityType
  <2>6. Cardinality(S) <= Cardinality(B \union {m})
    BY <2>4, <2>5, FS_Subset
  <2> HIDE DEF S, B
  <2> QED
    BY <1>3, <2>3, <2>5, <2>6
<1>6. Cardinality(S) <= room
  BY <1>4, <1>5, Zenon
<1> QED
  BY <1>3, <1>6

LEMMA SnapshotKeeps ==
  ASSUME SignoffType, SignoffType', RepeatInv, Snapshot
  PROVE  RepeatInv'
<1>1. PICK given \in Inputs[request] :
        Step([Idle EXCEPT !.pc = "dispatch", !.branch = given.branch, !.rerun = given.rerun,
                          !.queue = Selected(given), !.unseen = Unseen(given)])
  BY SnapshotTells
<1>2. runs' = runs /\ planner'.pc = "dispatch" /\ planner'.branch = given.branch /\ planner'.rerun = given.rerun
      /\ planner'.queue = Selected(given) /\ planner'.unseen = Unseen(given)
  BY <1>1 DEF Step, Idle
<1>3. given.limit \in Nat /\ given.limit <= MaxParallel /\ MaxParallel \in Nat
  BY GivenTyped, BusyFinite
<1>4. Mine' = Mine /\ Busy' = Busy /\ Heeded' = Heeded
  BY <1>2 DEF Mine, Busy, Active, Heeded
<1>5. ASSUME NEW k \in Selected(given), NEW i \in Mine, runs[i].lane = Lanes[k], runs[i].version # Alias
      PROVE  Repeatable(i, given.branch, given.rerun, Unseen(given))
  <2>1. i \in DOMAIN runs /\ runs[i] \in RunType /\ k \in Wanted(given)
    BY RunIsTyped DEF Mine, Selected
  <2>2. runs[i].version = Requested /\ runs[i].status \in {"queued", "running", "success", "failure", "cancelled"}
    BY <2>1 DEF RunType
  <2>3. ~Mutable /\ Title(runs[i]) = <<Requested, Lanes[k]>>
    BY <1>5, <2>2 DEF Mutable, Title
  <2>4. CASE i \in Unseen(given)
    BY <2>4 DEF Repeatable
  <2>5. CASE i \notin Unseen(given)
    <3>1. i \in Newest /\ (i = given.ignored => runs[i].status \notin Active)
      BY <2>1, <2>5 DEF Unseen
    <3>2. i \notin Counted(given) /\ (given.rerun \/ i \notin Succeeded(given))
      BY <2>1, <2>3 DEF Wanted, Titles
    <3>3. runs[i].status \notin Active
      BY <3>1, <3>2 DEF Counted
    <3>4. runs[i].status = "success" => given.rerun \/ runs[i].branch # given.branch
      BY <3>1, <3>2 DEF Succeeded
    <3> QED
      BY <2>2, <3>3, <3>4 DEF Repeatable, Active, Over
  <2> QED
    BY <2>4, <2>5
<1>6. ASSUME Selected(given) # {}
      PROVE  Cardinality(HeededNow') + Cardinality(Selected(given)) <= MaxParallel
  <2>1. HeededNow' \in SUBSET Counted(given)
    <3>1. ASSUME NEW i \in HeededNow' PROVE i \in Counted(given)
      <4>1. i \in DOMAIN runs /\ runs[i].status \in Active /\ i \notin Unseen(given)
        BY <1>2, <1>4, <3>1 DEF HeededNow, Heeded, Busy, Mine
      <4> QED
        BY <4>1 DEF Unseen, Counted
    <3> QED
      BY <3>1
  <2> DEFINE busy == Cardinality(Counted(given))
             room == given.limit - busy
  <2>2. busy \in Nat /\ Cardinality(HeededNow') \in Nat /\ Cardinality(HeededNow') <= busy
    BY <2>1, BusyFinite, FS_Subset, FS_CardinalityType
  <2>3. Wanted(given) \in SUBSET (DOMAIN Lanes)
    BY DEF Wanted
  <2>4. room \in Nat
    <3>1. PICK k \in Wanted(given) : Cardinality({j \in Wanted(given) : j < k}) < room
      BY <1>6 DEF Selected
    <3>2. Cardinality({j \in Wanted(given) : j < k}) \in Nat
      <4>1. IsFiniteSet(DOMAIN Lanes)
        BY SignoffAssumption, LenProperties, FS_Interval
      <4>2. {j \in Wanted(given) : j < k} \in SUBSET DOMAIN Lanes
        BY <2>3
      <4> QED
        BY <4>1, <4>2, FS_Subset, FS_CardinalityType
    <3> QED
      BY <1>3, <2>2, <3>1, <3>2
  <2>5. Selected(given) = {i \in Wanted(given) : Cardinality({j \in Wanted(given) : j < i}) < room}
    BY DEF Selected
  <2> HIDE DEF room
  <2>6. Cardinality(Selected(given)) \in Nat /\ Cardinality(Selected(given)) <= room
    BY <2>3, <2>4, <2>5, FirstFew
  <2> QED
    BY <1>3, <2>2, <2>6 DEF room
<1>7. ASSUME NEW i, NEW branch, NEW rerun, NEW unseen, Repeatable(i, branch, rerun, unseen)
      PROVE  Repeatable(i, branch, rerun, unseen)'
  BY <1>2, <1>7 DEF Repeatable, Over
<1>8. \A i, j \in Mine' :
        i < j /\ runs'[i].lane = runs'[j].lane /\ runs'[i].version # Alias
          => Repeatable(i, runs[j].branch, runs[j].rerun, runs[j].unseen)'
  BY <1>2, <1>4, <1>7 DEF RepeatInv
<1>9. \A k \in planner'.queue, i \in Mine' :
        runs'[i].lane = Lanes[k] /\ runs'[i].version # Alias
          => Repeatable(i, planner.branch, planner.rerun, planner.unseen)'
  BY <1>2, <1>4, <1>5, <1>7
<1> QED
  BY <1>2, <1>4, <1>6, <1>8, <1>9 DEF RepeatInv, Alias

\* What becomes of the runs that were there when one is added.
LEMMA ChangeProceeds ==
  ASSUME SignoffType, NEW i \in DOMAIN runs, NEW run,
         run = runs[i] \/ (runs[i].status = "queued" /\ run = [runs[i] EXCEPT !.status = "cancelled"])
  PROVE  /\ Keeps(i, run) /\ (run.status = runs[i].status \/ run.status = "cancelled")
         /\ (run.status \in Active => runs[i].status \in Active)
         /\ (runs[i].status \notin Active => run.status = runs[i].status)
<1>1. runs[i] \in RunType
  BY RunIsTyped
<1>2. CASE run = runs[i]
  BY <1>2 DEF Keeps
<1>3. CASE runs[i].status = "queued" /\ run = [runs[i] EXCEPT !.status = "cancelled"]
  <2>1. Keeps(i, run) /\ run.status = "cancelled"
    BY <1>1, <1>3 DEF RunType, Keeps
  <2> QED
    BY <1>3, <2>1 DEF Active
<1> QED
  BY <1>2, <1>3

LEMMA DispatchKeeps ==
  ASSUME SignoffType, SignoffType', RepeatInv, Dispatch
  PROVE  RepeatInv'
<1> DEFINE first == Min(planner.queue)
           run == PlannedRun
           new == Len(runs) + 1
<1>1. planner \in PlannerType /\ planner.pc = "dispatch" /\ planner.queue \in SUBSET (DOMAIN Lanes) /\ planner.queue # {}
      /\ planner' = [planner EXCEPT !.queue = @ \ {first}] /\ Added(run) /\ runs \in Seq(RunType)
      /\ first \in planner.queue
  BY PlannedRunTyped DEF Dispatch, SignoffType
<1>2. run \in RunType /\ run.lane = Lanes[first] /\ run.branch = planner.branch /\ run.rerun = planner.rerun
      /\ run.unseen = planner.unseen
  BY PlannedRunTyped DEF FirstLane
<1>3. /\ planner'.pc = "dispatch" /\ planner'.queue = planner.queue \ {first}
      /\ planner'.branch = planner.branch /\ planner'.rerun = planner.rerun /\ planner'.unseen = planner.unseen
  BY <1>1 DEF PlannerType
<1> HIDE DEF first, run
<1>5. /\ Len(runs') = new /\ Len(runs) \in Nat /\ runs' \in Seq(RunType)
      /\ runs'[new] = run
      /\ \A i \in 1..Len(runs) :
           runs'[i] = runs[i] \/ (runs[i].status = "queued" /\ runs'[i] = [runs[i] EXCEPT !.status = "cancelled"])
  BY <1>1, <1>2, AddedType
<1>6. DOMAIN runs = 1..Len(runs) /\ DOMAIN runs' = 1..new
  BY <1>1, <1>5, LenProperties
<1>7. ASSUME NEW i \in DOMAIN runs
      PROVE  Keeps(i, runs'[i]) /\ (runs'[i].status = runs[i].status \/ runs'[i].status = "cancelled")
             /\ (runs'[i].status \in Active => runs[i].status \in Active)
             /\ (runs[i].status \notin Active => runs'[i].status = runs[i].status)
  BY <1>5, <1>6, ChangeProceeds
<1>8. /\ Mine' \subseteq Mine \union {new} /\ Mine \subseteq Mine'
      /\ \A i \in Mine : i \in DOMAIN runs /\ i < new /\ i \in Nat
  <2>1. DOMAIN runs' = DOMAIN runs \union {new} /\ \A i \in DOMAIN runs : i < new /\ i \in Nat
    BY <1>5, <1>6
  <2> HIDE DEF new
  <2> QED
    BY <1>7, <2>1 DEF Mine, Keeps
<1>9. ASSUME NEW i \in Mine, NEW branch, NEW rerun, NEW unseen, Repeatable(i, branch, rerun, unseen)
      PROVE  Repeatable(i, branch, rerun, unseen)'
  BY <1>7, <1>8, <1>9 DEF Repeatable, Keeps, Over, Active
<1>10. ASSUME NEW i \in Mine', NEW j \in Mine', i < j, runs'[i].lane = runs'[j].lane, runs'[i].version # Alias
       PROVE  Repeatable(i, runs[j].branch, runs[j].rerun, runs[j].unseen)'
  <2>1. i \in Mine
    <3>1. new \in Nat /\ (i = new => j \in Mine)
      BY <1>5, <1>8, <1>10
    <3> QED
      BY <1>8, <1>10, <3>1
  <2>2. Keeps(i, runs'[i])
    BY <1>7, <1>8, <2>1
  <2>3. CASE j \in Mine
    <3>1. Keeps(j, runs'[j])
      BY <1>7, <1>8, <2>3
    <3>2. Repeatable(i, runs[j].branch, runs[j].rerun, runs[j].unseen)
      BY <1>10, <2>1, <2>2, <2>3, <3>1 DEF RepeatInv, Keeps
    <3> QED
      BY <1>9, <2>1, <3>1, <3>2 DEF Keeps
  <2>4. CASE j = new
    <3>1. runs[i].lane = Lanes[first] /\ runs[i].version # Alias
      BY <1>2, <1>5, <1>10, <2>2, <2>4 DEF Keeps
    <3>2. Repeatable(i, planner.branch, planner.rerun, planner.unseen)
      BY <1>1, <2>1, <3>1 DEF RepeatInv
    <3>3. runs'[j].branch = planner.branch /\ runs'[j].rerun = planner.rerun /\ runs'[j].unseen = planner.unseen
      BY <1>2, <1>5, <2>4
    <3> QED
      BY <1>9, <2>1, <3>2, <3>3
  <2> QED
    BY <1>8, <1>10, <2>3, <2>4
<1>11. ASSUME NEW k \in planner'.queue, NEW i \in Mine', runs'[i].lane = Lanes[k], runs'[i].version # Alias
       PROVE  Repeatable(i, planner.branch, planner.rerun, planner.unseen)'
  <2>1. k \in planner.queue /\ k # first /\ k \in DOMAIN Lanes /\ first \in DOMAIN Lanes
    BY <1>1, <1>3
  <2>2. i # new
    BY <1>2, <1>5, <1>11, <2>1, SignoffAssumption DEF IsInjective
  <2>3. i \in Mine
    BY <1>8, <1>11, <2>2
  <2>4. Keeps(i, runs'[i])
    BY <1>7, <1>8, <2>3
  <2>5. Repeatable(i, planner.branch, planner.rerun, planner.unseen)
    BY <1>1, <1>11, <2>1, <2>3, <2>4 DEF RepeatInv, Keeps
  <2> QED
    BY <1>3, <1>9, <2>3, <2>5
<1>12. /\ HeededNow' \in SUBSET (HeededNow \union {new})
       /\ Heeded' \in SUBSET (HeededNow \union {new}) \/ Heeded' \in SUBSET Heeded
  <2>1. ASSUME NEW i \in Heeded', i # new
        PROVE  i \in Heeded /\ (new \in Mine' => i \notin planner.unseen)
    <3>1. i \in Mine /\ runs'[i].status \in Active /\ \A j \in Mine' : i \notin runs'[j].unseen
      BY <1>8, <2>1 DEF Heeded, Busy, Active
    <3>2. runs[i].status \in Active /\ \A j \in Mine : i \notin runs[j].unseen
      BY <1>7, <1>8, <3>1 DEF Keeps
    <3> QED
      BY <1>2, <1>5, <3>1, <3>2 DEF Heeded, Busy
  <2>2. HeededNow' \in SUBSET Heeded' /\ \A i \in HeededNow' : i \notin planner.unseen
    BY <1>3 DEF HeededNow
  <2>3. new \notin Mine' => new \notin Heeded'
    BY DEF Heeded, Busy
  <2> HIDE DEF new
  <2> QED
    BY <2>1, <2>2, <2>3 DEF HeededNow
<1>13. /\ Cardinality(Heeded') <= Cardinality(HeededNow) + 1 \/ Cardinality(Heeded') <= Cardinality(Heeded)
       /\ Cardinality(HeededNow') <= Cardinality(HeededNow) + 1
       /\ Cardinality(Heeded') \in Nat /\ Cardinality(HeededNow') \in Nat
       /\ Cardinality(Heeded) \in Nat /\ Cardinality(HeededNow) \in Nat
  <2>1. IsFiniteSet(HeededNow) /\ Cardinality(HeededNow) \in Nat /\ IsFiniteSet(Heeded) /\ Cardinality(Heeded) \in Nat
    BY BusyFinite
  <2>2. IsFiniteSet(HeededNow \union {new}) /\ Cardinality(HeededNow \union {new}) <= Cardinality(HeededNow) + 1
        /\ Cardinality(HeededNow \union {new}) \in Nat
    <3> HIDE DEF new
    <3>1. IsFiniteSet(HeededNow \union {new})
          /\ Cardinality(HeededNow \union {new}) = IF new \in HeededNow THEN Cardinality(HeededNow) ELSE Cardinality(HeededNow) + 1
      BY <2>1, FS_AddElement
    <3> QED
      BY <2>1, <3>1
  <2>3. ASSUME NEW S \in SUBSET (HeededNow \union {new})
        PROVE  Cardinality(S) \in Nat /\ Cardinality(S) <= Cardinality(HeededNow \union {new})
    BY <2>2, FS_Subset, FS_CardinalityType
  <2>4. ASSUME NEW S \in SUBSET Heeded
        PROVE  Cardinality(S) \in Nat /\ Cardinality(S) <= Cardinality(Heeded)
    BY <2>1, FS_Subset, FS_CardinalityType
  <2> HIDE DEF new
  <2>5. /\ Cardinality(HeededNow') \in Nat /\ Cardinality(HeededNow') <= Cardinality(HeededNow \union {new})
        /\ Cardinality(Heeded') \in Nat
        /\ Cardinality(Heeded') <= Cardinality(HeededNow \union {new}) \/ Cardinality(Heeded') <= Cardinality(Heeded)
    BY <1>12, <2>3, <2>4
  <2> QED
    BY <2>1, <2>2, <2>5
<1>14. Cardinality(planner'.queue) = Cardinality(planner.queue) - 1 /\ Cardinality(planner.queue) \in Nat
       /\ Cardinality(planner'.queue) \in Nat
  <2>1. IsFiniteSet(planner.queue)
    <3>1. IsFiniteSet(DOMAIN Lanes)
      BY SignoffAssumption, LenProperties, FS_Interval
    <3> QED
      BY <1>1, <3>1, FS_Subset
  <2> QED
    BY <1>1, <1>3, <2>1, FS_RemoveElement, FS_CardinalityType
<1>15. Cardinality(HeededNow) + Cardinality(planner.queue) <= MaxParallel /\ MaxParallel \in Nat
       /\ Cardinality(Heeded) <= MaxParallel
  BY <1>1, BusyFinite DEF RepeatInv
<1>16. Cardinality(Heeded') <= MaxParallel /\ Cardinality(HeededNow') + Cardinality(planner'.queue) <= MaxParallel
  BY <1>13, <1>14, <1>15
<1> QED
  BY <1>10, <1>11, <1>16 DEF RepeatInv, Alias

\* A run that changes goes on from where it was, and is not over before.
LEMMA SetRunProceeds ==
  ASSUME SignoffType, NEW i \in DOMAIN runs, NEW run \in RunType, SetRun(i, run),
         Keeps(i, run), runs[i].status \in Active, run.status \in {"running", "success", "failure"}
  PROVE  DOMAIN runs' = DOMAIN runs /\ \A j \in DOMAIN runs : Proceeds(j)
<1>1. runs \in Seq(RunType)
  BY DEF SignoffType
<1>2. /\ runs' \in Seq(RunType) /\ Len(runs') = Len(runs) /\ DOMAIN runs = 1..Len(runs) /\ runs'[i] = run
      /\ \A j \in DOMAIN runs : j # i => runs'[j] = runs[j]
  BY <1>1, SetRunType
<1>3. DOMAIN runs' = DOMAIN runs
  BY <1>2, LenProperties
<1>4. Proceeds(i)
  BY <1>2 DEF Proceeds
<1>5. \A j \in DOMAIN runs : j # i => Proceeds(j)
  BY <1>2 DEF Proceeds, Keeps
<1> QED
  BY <1>3, <1>4, <1>5

LEMMA RepeatKept ==
  ASSUME SignoffType, SignoffType', RepeatInv, [SignoffNext]_signoffVars
  PROVE  RepeatInv'
<1>1. ASSUME runs' = runs, planner' = planner \/ planner'.pc # "dispatch"
      PROVE  RepeatInv'
  BY <1>1, OthersKeep DEF Proceeds, Keeps
<1>2. CASE PlanningNext /\ ~Dispatch /\ ~Snapshot
  <2>1. runs' = runs
    BY <1>2 DEF PlanningNext, BeginPlan, ReadServer, ReadAgent, ListTags, InspectTag, ChooseTag,
       PlanFails, EndDispatch, Step, Give, FoundPair, NextRegistry
  <2>2. Idle.pc = "idle" /\ planner \in PlannerType /\ Idle \in PlannerType
    BY IdleType DEF SignoffType
  <2>3. ASSUME Give PROVE planner'.pc # "dispatch"
    BY <2>2, <2>3 DEF Give
  <2>4. ASSUME NEW s, NEW a, FoundPair(s, a) PROVE planner'.pc # "dispatch"
    BY <2>2, <2>4 DEF FoundPair, Step, PlannerType
  <2>5. ASSUME NextRegistry PROVE planner'.pc # "dispatch"
    BY <2>2, <2>3, <2>5 DEF NextRegistry, Step, PlannerType
  <2>6. planner'.pc # "dispatch"
    <3>1. CASE BeginPlan
      BY <2>2, <3>1 DEF BeginPlan, PlannerType
    <3>2. CASE ReadServer
      BY <2>2, <2>5, <3>2 DEF ReadServer, Step, PlannerType
    <3>3. CASE ReadAgent
      <4>1. \/ NextRegistry \/ Give \/ FoundPair(planner.server, Inspect(RegistryOrder[planner.at], planner.tag, "agent"))
            \/ \E t, f : Step([planner EXCEPT !.pc = "server", !.tag = t, !.first = f])
        BY <3>3, Zenon DEF ReadAgent
      <4>2. ASSUME NEW t, NEW f, Step([planner EXCEPT !.pc = "server", !.tag = t, !.first = f])
            PROVE  planner'.pc # "dispatch"
        BY <2>2, <4>2 DEF Step, PlannerType
      <4> QED
        BY <2>3, <2>4, <2>5, <4>1, <4>2
    <3>4. CASE ListTags
      BY <2>2, <3>4 DEF ListTags, Step, PlannerType
    <3>5. CASE InspectTag
      <4>0. PICK b \in Builds, o \in PairRoles :
              LET image == Inspect("staging", b, o)
                  fits == IF o = "server"
                          THEN /\ image.created # 0 /\ image.tag = b /\ CanonicalFits(image)
                               /\ image.prime /\ image.revision = b
                          ELSE image.created # 0 /\ PairValid(b, Inspect("staging", b, "server"), image)
                  rest == planner.listed \ {<<b, o>>}
              IN Step([planner EXCEPT
                   !.listed = IF o = "server" /\ image.build # 0 /\ fits THEN rest \union {<<b, "agent">>} ELSE rest,
                   !.found = IF o = "agent" /\ image.build # 0 /\ fits THEN @ \union {b} ELSE @])
        BY <3>5 DEF InspectTag
      <4>1. \E l, f : Step([planner EXCEPT !.listed = l, !.found = f])
        BY <4>0
      <4>2. planner.pc = "inspect"
        BY <3>5, Zenon DEF InspectTag
      <4>3. PICK l, f : planner' = [planner EXCEPT !.listed = l, !.found = f]
        BY <4>1, Zenon DEF Step
      <4> QED
        BY <2>2, <4>2, <4>3 DEF PlannerType
    <3>6. CASE ChooseTag
      BY <2>3, <2>4, <3>6 DEF ChooseTag
    <3>7. CASE PlanFails \/ EndDispatch
      BY <2>3, <3>7 DEF PlanFails, EndDispatch
    <3> QED
      BY <1>2, <3>1, <3>2, <3>3, <3>4, <3>5, <3>6, <3>7 DEF PlanningNext
  <2> QED
    BY <1>1, <2>1, <2>6
<1>3. CASE Dispatch
  BY <1>3, DispatchKeeps
<1>4. CASE Snapshot
  BY <1>4, SnapshotKeeps
<1>5. CASE StartByHand
  <2> DEFINE new == Len(runs) + 1
  <2>2. PICK run \in RunType : Added(run) /\ run.planned = 0
    BY <1>5, HandRunTyped
  <2>3. runs \in Seq(RunType) /\ Added(run)
    BY <2>2 DEF SignoffType
  <2>4. /\ runs' \in Seq(RunType) /\ Len(runs') = new /\ Len(runs) \in Nat
        /\ runs'[new] = run
        /\ \A i \in 1..Len(runs) :
             runs'[i] = runs[i] \/ (runs[i].status = "queued" /\ runs'[i] = [runs[i] EXCEPT !.status = "cancelled"])
    BY <2>2, <2>3, AddedType
  <2>5. DOMAIN runs = 1..Len(runs) /\ DOMAIN runs' = 1..new
    BY <2>3, <2>4, LenProperties
  <2>6. ASSUME NEW i \in DOMAIN runs
        PROVE  Proceeds(i)
    BY <2>4, <2>5, ChangeProceeds DEF Proceeds
  <2>7. DOMAIN runs \subseteq DOMAIN runs' /\ \A j \in (DOMAIN runs') \ DOMAIN runs : j = new
    BY <2>4, <2>5
  <2>8. planner' = planner
    BY <1>5 DEF StartByHand
  <2> QED
    BY <2>2, <2>4, <2>6, <2>7, <2>8, OthersKeep
<1>6. CASE RunLane \/ LanePlans \/ LaneEnds
  <2>1. \E i \in DOMAIN runs : \E run \in RunType :
          /\ SetRun(i, run)
          /\ Keeps(i, run) /\ runs[i].status \in Active /\ run.status \in {"running", "success", "failure"}
    <3>1. ASSUME NEW i \in DOMAIN runs, NEW status \in {"running", "success", "failure"}
          PROVE  LET run == [runs[i] EXCEPT !.status = status]
                 IN run \in RunType /\ run.status = status /\ Keeps(i, run)
      BY RunIsTyped DEF RunType, Keeps
    <3>2. CASE RunLane
      <4>1. PICK i \in DOMAIN runs : runs[i].status = "queued" /\ SetRun(i, [runs[i] EXCEPT !.status = "running"])
        BY <3>2 DEF RunLane
      <4> QED
        BY <3>1, <4>1 DEF Active
    <3>3. CASE LaneEnds
      <4>1. PICK i \in DOMAIN runs, status \in {"success", "failure"} :
              runs[i].status = "running" /\ SetRun(i, [runs[i] EXCEPT !.status = status])
        BY <3>3 DEF LaneEnds
      <4> QED
        BY <3>1, <4>1 DEF Active
    <3>4. CASE LanePlans
      <4>1. PICK i \in DOMAIN runs :
              /\ runs[i].status = "running"
              /\ \E b \in Resolution(LaneTarget(runs[i])) : SetRun(i, [runs[i] EXCEPT !.server = b, !.agent = b])
        BY <3>4 DEF LanePlans
      <4>0. PICK b \in Resolution(LaneTarget(runs[i])) : SetRun(i, [runs[i] EXCEPT !.server = b, !.agent = b])
        BY <4>1
      <4>2. b \in BuildTag /\ runs[i] \in RunType
        BY ResolutionTells, RunIsTyped
      <4> DEFINE run == [runs[i] EXCEPT !.server = b, !.agent = b]
      <4>3. run \in RunType /\ run.status = runs[i].status /\ Keeps(i, run)
        BY <4>2 DEF RunType, Keeps
      <4>4. SetRun(i, run)
        BY <4>0
      <4> HIDE DEF run
      <4> QED
        BY <4>1, <4>3, <4>4 DEF Active
    <3> QED
      BY <1>6, <3>2, <3>3, <3>4
  <2>2. PICK i \in DOMAIN runs, run \in RunType :
          /\ SetRun(i, run)
          /\ Keeps(i, run) /\ runs[i].status \in Active /\ run.status \in {"running", "success", "failure"}
    BY <2>1
  <2>3. planner' = planner
    BY <2>2 DEF SetRun
  <2>4. DOMAIN runs' = DOMAIN runs /\ \A j \in DOMAIN runs : Proceeds(j)
    BY <2>2, SetRunProceeds
  <2> QED
    BY <2>3, <2>4, OthersKeep
<1>7. CASE Publish \/ MoveAlias \/ UNCHANGED signoffVars
  <2>1. runs' = runs /\ planner' = planner
    BY <1>7 DEF Publish, MoveAlias, signoffVars
  <2> QED
    BY <1>1, <2>1
<1> QED
  BY <1>2, <1>3, <1>4, <1>5, <1>6, <1>7 DEF SignoffNext

\* Planners dispatch a lane of a target that names a build again only when the
\* one before failed or was cancelled, when it succeeded and the second is of
\* another branch or was to run successful lanes again, or when the second's
\* planner was told to ignore it or found it pushed from the list; and the lanes
\* that were never so left out of account stay within max_parallel_lanes, however
\* often planners run and whatever is started by hand meanwhile (the dispatch
\* queue of signoff-plan.yml).
THEOREM RepeatsHold == SignoffSpec => []LanesAreNotRepeated
<1>1. SignoffInit => SignoffType /\ RunsInv /\ RepeatInv
  <2> SUFFICES ASSUME SignoffInit PROVE SignoffType /\ RunsInv /\ RepeatInv
    OBVIOUS
  <2>1. Mine = {} /\ Heeded = {} /\ planner.pc = "idle"
    BY IdleType DEF SignoffInit, Mine, Busy, Heeded
  <2>2. Cardinality(Heeded) = 0
    BY <2>1, FS_EmptySet
  <2>3. RepeatInv
    BY <2>1, <2>2, SignoffAssumption DEF RepeatInv
  <2> QED
    BY <2>3, TypesHoldFirst
<1>2. SignoffType /\ RunsInv /\ RepeatInv /\ [SignoffNext]_signoffVars => (SignoffType /\ RunsInv /\ RepeatInv)'
  BY RunsKept, RepeatKept
<1>3. SignoffType /\ RepeatInv => LanesAreNotRepeated
  <2> SUFFICES ASSUME SignoffType, RepeatInv PROVE LanesAreNotRepeated
    OBVIOUS
  <2> DEFINE leftOut == UNION {runs[i].unseen : i \in Mine}
  <2>1. \A i, j \in Mine :
          i < j /\ Title(runs[i]) = Title(runs[j]) /\ runs[i].version # Alias =>
            \/ runs[i].status \in {"failure", "cancelled"}
            \/ i \in runs[j].unseen
            \/ runs[i].status = "success" /\ (runs[j].rerun \/ runs[i].branch # runs[j].branch)
    BY DEF RepeatInv, Repeatable, Title, Over
  <2>2. {i \in Mine \ leftOut : runs[i].status \in Active} = Heeded
    BY DEF Heeded, Busy
  <2>3. Cardinality({i \in Mine \ leftOut : runs[i].status \in Active}) <= MaxParallel
    BY <2>2 DEF RepeatInv
  <2> QED
    BY <2>1, <2>3 DEF LanesAreNotRepeated, Mine
<1> QED
  BY <1>1, <1>2, <1>3, PTL DEF SignoffSpec

-----------------------------------------------------------------------------
(* What a plan names.                                                      *)

\* An image of a build that is kept in staging, and a server whose labels fit
\* the patch that is asked for.
Kept(b, o) == Home[b] = "staging" /\ <<b, o>> \in published
Fits(b) ==
  LET server == Image(b, "server")
  IN server.created # 0 /\ server.tag = b /\ CanonicalFits(server) /\ server.prime /\ server.revision = b
\* The planner has read what it decides on of one build, and none that was
\* complete when the tags were listed is lost before it was looked at.
PlanInv ==
  /\ plan.build # 0 => plan.server = plan.build /\ plan.agent = plan.build /\ Sound(plan.build)
  /\ planner.pc \in {"server", "agent"} => request # "patch" /\ planner.complete = {}
  /\ planner.pc = "agent" /\ planner.tag # Alias =>
       planner.server = [Image(planner.tag, "server") EXCEPT !.digest = planner.server.digest]
  /\ planner.pc \in {"list", "inspect"} => request = "patch"
  /\ planner.pc = "list" => planner.found = {}
  /\ planner.pc = "inspect" =>
       /\ \A b \in Builds : <<b, "server">> \in planner.listed => Kept(b, "server")
       /\ \A b \in Builds : <<b, "agent">> \in planner.listed => Kept(b, "server") /\ Fits(b)
       /\ \A b \in planner.found : Sound(b)
       /\ \A b \in planner.complete :
            /\ Kept(b, "server") /\ Kept(b, "agent")
            /\ Sound(b) => b \in planner.found \/ <<b, "server">> \in planner.listed \/ <<b, "agent">> \in planner.listed
  /\ planner.pc = "snapshot" => \A b \in planner.complete : Sound(b) => plan.build >= b

\* Builds are numbered from one.
LEMMA BuildsAreNumbers ==
  \A b \in Builds : b \in Nat /\ b # 0
BY SignoffAssumption, FS_CardinalityType

\* What the rest of the world does leaves the planner's findings true.
LEMMA PlanStands ==
  ASSUME PlanInv, UNCHANGED <<request, flaw, docker>>, published \subseteq published', planner' = planner, plan' = plan
  PROVE  PlanInv'
<1>1. /\ \A b, o : Image(b, o)' = Image(b, o)
      /\ \A b : Sound(b)' = Sound(b)
      /\ \A s : CanonicalFits(s)' = CanonicalFits(s)
      /\ Home' = Home
  BY TargetFrame
<1>2. \A b : Fits(b)' = Fits(b)
  BY <1>1 DEF Fits
<1>3. \A b, o : Kept(b, o) => Kept(b, o)'
  BY <1>1 DEF Kept
<1> QED
  BY <1>1, <1>2, <1>3 DEF PlanInv, Alias

\* A planner that gives up, keeping a plan or none.
LEMMA PlanGiven ==
  ASSUME PlanInv, UNCHANGED <<request, flaw, docker>>, planner'.pc \in {"idle", "dispatch"}, plan' = plan
  PROVE  PlanInv'
<1>1. \A b : Sound(b)' = Sound(b)
  BY TargetFrame
<1> QED
  BY <1>1 DEF PlanInv

\* The pair of one build is planned.
LEMMA PairPlanned ==
  ASSUME SignoffType, UNCHANGED <<request, flaw, docker>>, NEW server \in LabelType, NEW agent \in LabelType,
         FoundPair(server, agent), server.tag = server.build, agent.build = server.tag, Sound(server.tag),
         \A b \in planner.complete : Sound(b) => server.tag >= b
  PROVE  PlanInv'
<1>1. \A b : Sound(b)' = Sound(b)
  BY TargetFrame
<1>2. planner'.pc = "snapshot" /\ planner'.complete = planner.complete
  BY IdleType DEF FoundPair, Step, PlannerType
<1>3. plan'.build = server.tag /\ plan'.server = server.tag /\ plan'.agent = server.tag
  BY DEF FoundPair, PlanOf
<1> QED
  BY <1>1, <1>2, <1>3 DEF PlanInv

LEMMA ReadServerPlans ==
  ASSUME SignoffType, PlanInv, UNCHANGED <<request, flaw, docker>>, ReadServer \/ (ReadAgent /\ NextRegistry)
  PROVE  PlanInv'
<1>1. /\ \A b, o : Image(b, o)' = Image(b, o)
      /\ \A b : Sound(b)' = Sound(b)
  BY TargetFrame
<1>2. planner \in PlannerType /\ planner.pc \in {"server", "agent"} /\ planner.tag \in BuildTag
  BY DEF ReadServer, ReadAgent, SignoffType, PlannerType
<1>3. CASE NextRegistry
  <2>1. CASE Give
    BY <2>1, PlanGiven, IdleType DEF Give
  <2>2. CASE ~Give
    <3>1. planner' = [planner EXCEPT !.pc = "server", !.at = @ + 1] /\ plan' = plan
      BY <1>3, <2>2 DEF NextRegistry, Step
    <3>2. planner'.pc = "server" /\ planner'.complete = planner.complete
      BY <1>2, <3>1 DEF PlannerType
    <3> QED
      BY <1>1, <1>2, <3>1, <3>2 DEF PlanInv
  <2> QED
    BY <2>1, <2>2
<1>4. CASE ReadServer /\ ~NextRegistry
  <2> DEFINE image == Inspect(RegistryOrder[planner.at], planner.tag, "server")
  <2>1. image.build # 0 /\ planner' = [planner EXCEPT !.pc = "agent", !.server = image] /\ plan' = plan
    BY <1>4 DEF ReadServer, Step
  <2>2. image \in LabelType
        /\ (planner.tag # Alias => image = [Image(planner.tag, "server") EXCEPT !.digest = image.digest])
    <3>1. RegistryOrder[planner.at] \in Registries /\ "server" \in PairRoles
      BY OrderTells DEF SignoffType, PairRoles
    <3>2. /\ image \in LabelType
          /\ planner.tag # Alias => image.build = 0 \/ image = [Image(planner.tag, "server") EXCEPT !.digest = image.digest]
      BY <1>2, <3>1, AnswerTells
    <3> HIDE DEF image
    <3> QED
      BY <2>1, <3>2
  <2> HIDE DEF image
  <2>3. planner'.pc = "agent" /\ planner'.complete = planner.complete /\ planner'.tag = planner.tag /\ planner'.server = image
    BY <1>2, <2>1 DEF PlannerType
  <2> QED
    BY <1>1, <1>2, <2>1, <2>2, <2>3 DEF PlanInv, Alias
<1> QED
  BY <1>3, <1>4

LEMMA ReadAgentPlans ==
  ASSUME SignoffType, PlanInv, UNCHANGED <<request, flaw, docker>>, ReadAgent
  PROVE  PlanInv'
<1> DEFINE agent == Inspect(RegistryOrder[planner.at], planner.tag, "agent")
           server == planner.server
           p == [planner EXCEPT !.pc = "server", !.tag = server.tag, !.first = <<server, agent>>]
<1>1. /\ planner \in PlannerType /\ planner.pc = "agent" /\ planner.tag \in BuildTag /\ server \in LabelType
      /\ request # "patch" /\ planner.complete = {}
  BY DEF ReadAgent, SignoffType, PlannerType, PlanInv
<1>2. agent \in LabelType
      /\ (planner.tag # Alias /\ agent.build # 0 => agent = [Image(planner.tag, "agent") EXCEPT !.digest = agent.digest])
  <2>1. RegistryOrder[planner.at] \in Registries /\ "agent" \in PairRoles
    BY OrderTells DEF SignoffType, PairRoles
  <2>2. /\ agent \in LabelType
        /\ planner.tag # Alias => agent.build = 0 \/ agent = [Image(planner.tag, "agent") EXCEPT !.digest = agent.digest]
    BY <1>1, <2>1, AnswerTells
  <2> HIDE DEF agent
  <2> QED
    BY <2>2
<1>3. \/ NextRegistry \/ Give \/ (Step(p) /\ plan' = plan)
      \/ /\ agent.build # 0 /\ PairValid(planner.tag, server, agent) /\ planner.tag # Alias
         /\ Provenance(server, planner.tag) /\ FoundPair(server, agent)
  BY Zenon DEF ReadAgent
<1>4. CASE NextRegistry
  BY <1>4, ReadServerPlans
<1>5. CASE Give
  BY <1>5, PlanGiven, IdleType DEF Give
<1>6. CASE Step(p) /\ plan' = plan
  <2>1. planner'.pc = "server" /\ planner'.complete = {}
    BY <1>1, <1>6 DEF Step, PlannerType
  <2>2. \A b : Sound(b)' = Sound(b)
    BY TargetFrame
  <2> QED
    BY <1>1, <1>6, <2>1, <2>2 DEF PlanInv
<1>7. CASE /\ agent.build # 0 /\ PairValid(planner.tag, server, agent) /\ planner.tag # Alias
           /\ Provenance(server, planner.tag) /\ FoundPair(server, agent)
  <2> DEFINE tag == planner.tag
  <2>1. /\ server = [Image(tag, "server") EXCEPT !.digest = server.digest]
        /\ agent = [Image(tag, "agent") EXCEPT !.digest = agent.digest]
    BY <1>1, <1>2, <1>7 DEF PlanInv
  <2>2. Image(tag, "server") \in LabelType /\ Image(tag, "agent") \in LabelType
        /\ Image(tag, "server").build = tag /\ Image(tag, "agent").build = tag
    BY <1>1, ImageType
  <2> HIDE DEF server, agent, tag
  <2>3. /\ server.tag = Image(tag, "server").tag /\ agent.tag = Image(tag, "agent").tag
        /\ server.build = tag /\ agent.build = tag
        /\ server.repository = Image(tag, "server").repository /\ server.revision = Image(tag, "server").revision
        /\ server.prime = Image(tag, "server").prime
    BY <2>1, <2>2 DEF LabelType
  <2>4. server.tag = tag /\ agent.tag = tag /\ server.repository /\ server.revision = tag
        /\ (PatchQualified => server.prime)
    BY <1>7 DEF PairValid, Provenance, tag
  <2>5. Sound(tag)
    BY <1>1, <2>3, <2>4 DEF Sound
  <2> QED
    BY <1>1, <1>2, <1>7, <2>3, <2>4, <2>5, PairPlanned
<1> QED
  BY <1>3, <1>4, <1>5, <1>6, <1>7

LEMMA ListPlans ==
  ASSUME SignoffType, PlanInv, UNCHANGED <<request, flaw, docker>>, ListTags
  PROVE  PlanInv'
<1> DEFINE tags == {b \in Builds : Home[b] = "staging" /\ <<b, "server">> \in published}
           complete == {b \in tags : <<b, "agent">> \in published}
<1>1. planner \in PlannerType /\ planner.pc = "list" /\ request = "patch" /\ planner.found = {}
  BY DEF ListTags, SignoffType, PlanInv
<1>2. planner' = [planner EXCEPT !.pc = "inspect", !.listed = tags \X {"server"}, !.complete = complete]
      /\ plan' = plan /\ published' = published
  BY DEF ListTags, Step
<1> HIDE DEF complete, tags
<1>3. planner'.pc = "inspect" /\ planner'.listed = tags \X {"server"} /\ planner'.complete = complete /\ planner'.found = {}
  BY <1>1, <1>2 DEF PlannerType
<1>4. /\ \A b \in tags : b \in Builds /\ Kept(b, "server")
      /\ \A b \in complete : b \in tags /\ Kept(b, "agent")
  BY DEF tags, complete, Kept
<1>5. (\A b, o : Kept(b, o)' = Kept(b, o)) /\ (\A b : Sound(b)' = Sound(b))
  BY <1>2, TargetFrame DEF Kept
<1>6. "server" # "agent"
  OBVIOUS
<1> QED
  BY <1>1, <1>2, <1>3, <1>4, <1>5, <1>6 DEF PlanInv

\* One inspection in a listing: what fits goes on, or is found.
LEMMA InspectPlans ==
  ASSUME SignoffType, PlanInv, UNCHANGED <<request, flaw, docker>>, InspectTag
  PROVE  PlanInv'
<1>1. PICK b \in Builds, o \in PairRoles :
        /\ <<b, o>> \in planner.listed
        /\ LET image == Inspect("staging", b, o)
               fits == IF o = "server"
                       THEN /\ image.created # 0 /\ image.tag = b /\ CanonicalFits(image)
                            /\ image.prime /\ image.revision = b
                       ELSE image.created # 0 /\ PairValid(b, Inspect("staging", b, "server"), image)
               rest == planner.listed \ {<<b, o>>}
           IN Step([planner EXCEPT
                !.listed = IF o = "server" /\ image.build # 0 /\ fits THEN rest \union {<<b, "agent">>} ELSE rest,
                !.found = IF o = "agent" /\ image.build # 0 /\ fits THEN @ \union {b} ELSE @])
        /\ plan' = plan
  BY DEF InspectTag
<1>2. /\ planner \in PlannerType /\ planner.pc = "inspect" /\ request = "patch"
      /\ b \in BuildTag /\ b # Alias /\ b # 0
      /\ "staging" \in Registries /\ "server" \in PairRoles /\ "agent" \in PairRoles
      /\ published' = published
  <2>1. planner.pc = "inspect" /\ published' = published
    BY <1>1 DEF InspectTag, Step
  <2> QED
    BY <2>1, BuildsAreNumbers DEF SignoffType, PlanInv, BuildTag, Alias, Registries, PairRoles
<1> DEFINE server == Inspect("staging", b, "server")
           agent == Inspect("staging", b, "agent")
           ownServer == Image(b, "server")
           ownAgent == Image(b, "agent")
           Labels(x, y) == /\ x.build = y.build /\ x.tag = y.tag /\ x.repository = y.repository /\ x.patch = y.patch
                           /\ x.prime = y.prime /\ x.revision = y.revision /\ x.created = y.created
<1>3. \A b2, o2 : Kept(b2, o2)' = Kept(b2, o2)
  BY <1>2, TargetFrame DEF Kept
<1>4. (\A c : Sound(c)' = Sound(c)) /\ \A c : Fits(c)' = Fits(c)
  BY TargetFrame DEF Fits
<1>5. Kept(b, "server")
  BY <1>1, <1>2 DEF PlanInv, PairRoles
<1>6. ownServer \in LabelType /\ ownAgent \in LabelType /\ ownServer.build = b /\ ownAgent.build = b
  BY <1>2, ImageType
<1>7. Labels(server, ownServer)
  <2>1. (server.build = 0 /\ ~Kept(b, "server")) \/ server = [ownServer EXCEPT !.digest = server.digest]
    BY <1>2, InspectTells DEF Kept
  <2>2. server = [ownServer EXCEPT !.digest = server.digest]
    BY <1>5, <2>1
  <2> HIDE DEF server, ownServer
  <2> QED
    BY <1>6, <2>2 DEF LabelType
<1>8. IF Kept(b, "agent") THEN Labels(agent, ownAgent) /\ agent.build # 0 ELSE agent.build = 0
  <2>1. \/ agent.build = 0 /\ ~Kept(b, "agent")
        \/ agent = [ownAgent EXCEPT !.digest = agent.digest] /\ Kept(b, "agent")
    BY <1>2, InspectTells DEF Kept
  <2> HIDE DEF agent, ownAgent
  <2>2. agent = [ownAgent EXCEPT !.digest = agent.digest] => Labels(agent, ownAgent)
    BY <1>6 DEF LabelType
  <2> QED
    BY <1>2, <1>6, <2>1, <2>2
<1>9. ownServer.created = ownAgent.created /\ ownServer.repository = ownAgent.repository
  BY DEF Image
<1> DEFINE served == /\ server.created # 0 /\ server.tag = b /\ CanonicalFits(server) /\ server.prime /\ server.revision = b
           paired == agent.build # 0 /\ agent.created # 0 /\ PairValid(b, server, agent)
           listed == IF o = "server" /\ served THEN (planner.listed \ {<<b, o>>}) \union {<<b, "agent">>}
                     ELSE planner.listed \ {<<b, o>>}
           found == IF o = "agent" /\ paired THEN planner.found \union {b} ELSE planner.found
<1>10. served <=> Fits(b)
  <2> HIDE DEF server
  <2> QED
    BY <1>7 DEF Fits, CanonicalFits
<1>11. ASSUME Fits(b), paired
       PROVE  Sound(b)
  <2>1. Kept(b, "agent")
    BY <1>8, <1>11
  <2> HIDE DEF server, agent
  <2> QED
    BY <1>2, <1>7, <1>8, <1>11, <2>1 DEF Sound, Fits, PairValid, CanonicalFits, Alias
<1>12. ASSUME Sound(b), Kept(b, "agent")
       PROVE  Fits(b) /\ paired
  <2> HIDE DEF server, agent
  <2>1. Fits(b)
    BY <1>2, <1>12 DEF Sound, Fits, CanonicalFits, PatchQualified
  <2>2. paired
    BY <1>2, <1>7, <1>8, <1>9, <1>12, <2>1 DEF Sound, Fits, PairValid
  <2> QED
    BY <2>1, <2>2
<1>13. /\ planner'.pc = "inspect" /\ planner'.complete = planner.complete
       /\ planner'.listed = listed /\ planner'.found = found
  <2>1. server.build # 0
    BY <1>2, <1>6, <1>7
  <2>2. planner' = [planner EXCEPT !.listed = listed, !.found = found]
    <3>1. CASE o = "server"
      <4>1. planner' = [planner EXCEPT !.listed = IF server.build # 0 /\ served
                          THEN (planner.listed \ {<<b, o>>}) \union {<<b, "agent">>} ELSE planner.listed \ {<<b, o>>},
                          !.found = @]
        BY <1>1, <3>1 DEF Step
      <4> HIDE DEF server, served
      <4> QED
        BY <1>2, <2>1, <3>1, <4>1 DEF PlannerType
    <3>2. CASE o = "agent"
      <4>1. planner' = [planner EXCEPT !.listed = planner.listed \ {<<b, o>>},
                                       !.found = IF paired THEN @ \union {b} ELSE @]
        BY <1>1, <3>2 DEF Step
      <4> HIDE DEF paired
      <4> QED
        BY <1>2, <3>2, <4>1 DEF PlannerType
    <3> QED
      BY <3>1, <3>2 DEF PairRoles
  <2> HIDE DEF listed, found
  <2> QED
    BY <1>2, <2>2 DEF PlannerType
<1> HIDE DEF served, paired
<1>14. ASSUME NEW c \in Builds
       PROVE  /\ <<c, "server">> \in listed => <<c, "server">> \in planner.listed
              /\ <<c, "agent">> \in listed => <<c, "agent">> \in planner.listed \/ (c = b /\ Fits(b))
              /\ c # b /\ <<c, "server">> \in planner.listed => <<c, "server">> \in listed
              /\ c # b /\ <<c, "agent">> \in planner.listed => <<c, "agent">> \in listed
  BY <1>10
<1>15. \A c \in Builds : <<c, "server">> \in listed => Kept(c, "server")
  BY <1>2, <1>14 DEF PlanInv
<1>16. \A c \in Builds : <<c, "agent">> \in listed => Kept(c, "server") /\ Fits(c)
  BY <1>2, <1>5, <1>14 DEF PlanInv
<1>17. \A c \in found : Sound(c)
  <2>1. \A c \in planner.found : Sound(c)
    BY <1>2 DEF PlanInv
  <2>2. o = "agent" /\ paired => Sound(b)
    <3>1. o = "agent" => Fits(b)
      BY <1>1, <1>2 DEF PlanInv
    <3> QED
      BY <1>11, <3>1
  <2> QED
    BY <2>1, <2>2
<1>18. \A c \in planner.complete :
         /\ Kept(c, "server") /\ Kept(c, "agent")
         /\ Sound(c) => c \in found \/ <<c, "server">> \in listed \/ <<c, "agent">> \in listed
  <2> SUFFICES ASSUME NEW c \in planner.complete
               PROVE  /\ Kept(c, "server") /\ Kept(c, "agent")
                      /\ Sound(c) => c \in found \/ <<c, "server">> \in listed \/ <<c, "agent">> \in listed
    OBVIOUS
  <2>1. /\ c \in Builds /\ Kept(c, "server") /\ Kept(c, "agent")
        /\ Sound(c) => c \in planner.found \/ <<c, "server">> \in planner.listed \/ <<c, "agent">> \in planner.listed
    BY <1>2 DEF PlanInv, PlannerType
  <2>2. CASE c # b
    BY <1>14, <2>1, <2>2
  <2>3. ASSUME c = b, Sound(c)
        PROVE  c \in found \/ <<c, "server">> \in listed \/ <<c, "agent">> \in listed
    <3>1. Fits(b) /\ paired
      BY <1>12, <2>1, <2>3
    <3>2. CASE o = "server"
      BY <1>10, <2>3, <3>1, <3>2
    <3>3. CASE o = "agent"
      BY <2>3, <3>1, <3>3
    <3> QED
      BY <3>2, <3>3 DEF PairRoles
  <2> QED
    BY <2>1, <2>2, <2>3
<1> HIDE DEF listed, found
<1> QED
  BY <1>1, <1>2, <1>3, <1>4, <1>13, <1>15, <1>16, <1>17, <1>18 DEF PlanInv

LEMMA ChoosePlans ==
  ASSUME SignoffType, PlanInv, UNCHANGED <<request, flaw, docker>>, ChooseTag
  PROVE  PlanInv'
<1>1. planner.pc = "inspect" /\ planner.listed = {} /\ planner.found \in SUBSET Builds
  BY DEF ChooseTag, SignoffType, PlannerType
<1>2. CASE planner.found = {}
  BY <1>2, PlanGiven, IdleType DEF ChooseTag, Give
<1>3. CASE planner.found # {}
  <2> DEFINE b == Max(planner.found)
  <2>1. b \in planner.found /\ (\A c \in planner.found : b >= c) /\ b \in BuildTag
    BY <1>1, <1>3, MaxExists DEF BuildTag
  <2>2. FoundPair(Image(b, "server"), Image(b, "agent"))
    BY <1>3 DEF ChooseTag
  <2> HIDE DEF b
  <2>3. Sound(b)
    BY <1>1, <2>1 DEF PlanInv
  <2>4. /\ Image(b, "server") \in LabelType /\ Image(b, "agent") \in LabelType
        /\ Image(b, "server").build = b /\ Image(b, "agent").build = b
    BY <2>1, ImageType
  <2>5. Image(b, "server").tag = b
    BY <2>3 DEF Sound
  <2>6. \A c \in planner.complete : Sound(c) => b >= c
    BY <1>1, <2>1 DEF PlanInv
  <2> QED
    BY <2>2, <2>3, <2>4, <2>5, <2>6, PairPlanned
<1> QED
  BY <1>2, <1>3

LEMMA PlanKept ==
  ASSUME SignoffType, PlanInv, [SignoffNext]_signoffVars
  PROVE  PlanInv'
<1>0. UNCHANGED <<request, flaw, docker>>
  BY TargetStays
<1>1. CASE BeginPlan
  <2>1. /\ planner'.pc = (IF request = "patch" THEN "list" ELSE "server") /\ planner'.found = {} /\ planner'.complete = {}
        /\ plan'.build = 0
    BY <1>1, IdleType DEF BeginPlan, PlannerType, NoPlan
  <2> QED
    BY <1>0, <2>1 DEF PlanInv
<1>2. CASE PlanFails \/ EndDispatch
  BY <1>0, <1>2, PlanGiven, IdleType DEF PlanFails, EndDispatch, Give
<1>3. CASE Snapshot
  <2>1. planner'.pc = "dispatch" /\ plan' = plan
    BY <1>3, IdleType DEF Snapshot, Step, PlannerType
  <2> QED
    BY <1>0, <2>1, PlanGiven
<1>4. CASE Dispatch
  <2>1. planner'.pc = "dispatch" /\ plan' = plan
    BY <1>4 DEF Dispatch, SignoffType, PlannerType
  <2> QED
    BY <1>0, <2>1, PlanGiven
<1>5. CASE Publish \/ MoveAlias \/ StartByHand \/ RunLane \/ LanePlans \/ LaneEnds \/ UNCHANGED signoffVars
  <2>1. published \subseteq published' /\ planner' = planner /\ plan' = plan
    BY <1>5 DEF Publish, MoveAlias, StartByHand, RunLane, LanePlans, LaneEnds, SetRun, signoffVars
  <2> QED
    BY <1>0, <2>1, PlanStands
<1> QED
  BY <1>0, <1>1, <1>2, <1>3, <1>4, <1>5, ReadServerPlans, ReadAgentPlans, ListPlans, InspectPlans, ChoosePlans
  DEF SignoffNext, PlanningNext

\* A plan names the server and the agent of the build that its resolved tag
\* names, with the provenance that is asked for, and a patch alias is resolved
\* to no build older than one that was complete when the tags were listed; for
\* any number of builds that are published image by image and aliases that move
\* between the planner's calls (resolveHeadTarget, resolvePatchHeadImagePair).
THEOREM PlannedPairHolds == SignoffSpec => []PlannedPairIsOneBuild
<1>1. SignoffInit => SignoffType /\ RunsInv /\ PlanInv
  <2> SUFFICES ASSUME SignoffInit PROVE PlanInv
    BY TypesHoldFirst
  <2> QED
    BY IdleType DEF SignoffInit, PlanInv, NoPlan
<1>2. SignoffType /\ RunsInv /\ PlanInv /\ [SignoffNext]_signoffVars => (SignoffType /\ RunsInv /\ PlanInv)'
  BY RunsKept, PlanKept
<1>3. PlanInv => PlannedPairIsOneBuild
  BY DEF PlanInv, PlannedPairIsOneBuild
<1> QED
  BY <1>1, <1>2, <1>3, PTL DEF SignoffSpec
-----------------------------------------------------------------------------
(* Planning by hand with the ledger.                                       *)

(* The order of versions, and the newest of finitely many.                 *)
LEMMA SemverOrder ==
  ASSUME NEW a \in VersionType, NEW b \in VersionType, NEW c \in VersionType
  PROVE  /\ ~SemverLess(a, a)
         /\ SemverLess(a, b) /\ SemverLess(b, c) => SemverLess(a, c)
         /\ SemverLess(a, b) => ~SemverLess(b, a)
BY DEF VersionType, SemverLess

LEMMA NewestExists ==
  ASSUME NEW S \in SUBSET VersionType, IsFiniteSet(S), S # {}
  PROVE  \E v \in S : \A w \in S : ~SemverLess(v, w)
<1> DEFINE Above(v) == {w \in S : SemverLess(v, w)}
           sizes == {Cardinality(Above(v)) : v \in S}
<1>1. \A v \in S : IsFiniteSet(Above(v)) /\ Cardinality(Above(v)) \in Nat
  BY FS_Subset, FS_CardinalityType
<1>2. PICK n \in sizes : \A m \in sizes : n <= m
  <2>1. sizes \in SUBSET Nat /\ sizes # {}
    BY <1>1
  <2> QED BY <2>1, LeastExists
<1>3. PICK v \in S : n = Cardinality(Above(v))
  OBVIOUS
<1>4. \A w \in S : Cardinality(Above(v)) <= Cardinality(Above(w))
  BY <1>2, <1>3
<1>5. ASSUME NEW w \in S, SemverLess(v, w) PROVE FALSE
  <2>1. Above(w) \in SUBSET (Above(v) \ {w})
    <3> SUFFICES ASSUME NEW x \in S, SemverLess(w, x) PROVE SemverLess(v, x) /\ x # w
      OBVIOUS
    <3> QED BY <1>5, SemverOrder
  <2>2. w \in Above(v)
    BY <1>5
  <2> HIDE DEF Above
  <2>3. IsFiniteSet(Above(v) \ {w}) /\ Cardinality(Above(v) \ {w}) = Cardinality(Above(v)) - 1
    BY <1>1, <2>2, FS_RemoveElement
  <2>4. Cardinality(Above(w)) <= Cardinality(Above(v) \ {w})
    BY <2>1, <2>3, FS_Subset
  <2> QED BY <1>1, <1>4, <2>3, <2>4
<1> QED BY <1>5

(* The latest entry of a target.                                           *)
LEMMA LatestTells ==
  ASSUME NEW entries, IsFiniteSet(DOMAIN entries), NEW n \in Nat, \A l \in DOMAIN entries : entries[l].at \in 0..n
  PROVE  /\ LatestCompleted(entries) \in 0..n
         /\ (\E l \in DOMAIN entries : entries[l].at = n) => LatestCompleted(entries) = n
<1> DEFINE S == {0} \union {entries[l].at : l \in DOMAIN entries}
<1>1. S \in SUBSET (0..n) /\ S # {}
  OBVIOUS
<1>2. LatestCompleted(entries) = Max(S)
  BY DEF LatestCompleted
<1>3. ASSUME NEW l \in DOMAIN entries, entries[l].at = n PROVE n \in S
  BY <1>3
<1> HIDE DEF S
<1>4. \E m \in S : \A k \in S : m >= k
  <2>1. S \in SUBSET Nat /\ \A k \in S : k <= n
    BY <1>1
  <2> QED BY <1>1, <2>1, GreatestExists
<1>5. Max(S) \in S /\ \A k \in S : Max(S) >= k
  BY <1>4, Zenon DEF Max
<1> DEFINE top == Max(S)
<1>6. top \in S /\ (n \in S => top >= n)
  BY <1>5
<1> HIDE DEF top
<1>7. top \in 0..n /\ (n \in S => top = n)
  BY <1>1, <1>6
<1> QED BY <1>2, <1>3, <1>7 DEF top

(* A pruned ledger holds what it held of the targets that stay, and none   *)
(* that is dropped is later than one that stays.                           *)
LEMMA PrunedTells ==
  ASSUME NEW b, IsFiniteSet(DOMAIN b), \A t \in DOMAIN b : LatestCompleted(b[t]) \in Nat, NEW m \in Nat
  PROVE  LET c == PruneTargets(b, m)
         IN /\ DOMAIN c \subseteq DOMAIN b
            /\ \A t \in DOMAIN c : c[t] = b[t]
            /\ \A d \in DOMAIN b \ DOMAIN c, k \in DOMAIN c : LatestCompleted(b[d]) <= LatestCompleted(b[k])
<1> DEFINE Latest(t) == LatestCompleted(b[t])
           Before(u, t) == Latest(u) > Latest(t) \/ (Latest(u) = Latest(t) /\ NameLess(t, u))
           first(t) == {u \in DOMAIN b : Before(u, t)}
           kept == {t \in DOMAIN b : Cardinality(first(t)) < m}
           c == PruneTargets(b, m)
<1>1. c = IF m = 0 \/ Cardinality(DOMAIN b) <= m THEN b ELSE [t \in kept |-> b[t]]
  BY DEF PruneTargets
<1>2. ASSUME NEW d \in DOMAIN b, d \notin kept, NEW k \in kept PROVE Latest(d) <= Latest(k)
  <2>1. SUFFICES ASSUME Latest(k) < Latest(d) PROVE FALSE
    OBVIOUS
  <2>2. first(d) \in SUBSET first(k)
    <3> SUFFICES ASSUME NEW u \in DOMAIN b, Before(u, d) PROVE Latest(u) > Latest(k)
      OBVIOUS
    <3>1. Latest(u) \in Nat /\ Latest(d) \in Nat /\ Latest(k) \in Nat
      OBVIOUS
    <3> HIDE DEF Latest
    <3> QED BY <2>1, <3>1
  <2>3. IsFiniteSet(first(k))
    BY FS_Subset
  <2>4. IsFiniteSet(first(d)) /\ Cardinality(first(d)) <= Cardinality(first(k))
    <3> HIDE DEF first
    <3> QED BY <2>2, <2>3, FS_Subset
  <2>5. Cardinality(first(d)) \in Nat /\ Cardinality(first(k)) \in Nat
    <3> HIDE DEF first
    <3> QED BY <2>3, <2>4, FS_CardinalityType
  <2> HIDE DEF first
  <2> QED BY <1>2, <2>4, <2>5
<1> HIDE DEF kept
<1>3. kept \subseteq DOMAIN b
  BY DEF kept
<1> QED BY <1>1, <1>2, <1>3
(* A ledger of finitely many targets and lanes, all completed by `n'.      *)
BookType(b, n) ==
  /\ IsFiniteSet(DOMAIN b)
  /\ \A t \in DOMAIN b : IsFiniteSet(DOMAIN b[t]) /\ \A l \in DOMAIN b[t] : b[t][l].at \in 0..n

(* What a lane's entry changes in a ledger.                                *)
Entered(b, c, n, target, lane, entry) ==
  /\ BookType(c, n)
  /\ DOMAIN c = DOMAIN b \union {target}
  /\ DOMAIN c[target] = {lane} \union (IF target \in DOMAIN b THEN DOMAIN b[target] ELSE {})
  /\ c[target][lane] = entry
  /\ \A l \in DOMAIN c[target] : l # lane => c[target][l] = b[target][l]
  /\ \A t \in DOMAIN b : t # target => c[t] = b[t]
  /\ LatestCompleted(c[target]) = n

LEMMA WithLaneTells ==
  ASSUME NEW b, NEW n \in Nat, BookType(b, n), NEW target, NEW lane, NEW entry, entry.at = n + 1
  PROVE  Entered(b, WithLane(b, target, lane, entry), n + 1, target, lane, entry)
<1> DEFINE known == IF target \in DOMAIN b THEN DOMAIN b[target] ELSE {}
           row == [l \in {lane} \union known |-> IF l = lane THEN entry ELSE b[target][l]]
           c == WithLane(b, target, lane, entry)
<1>1. DOMAIN row = {lane} \union known /\ row[lane] = entry /\ \A l \in known : l # lane => row[l] = b[target][l]
  OBVIOUS
<1>2. known = (IF target \in DOMAIN b THEN DOMAIN b[target] ELSE {}) /\ (target \notin DOMAIN b => known = {})
  OBVIOUS
<1>3. c = [t \in {target} \union DOMAIN b |-> IF t = target THEN row ELSE b[t]]
  BY DEF WithLane
<1> HIDE DEF row, c, known
<1>4. DOMAIN c = DOMAIN b \union {target} /\ c[target] = row /\ \A t \in DOMAIN b : t # target => c[t] = b[t]
  BY <1>3
<1>5. IsFiniteSet(DOMAIN row)
  <2>1. IsFiniteSet(known)
    BY <1>2, FS_EmptySet DEF BookType
  <2> QED BY <1>1, <2>1, FS_AddElement
<1>6. \A l \in DOMAIN row : row[l].at \in 0..(n + 1)
  <2> SUFFICES ASSUME NEW l \in DOMAIN row PROVE row[l].at \in 0..(n + 1)
    OBVIOUS
  <2>1. CASE l = lane
    BY <1>1, <2>1
  <2>2. CASE l # lane
    <3>1. target \in DOMAIN b /\ l \in DOMAIN b[target] /\ row[l] = b[target][l]
      BY <1>1, <1>2, <2>2
    <3>2. b[target][l].at \in 0..n
      BY <3>1 DEF BookType
    <3> QED BY <3>1, <3>2
  <2> QED BY <2>1, <2>2
<1>7. LatestCompleted(row) = n + 1
  <2>1. n + 1 \in Nat /\ \E l \in DOMAIN row : row[l].at = n + 1
    BY <1>1
  <2> QED BY <1>5, <1>6, <2>1, LatestTells
<1>8. BookType(c, n + 1)
  <2>1. IsFiniteSet(DOMAIN c)
    BY <1>4, FS_AddElement DEF BookType
  <2>2. ASSUME NEW t \in DOMAIN b, t # target
        PROVE  IsFiniteSet(DOMAIN c[t]) /\ \A l \in DOMAIN c[t] : c[t][l].at \in 0..(n + 1)
    <3>1. c[t] = b[t]
      BY <1>4, <2>2
    <3>2. IsFiniteSet(DOMAIN b[t]) /\ \A l \in DOMAIN b[t] : b[t][l].at \in 0..n
      BY DEF BookType
    <3> QED BY <3>1, <3>2
  <2> QED BY <1>4, <1>5, <1>6, <2>1, <2>2 DEF BookType
<1> QED BY <1>1, <1>2, <1>4, <1>7, <1>8 DEF Entered, c

(* The ledger against the history: it holds the last records of its        *)
(* targets, and no target that was dropped is later than one it holds.     *)
Agrees(b, h) ==
  /\ \A t \in DOMAIN b : /\ t \in DOMAIN h /\ DOMAIN b[t] \subseteq DOMAIN h[t]
                         /\ \A l \in DOMAIN b[t] : b[t][l] = h[t][l]
                         /\ LatestCompleted(b[t]) = LatestCompleted(h[t])
  /\ \A d \in DOMAIN h \ DOMAIN b, k \in DOMAIN b : LatestCompleted(h[d]) <= LatestCompleted(b[k])

LEMMA BookLatest ==
  ASSUME NEW b, NEW n \in Nat, BookType(b, n)
  PROVE  \A t \in DOMAIN b : LatestCompleted(b[t]) \in 0..n
BY LatestTells DEF BookType

LEMMA RecordAgrees ==
  ASSUME NEW b, NEW h, NEW n \in Nat, BookType(b, n), BookType(h, n), Agrees(b, h),
         NEW target, NEW lane, NEW entry, entry.at = n + 1
  PROVE  Agrees(WithLane(b, target, lane, entry), WithLane(h, target, lane, entry))
<1> DEFINE c == WithLane(b, target, lane, entry)
           g == WithLane(h, target, lane, entry)
<1>1. Entered(b, c, n + 1, target, lane, entry) /\ Entered(h, g, n + 1, target, lane, entry)
  BY WithLaneTells
<1> HIDE DEF c, g
<1>2. ASSUME NEW t \in DOMAIN c
      PROVE  /\ t \in DOMAIN g /\ DOMAIN c[t] \subseteq DOMAIN g[t] /\ \A l \in DOMAIN c[t] : c[t][l] = g[t][l]
             /\ LatestCompleted(c[t]) = LatestCompleted(g[t])
  <2>1. CASE t = target
    BY <1>1, <2>1 DEF Agrees, Entered
  <2>2. CASE t # target
    <3>1. t \in DOMAIN b /\ c[t] = b[t]
      BY <1>1, <2>2 DEF Entered
    <3>2. t \in DOMAIN h /\ g[t] = h[t] /\ t \in DOMAIN g
      BY <1>1, <2>2, <3>1 DEF Agrees, Entered
    <3> QED BY <3>1, <3>2 DEF Agrees
  <2> QED BY <2>1, <2>2
<1>3. ASSUME NEW d \in DOMAIN g, d \notin DOMAIN c, NEW k \in DOMAIN c
      PROVE  LatestCompleted(g[d]) <= LatestCompleted(c[k])
  <2>1. d # target /\ d \in DOMAIN h /\ d \notin DOMAIN b /\ g[d] = h[d]
    BY <1>1, <1>3 DEF Entered
  <2>2. LatestCompleted(h[d]) \in 0..n
    BY <2>1, BookLatest
  <2>3. CASE k = target
    <3>1. \A x \in 0..n : x <= n + 1
      OBVIOUS
    <3> QED BY <1>1, <2>1, <2>2, <2>3, <3>1 DEF Entered
  <2>4. CASE k # target
    <3>1. k \in DOMAIN b /\ c[k] = b[k]
      BY <1>1, <2>4 DEF Entered
    <3> QED BY <2>1, <3>1 DEF Agrees
  <2> QED BY <2>3, <2>4
<1> QED BY <1>2, <1>3 DEF Agrees, c, g

LEMMA PruneAgrees ==
  ASSUME NEW b, NEW h, NEW n \in Nat, BookType(b, n), BookType(h, n), Agrees(b, h), NEW m \in Nat
  PROVE  BookType(PruneTargets(b, m), n) /\ Agrees(PruneTargets(b, m), h)
<1> DEFINE c == PruneTargets(b, m)
<1>1. /\ DOMAIN c \subseteq DOMAIN b
      /\ \A t \in DOMAIN c : c[t] = b[t]
      /\ \A d \in DOMAIN b \ DOMAIN c, k \in DOMAIN c : LatestCompleted(b[d]) <= LatestCompleted(b[k])
  <2>1. IsFiniteSet(DOMAIN b) /\ \A t \in DOMAIN b : LatestCompleted(b[t]) \in Nat
    BY BookLatest DEF BookType
  <2> QED BY <2>1, PrunedTells
<1> HIDE DEF c
<1>2. IsFiniteSet(DOMAIN c)
  BY <1>1, FS_Subset DEF BookType
<1>3. BookType(c, n)
  <2> SUFFICES ASSUME NEW t \in DOMAIN c PROVE IsFiniteSet(DOMAIN c[t]) /\ \A l \in DOMAIN c[t] : c[t][l].at \in 0..n
    BY <1>2 DEF BookType
  <2>1. t \in DOMAIN b /\ c[t] = b[t]
    BY <1>1
  <2> QED BY <2>1 DEF BookType
<1>4. ASSUME NEW d \in DOMAIN h, d \notin DOMAIN c, NEW k \in DOMAIN c
      PROVE  LatestCompleted(h[d]) <= LatestCompleted(c[k])
  <2>1. k \in DOMAIN b /\ c[k] = b[k]
    BY <1>1
  <2>2. CASE d \in DOMAIN b
    <3>1. LatestCompleted(b[d]) <= LatestCompleted(b[k])
      BY <1>1, <1>4, <2>2
    <3>2. LatestCompleted(b[d]) = LatestCompleted(h[d])
      BY <2>2 DEF Agrees
    <3> QED BY <2>1, <3>1, <3>2
  <2>3. CASE d \notin DOMAIN b
    BY <2>1, <2>3 DEF Agrees
  <2> QED BY <2>2, <2>3
<1>5. \A t \in DOMAIN c : /\ t \in DOMAIN h /\ DOMAIN c[t] \subseteq DOMAIN h[t]
                          /\ \A l \in DOMAIN c[t] : c[t][l] = h[t][l]
                          /\ LatestCompleted(c[t]) = LatestCompleted(h[t])
  <2> SUFFICES ASSUME NEW t \in DOMAIN c
               PROVE  /\ t \in DOMAIN h /\ DOMAIN b[t] \subseteq DOMAIN h[t]
                      /\ \A l \in DOMAIN b[t] : b[t][l] = h[t][l]
                      /\ LatestCompleted(b[t]) = LatestCompleted(h[t])
    BY <1>1
  <2> QED BY <1>1 DEF Agrees
<1> QED BY <1>3, <1>4, <1>5 DEF Agrees, c
(* The releases and the ledger, at any time.                               *)
LedgerInv ==
  /\ releases \in Seq(ReleaseType) /\ Len(releases) >= Len(FirstReleases)
  /\ \A r \in Range(releases) : r.kind = "release" => r.version.pre = 0
  /\ now \in Nat /\ BookType(book, now) /\ BookType(history, now)
  /\ Agrees(book, history)

(* What is listed is finitely many of the published releases.              *)
LEMMA ListingTells ==
  ASSUME LedgerInv
  PROVE  /\ Listing \in Seq(ReleaseType)
         /\ Range(Listing) \subseteq Range(releases) /\ Range(Listing) \subseteq ReleaseType
         /\ IsFiniteSet(Range(Listing))
<1> DEFINE shown == Min({PageSize, Len(releases)})
<1>1. Len(releases) \in Nat /\ DOMAIN releases = 1..Len(releases) /\ \A i \in DOMAIN releases : releases[i] \in ReleaseType
  BY LenProperties, ElementOfSeq DEF LedgerInv
<1>2. shown \in Nat /\ shown <= Len(releases)
  <2> DEFINE S == {PageSize, Len(releases)}
  <2>1. S \in SUBSET Nat /\ S # {}
    BY <1>1, LedgerAssumption
  <2>2. \E m \in S : \A n \in S : m <= n
    <3> HIDE DEF S
    <3> QED BY <2>1, LeastExists
  <2>3. Min(S) \in S /\ \A n \in S : Min(S) <= n
    BY <2>2, Zenon DEF Min
  <2>4. Len(releases) \in S
    OBVIOUS
  <2> HIDE DEF S
  <2> QED BY <2>1, <2>3, <2>4 DEF S
<1> HIDE DEF shown
<1>3. Listing = SubSeq(releases, 1, shown)
  BY DEF Listing, shown
<1>4. /\ Listing \in Seq(ReleaseType)
      /\ Len(Listing) = shown
      /\ \A i \in 1..shown : Listing[i] = releases[i]
  <2>1. \A i \in 1..shown : releases[i] \in ReleaseType
    BY <1>1, <1>2
  <2> QED BY <1>2, <1>3, <2>1, SubSeqProperties
<1>5. DOMAIN Listing = 1..shown
  BY <1>4, LenProperties
<1>6. Range(Listing) \subseteq Range(releases) /\ Range(Listing) \subseteq ReleaseType
  <2> SUFFICES ASSUME NEW i \in 1..shown PROVE Listing[i] \in Range(releases) /\ Listing[i] \in ReleaseType
    BY <1>5 DEF Range
  <2> QED BY <1>1, <1>2, <1>4 DEF Range
<1>7. IsFiniteSet(Range(Listing))
  <2>1. IsFiniteSet(1..shown)
    BY <1>2, FS_Interval
  <2>2. Listing \in Surjection(1..shown, Range(Listing))
    <3>1. Listing \in [1..shown -> Range(Listing)]
      BY <1>4, <1>5 DEF Range
    <3> QED BY <1>5, <3>1 DEF Surjection, Range
  <2> QED BY <2>1, <2>2, FS_Surjection
<1> QED BY <1>4, <1>6, <1>7

(* What a planning run is asked for: a version, and an entry of the list if*)
(* it is told the release before it; each place has a version of its own.  *)
Told(s) == s.version \in VersionType /\ (s.previous # NoVersion => \E q \in Range(TargetList) : q = s)

LEMMA AskingTells ==
  ASSUME NEW v \in VersionType
  PROVE  Told(Asking(v)) /\ Asking(v).version = v
BY DEF Told, Asking

LEMMA ListedTargets ==
  /\ \A i \in DOMAIN NormalizeTargets(TargetList) : Told(NormalizeTargets(TargetList)[i])
  /\ \A i, j \in DOMAIN NormalizeTargets(TargetList) :
       NormalizeTargets(TargetList)[i].version = NormalizeTargets(TargetList)[j].version => i = j
<1> DEFINE wanted == {i \in DOMAIN TargetList : TargetList[i].enabled /\ TargetList[i].version # NoVersion}
           first == {i \in wanted : \A j \in wanted : TargetList[j].version = TargetList[i].version => i <= j}
<1>1. NormalizeTargets(TargetList) = [i \in first |-> TargetList[i]]
  BY DEF NormalizeTargets
<1>2. DOMAIN TargetList = 1..Len(TargetList) /\ Len(TargetList) \in Nat
  BY LenProperties, LedgerAssumption
<1>3. \A i \in first : Told(TargetList[i])
  BY LedgerAssumption DEF Told, Range
<1>4. \A i, j \in first : TargetList[i].version = TargetList[j].version => i = j
  <2> SUFFICES ASSUME NEW i \in first, NEW j \in first, TargetList[i].version = TargetList[j].version PROVE i = j
    OBVIOUS
  <2>1. i <= j /\ j <= i
    OBVIOUS
  <2> QED BY <1>2, <2>1
<1> HIDE DEF first
<1> QED BY <1>1, <1>3, <1>4

LEMMA NewestAlphas ==
  ASSUME LedgerInv
  PROVE  LET alphas == LatestAlphas(Listing, AlphaCutoff)
         IN /\ \A i \in DOMAIN alphas : alphas[i] \in VersionType
            /\ \A i, j \in DOMAIN alphas : alphas[i] = alphas[j] => i = j
<1> DEFINE recent == {i \in DOMAIN Listing : RecentAlpha(Listing[i], AlphaCutoff)}
           Beats(j, i) ==
             /\ MinorLine(Listing[j].version) = MinorLine(Listing[i].version)
             /\ \/ SemverLess(Listing[i].version, Listing[j].version)
                \/ j < i /\ ~SemverLess(Listing[j].version, Listing[i].version)
           best == {i \in recent : ~\E j \in recent : Beats(j, i)}
<1>1. LatestAlphas(Listing, AlphaCutoff) = [i \in best |-> Listing[i].version]
  BY DEF LatestAlphas
<1>2. DOMAIN Listing \subseteq Nat /\ \A i \in DOMAIN Listing : Listing[i].version \in VersionType
  <2>1. Listing \in Seq(ReleaseType)
    BY ListingTells
  <2>2. DOMAIN Listing = 1..Len(Listing) /\ Len(Listing) \in Nat /\ \A i \in DOMAIN Listing : Listing[i] \in ReleaseType
    BY <2>1, LenProperties, ElementOfSeq
  <2> QED BY <2>2 DEF ReleaseType
<1>3. \A i, j \in best : Listing[i].version = Listing[j].version => i = j
  <2> SUFFICES ASSUME NEW i \in best, NEW j \in best, Listing[i].version = Listing[j].version, i < j PROVE FALSE
    BY <1>2
  <2>1. ~SemverLess(Listing[i].version, Listing[j].version)
    BY <1>2, SemverOrder
  <2>2. Beats(i, j)
    BY <2>1
  <2> QED BY <2>2
<1> HIDE DEF best
<1>4. best \subseteq DOMAIN Listing
  BY DEF best
<1> QED BY <1>1, <1>2, <1>3, <1>4

LEMMA FirstAlpha ==
  ASSUME LedgerInv
  PROVE  LatestAlpha(Listing) \in VersionType
<1> DEFINE alphas == {i \in DOMAIN Listing : Listing[i].kind = "alpha"}
<1>1. LatestAlpha(Listing) = IF alphas = {} THEN NoVersion ELSE Listing[Min(alphas)].version
  BY DEF LatestAlpha
<1>2. alphas \in SUBSET Nat /\ alphas \subseteq DOMAIN Listing /\ \A i \in DOMAIN Listing : Listing[i].version \in VersionType
  <2>1. Listing \in Seq(ReleaseType)
    BY ListingTells
  <2>2. DOMAIN Listing = 1..Len(Listing) /\ Len(Listing) \in Nat /\ \A i \in DOMAIN Listing : Listing[i] \in ReleaseType
    BY <2>1, LenProperties, ElementOfSeq
  <2> QED BY <2>2 DEF ReleaseType
<1> HIDE DEF alphas
<1>3. alphas # {} => Min(alphas) \in alphas
  <2> SUFFICES ASSUME alphas # {} PROVE Min(alphas) \in alphas
    OBVIOUS
  <2>1. \E m \in alphas : \A n \in alphas : m <= n
    BY <1>2, LeastExists
  <2> QED BY <2>1, Zenon DEF Min
<1>4. NoVersion \in VersionType
  BY DEF NoVersion, VersionType
<1> QED BY <1>1, <1>2, <1>3, <1>4

LEMMA SpecsTell ==
  ASSUME LedgerInv, NEW mode
  PROVE  /\ \A i \in DOMAIN Specs(mode) : Told(Specs(mode)[i])
         /\ \A i, j \in DOMAIN Specs(mode) : Specs(mode)[i].version = Specs(mode)[j].version => i = j
<1>1. CASE mode = "targets"
  <2>1. Specs(mode) = NormalizeTargets(TargetList)
    BY <1>1 DEF Specs
  <2> QED BY <2>1, ListedTargets
<1>2. CASE mode = "line"
  <2> DEFINE alphas == LatestAlphas(Listing, AlphaCutoff)
  <2>1. Specs(mode) = [i \in DOMAIN alphas |-> Asking(alphas[i])]
    BY <1>2 DEF Specs
  <2>2. (\A i \in DOMAIN alphas : alphas[i] \in VersionType) /\ (\A i, j \in DOMAIN alphas : alphas[i] = alphas[j] => i = j)
    BY NewestAlphas
  <2> HIDE DEF alphas
  <2>3. \A i \in DOMAIN alphas : Told(Asking(alphas[i])) /\ Asking(alphas[i]).version = alphas[i]
    BY <2>2, AskingTells
  <2> QED BY <2>1, <2>2, <2>3
<1>3. CASE mode = "alpha" /\ LatestAlpha(Listing) # NoVersion
  <2>1. Specs(mode) = <<Asking(LatestAlpha(Listing))>>
    BY <1>3 DEF Specs
  <2>2. Told(Asking(LatestAlpha(Listing)))
    BY FirstAlpha, AskingTells
  <2> QED BY <2>1, <2>2
<1>4. CASE mode \notin {"targets", "line"} /\ ~(mode = "alpha" /\ LatestAlpha(Listing) # NoVersion)
  <2>1. Specs(mode) = <<>>
    BY <1>4 DEF Specs
  <2> QED BY <2>1
<1> QED BY <1>1, <1>2, <1>3, <1>4
(* The release before a target.                                            *)
LEMMA PreviousTells ==
  ASSUME LedgerInv, NEW s, Told(s), PreviousFor(s) # NoVersion, NEW p, p.target = s.version, p.previous = PreviousFor(s)
  PROVE  UpgradesFromTheOneBefore(p)
<1> DEFINE target == s.version
           Under(v) == /\ v.major = p.target.major
                       /\ \/ v.minor < p.target.minor
                          \/ v.minor = p.target.minor /\ (~p.target.patched \/ v.patch < p.target.patch)
           Below(v) == /\ v.major = target.major
                       /\ v.minor <= target.minor
                       /\ ~(v.minor = target.minor /\ target.patched /\ v.patch >= target.patch)
           before == [target EXCEPT !.patch = IF @ = 0 THEN 0 ELSE @ - 1, !.pre = 0, !.patched = TRUE]
           candidates == {r.version : r \in {x \in Range(Listing) : x.kind = "release" /\ Below(x.version)}}
<1>1. CASE s.previous # NoVersion
  <2>1. PreviousFor(s) = s.previous /\ \E q \in Range(TargetList) : q = s
    BY <1>1 DEF PreviousFor, Told
  <2> QED BY <2>1 DEF UpgradesFromTheOneBefore
<1>2. CASE s.previous = NoVersion
  <2>1. p.target \in VersionType /\ p.target = target
    BY DEF Told
  <2>2. \A r \in Range(Listing) : r.version \in VersionType /\ (r.kind = "release" => r.version.pre = 0)
    BY ListingTells DEF LedgerInv, ReleaseType
  <2>3. SUFFICES /\ p.previous \in TagsOf(releases) /\ Under(p.previous)
                 /\ ~\E r \in Range(Listing) : r.kind = "release" /\ Under(r.version) /\ SemverLess(p.previous, r.version)
    BY DEF UpgradesFromTheOneBefore
  <2>4. p.previous = IF target.patched /\ target.patch > 0 /\ before \in TagsOf(releases) THEN before
                     ELSE IF candidates = {} THEN NoVersion
                     ELSE CHOOSE v \in candidates : \A w \in candidates : ~SemverLess(v, w)
    BY <1>2 DEF PreviousFor, PreviousRelease
  <2>5. CASE target.patched /\ target.patch > 0 /\ before \in TagsOf(releases)
    <3>1. p.previous = before
      BY <2>4, <2>5
    <3>2. /\ before.major = target.major /\ before.minor = target.minor /\ before.patch = target.patch - 1
          /\ before.pre = 0
      BY <2>1, <2>5 DEF VersionType
    <3> HIDE DEF before
    <3>3. Under(p.previous)
      BY <2>1, <3>1, <3>2 DEF VersionType
    <3>4. ASSUME NEW r \in Range(Listing), r.kind = "release", Under(r.version), SemverLess(p.previous, r.version)
          PROVE  FALSE
      <4>1. r.version \in VersionType /\ r.version.pre = 0
        BY <2>2, <3>4
      <4> QED BY <2>1, <2>5, <3>1, <3>2, <3>4, <4>1 DEF VersionType, SemverLess
    <3> QED BY <2>5, <3>1, <3>3, <3>4
  <2>6. CASE ~(target.patched /\ target.patch > 0 /\ before \in TagsOf(releases))
    <3>1. candidates # {} /\ p.previous = CHOOSE v \in candidates : \A w \in candidates : ~SemverLess(v, w)
      BY <2>4, <2>6
    <3>2. candidates \in SUBSET VersionType /\ candidates \subseteq TagsOf(Listing)
      BY <2>2 DEF TagsOf
    <3>3. \A v \in VersionType : Below(v) <=> Under(v)
      BY <2>1 DEF VersionType
    <3>4. \A r \in Range(Listing) : r.kind = "release" /\ Below(r.version) => r.version \in candidates
      OBVIOUS
    <3>5. \A v \in candidates : Below(v)
      OBVIOUS
    <3>6. IsFiniteSet(candidates)
      <4>1. IsFiniteSet(TagsOf(Listing))
        <5> DEFINE tag == [r \in Range(Listing) |-> r.version]
        <5>1. tag \in Surjection(Range(Listing), TagsOf(Listing))
          BY DEF Surjection, TagsOf
        <5> QED BY <5>1, ListingTells, FS_Surjection
      <4> QED BY <3>2, <4>1, FS_Subset
    <3> HIDE DEF candidates
    <3>7. \E v \in candidates : \A w \in candidates : ~SemverLess(v, w)
      BY <3>1, <3>2, <3>6, NewestExists
    <3>8. p.previous \in candidates /\ \A w \in candidates : ~SemverLess(p.previous, w)
      BY <3>1, <3>7, Zenon
    <3>9. p.previous \in TagsOf(releases)
      BY <3>2, <3>8, ListingTells DEF TagsOf
    <3> HIDE DEF Below, Under
    <3> QED BY <2>2, <3>2, <3>3, <3>4, <3>5, <3>8, <3>9
  <2> QED BY <2>5, <2>6
<1> QED BY <1>1, <1>2

(* A webhook image that a plan names was found in its registry.            *)
LEMMA ImageTells ==
  ASSUME NEW s, ImageFor(s) # Nothing
  PROVE  Lookups[ImageFor(s)] = "found"
<1> DEFINE tag == WebhookTags[s.version]
           order == WebhookCandidates(tag.pre)
           hits == {i \in DOMAIN order : Lookups[order[i]] = "found"}
<1>1. ImageFor(s) = ChosenWebhook(s.image, s.tag = tag, tag.pre, Lookups)
  BY DEF ImageFor
<1>2. CASE s.image = Nothing
  <2>1. ImageFor(s) = IF hits = {} THEN Nothing ELSE order[Min(hits)]
    BY <1>1, <1>2 DEF ChosenWebhook, WebhookImage
  <2>2. hits \in SUBSET Nat
    BY DEF WebhookCandidates
  <2>3. hits # {}
    BY <2>1
  <2> HIDE DEF hits
  <2>4. \E m \in hits : \A n \in hits : m <= n
    BY <2>2, <2>3, LeastExists
  <2>5. Min(hits) \in hits
    BY <2>4, Zenon DEF Min
  <2>6. \A i \in hits : Lookups[order[i]] = "found"
    BY DEF hits
  <2> QED BY <2>1, <2>3, <2>5, <2>6
<1>3. CASE s.image # Nothing
  BY <1>1, <1>3 DEF ChosenWebhook
<1> QED BY <1>2, <1>3

(* The lanes of a plan.                                                    *)
LEMMA LanesTell ==
  ASSUME NEW target, NEW previous, NEW distro, NEW image, NEW changed \in BOOLEAN
  PROVE  LET lanes == PlanLanes(target, previous, distro, image, changed)
         IN /\ {l.name : l \in lanes} = Range(LaneNames) \ (IF changed THEN {} ELSE {LaneNames[4]})
            /\ \E l \in lanes : l.install = previous /\ l.upgrade = target
<1> DEFINE Of(i, install, installDistro, upgrade, downstream, override) ==
             [name |-> LaneNames[i], install |-> install, distro |-> installDistro,
              upgrade |-> upgrade, upgradeDistro |-> IF upgrade = NoVersion THEN Nothing ELSE distro,
              downstream |-> downstream, override |-> override]
           first == Of(1, target, distro, NoVersion, FALSE, Nothing)
           second == Of(2, target, distro, NoVersion, TRUE, Nothing)
           third == Of(3, previous, "auto", target, TRUE, Nothing)
           fourth == Of(4, previous, "auto", NoVersion, TRUE, image)
           lanes == PlanLanes(target, previous, distro, image, changed)
<1>1. lanes = {first, second, third} \union (IF changed THEN {fourth} ELSE {})
  BY DEF PlanLanes
<1>2. first.name = LaneNames[1] /\ second.name = LaneNames[2] /\ third.name = LaneNames[3] /\ fourth.name = LaneNames[4]
  OBVIOUS
<1>3. third.install = previous /\ third.upgrade = target
  OBVIOUS
<1> HIDE DEF first, second, third, fourth, lanes
<1>4. /\ Range(LaneNames) = {LaneNames[1], LaneNames[2], LaneNames[3], LaneNames[4]}
      /\ LaneNames[4] \notin {LaneNames[1], LaneNames[2], LaneNames[3]}
  BY DEF LaneNames, Range
<1>5. {l.name : l \in lanes} = {LaneNames[1], LaneNames[2], LaneNames[3]} \union (IF changed THEN {LaneNames[4]} ELSE {})
  BY <1>1, <1>2
<1> QED BY <1>1, <1>3, <1>4, <1>5 DEF lanes

LEMMA DraftTells ==
  ASSUME LedgerInv, NEW s, Told(s), CanBePlanned(s), NEW useLedger \in BOOLEAN, NEW run
  PROVE  /\ DraftIsSound(Draft(s, useLedger, run))
         /\ \A k \in Draft(s, useLedger, run).keys : k[2] = s.version
<1> DEFINE previous == PreviousFor(s)
           changed == WebhookTags[s.version] # WebhookTags[previous]
           lanes == PlanLanes(s.version, previous, "auto", ImageFor(s), changed)
           split == IF useLedger THEN LedgerSkips(lanes, s.version, book) ELSE [remaining |-> lanes, skipped |-> {}]
           p == Draft(s, useLedger, run)
<1>1. /\ p.target = s.version /\ p.previous = previous /\ p.image = ImageFor(s) /\ p.changed = changed
      /\ p.lanes = split.remaining /\ p.skipped = split.skipped
      /\ p.keys = {StateKey(MinorLine(s.version), s.version, run, l.name) : l \in split.remaining}
  BY DEF Draft
<1>2. /\ {l.name : l \in lanes} = Range(LaneNames) \ (IF changed THEN {} ELSE {LaneNames[4]})
      /\ \E l \in lanes : l.install = previous /\ l.upgrade = s.version
  <2>1. changed \in BOOLEAN
    OBVIOUS
  <2> HIDE DEF changed, previous
  <2> QED BY <2>1, LanesTell
<1> HIDE DEF lanes
<1>3. split.remaining \union split.skipped = lanes /\ \A l \in split.skipped : Passed(s.version, l.name)
  <2>1. CASE ~useLedger
    BY <2>1
  <2>2. CASE useLedger
    <3> DEFINE Covered(l) == /\ s.version \in DOMAIN book
                             /\ l.name \in DOMAIN book[s.version]
                             /\ book[s.version][l.name].status = "success"
                             /\ book[s.version][l.name].policy = CurrentPolicy
    <3>1. split = [remaining |-> {l \in lanes : ~Covered(l)}, skipped |-> {l \in lanes : Covered(l)}]
      BY <2>2 DEF LedgerSkips
    <3>2. ASSUME NEW l, Covered(l) PROVE Passed(s.version, l.name)
      BY <3>2 DEF Passed, LedgerInv, Agrees
    <3> HIDE DEF split, Covered
    <3> QED BY <3>1, <3>2
  <2> QED BY <2>1, <2>2
<1>4. UpgradesFromTheOneBefore(p)
  BY <1>1, PreviousTells DEF CanBePlanned
<1>5. Lookups[p.image] = "found"
  BY <1>1, ImageTells DEF CanBePlanned
<1>6. \A k \in p.keys : k[2] = s.version
  BY <1>1 DEF StateKey
<1> HIDE DEF p, split, changed, previous
<1>7. p.lanes \union p.skipped = lanes
  BY <1>1, <1>3
<1> QED BY <1>1, <1>2, <1>3, <1>4, <1>5, <1>6, <1>7 DEF DraftIsSound, p

(* Steps.                                                                  *)
LEMMA LedgerStarts ==
  ASSUME LedgerInit
  PROVE  LedgerInv
<1>1. BookType(OldBook, 0)
  BY LedgerAssumption DEF BookType
<1>2. Agrees(OldBook, OldBook)
  BY DEF Agrees
<1>3. Len(FirstReleases) \in Nat
  BY LedgerAssumption, LenProperties
<1> QED BY <1>1, <1>2, <1>3, LedgerAssumption DEF LedgerInit, LedgerInv

LEMMA RecordKeeps ==
  ASSUME LedgerInv, Record
  PROVE  LedgerInv'
<1>1. PICK i \in DOMAIN drafts, status \in {"success", "failure"} : \E l \in drafts[i].lanes :
        /\ now' = now + 1
        /\ book' = RecordLane(book, drafts[i].target, l.name, status, now', MaxTargets)
        /\ history' = RecordLane(history, drafts[i].target, l.name, status, now', 0)
        /\ releases' = releases
  BY DEF Record
<1>2. PICK l \in drafts[i].lanes :
        /\ now' = now + 1
        /\ book' = RecordLane(book, drafts[i].target, l.name, status, now', MaxTargets)
        /\ history' = RecordLane(history, drafts[i].target, l.name, status, now', 0)
        /\ releases' = releases
  BY <1>1
<1> DEFINE entry == [status |-> status, policy |-> CurrentPolicy, at |-> now']
           b == WithLane(book, drafts[i].target, l.name, entry)
           h == WithLane(history, drafts[i].target, l.name, entry)
<1>3. book' = PruneTargets(b, MaxTargets) /\ history' = PruneTargets(h, 0)
  BY <1>2 DEF RecordLane
<1>4. history' = h
  BY <1>3 DEF PruneTargets
<1>5. entry.at = now + 1 /\ now \in Nat /\ now' \in Nat
  BY <1>2 DEF LedgerInv
<1>6. BookType(b, now') /\ BookType(h, now') /\ Agrees(b, h)
  <2> HIDE DEF entry
  <2>1. BookType(book, now) /\ BookType(history, now) /\ Agrees(book, history)
    BY DEF LedgerInv
  <2>2. Agrees(b, h)
    BY <1>5, <2>1, RecordAgrees
  <2>3. /\ Entered(book, b, now + 1, drafts[i].target, l.name, entry)
        /\ Entered(history, h, now + 1, drafts[i].target, l.name, entry)
    BY <1>5, <2>1, WithLaneTells
  <2> QED BY <1>2, <2>2, <2>3 DEF Entered
<1> HIDE DEF b, h
<1>7. BookType(book', now') /\ Agrees(book', h)
  BY <1>3, <1>5, <1>6, LedgerAssumption, PruneAgrees
<1>8. BookType(book, now)' /\ BookType(history, now)' /\ Agrees(book, history)'
  BY <1>4, <1>6, <1>7 DEF BookType, Agrees
<1> QED BY <1>2, <1>5, <1>8 DEF LedgerInv

LEMMA PublishKeeps ==
  ASSUME LedgerInv, PublishRelease
  PROVE  LedgerInv'
<1> DEFINE shown == Len(releases) - Len(FirstReleases)
           new == NextReleases[shown + 1]
<1>1. /\ shown < Len(NextReleases) /\ releases' = <<new>> \o releases
      /\ UNCHANGED <<book, history, now>>
  BY DEF PublishRelease
<1>2. Len(releases) \in Nat /\ Len(FirstReleases) \in Nat /\ Len(NextReleases) \in Nat /\ releases \in Seq(ReleaseType)
  BY LedgerAssumption, LenProperties DEF LedgerInv
<1>3. shown + 1 \in 1..Len(NextReleases)
  BY <1>1, <1>2 DEF LedgerInv
<1> HIDE DEF shown
<1>4. new \in ReleaseType /\ (new.kind = "release" => new.version.pre = 0)
  <2>1. DOMAIN NextReleases = 1..Len(NextReleases) /\ new \in ReleaseType
    BY <1>3, LedgerAssumption, LenProperties, ElementOfSeq
  <2>2. new \in Range(NextReleases)
    BY <1>3, <2>1 DEF Range
  <2> QED BY <2>1, <2>2, LedgerAssumption
<1> HIDE DEF new
<1>5. <<new>> \in Seq(ReleaseType) /\ Len(<<new>>) = 1 /\ <<new>>[1] = new
  BY <1>4
<1>6. /\ releases' \in Seq(ReleaseType)
      /\ Len(releases') = 1 + Len(releases)
      /\ \A i \in 1..(1 + Len(releases)) : releases'[i] = IF i <= 1 THEN <<new>>[i] ELSE releases[i - 1]
  <2> DEFINE one == <<new>>
  <2>1. one \in Seq(ReleaseType) /\ Len(one) = 1 /\ releases' = one \o releases
    BY <1>1, <1>5
  <2> HIDE DEF one
  <2>2. /\ one \o releases \in Seq(ReleaseType)
        /\ Len(one \o releases) = Len(one) + Len(releases)
        /\ \A i \in 1..(Len(one) + Len(releases)) :
             (one \o releases)[i] = IF i <= Len(one) THEN one[i] ELSE releases[i - Len(one)]
    BY <1>2, <2>1, ConcatProperties
  <2>3. /\ releases' \in Seq(ReleaseType) /\ Len(releases') = 1 + Len(releases)
        /\ \A i \in 1..(1 + Len(releases)) : releases'[i] = IF i <= 1 THEN one[i] ELSE releases[i - 1]
    BY <2>1, <2>2
  <2> QED BY <2>3 DEF one
<1>7. \A r \in Range(releases') : r = new \/ r \in Range(releases)
  <2> SUFFICES ASSUME NEW i \in DOMAIN releases' PROVE releases'[i] = new \/ releases'[i] \in Range(releases)
    BY DEF Range
  <2>1. i \in 1..(1 + Len(releases)) /\ DOMAIN releases = 1..Len(releases)
    BY <1>2, <1>6, LenProperties
  <2>2. CASE i <= 1
    <3>1. i = 1
      BY <1>2, <2>1, <2>2
    <3> QED BY <1>5, <1>6, <2>1, <3>1
  <2>3. CASE ~(i <= 1)
    <3>1. i - 1 \in DOMAIN releases /\ releases'[i] = releases[i - 1]
      BY <1>2, <1>6, <2>1, <2>3
    <3> QED BY <3>1 DEF Range
  <2> QED BY <2>2, <2>3
<1>8. \A r \in Range(releases') : r.kind = "release" => r.version.pre = 0
  BY <1>4, <1>7 DEF LedgerInv
<1>9. Len(releases') >= Len(FirstReleases)
  BY <1>2, <1>6 DEF LedgerInv
<1> QED BY <1>1, <1>6, <1>8, <1>9 DEF LedgerInv, BookType, Agrees

LEMMA LedgerKept ==
  ASSUME LedgerInv, [LedgerNext]_ledgerVars
  PROVE  LedgerInv'
<1>1. CASE PlanTargets \/ WebhookAnswers \/ UNCHANGED ledgerVars
  <2>1. UNCHANGED <<releases, book, history, now>>
    BY <1>1 DEF PlanTargets, WebhookAnswers, ledgerVars
  <2> QED BY <2>1 DEF LedgerInv, BookType, Agrees
<1> QED BY <1>1, RecordKeeps, PublishKeeps DEF LedgerNext

(* A planning run writes sound plans whose lanes have states of their own. *)
LEMMA PlanningTells ==
  ASSUME LedgerInv, PlanTargets
  PROVE  /\ \A i \in DOMAIN drafts' : DraftIsSound(drafts'[i])
         /\ \A i, j \in DOMAIN drafts' : i # j => drafts'[i].keys \intersect drafts'[j].keys = {}
<1>1. PICK mode \in {"targets", "line", "alpha"}, useLedger \in BOOLEAN :
        /\ \A i \in DOMAIN Specs(mode) : CanBePlanned(Specs(mode)[i])
        /\ drafts' = [i \in DOMAIN Specs(mode) |-> Draft(Specs(mode)[i], useLedger, draftRun + 1)]
  BY DEF PlanTargets
<1> DEFINE specs == Specs(mode)
<1>2. /\ \A i \in DOMAIN specs : Told(specs[i])
      /\ \A i, j \in DOMAIN specs : specs[i].version = specs[j].version => i = j
  BY SpecsTell
<1>3. /\ \A i \in DOMAIN specs : CanBePlanned(specs[i])
      /\ drafts' = [i \in DOMAIN specs |-> Draft(specs[i], useLedger, draftRun + 1)]
  BY <1>1
<1> HIDE DEF specs
<1>4. DOMAIN drafts' = DOMAIN specs /\ \A i \in DOMAIN specs : drafts'[i] = Draft(specs[i], useLedger, draftRun + 1)
  BY <1>3
<1>5. \A i \in DOMAIN specs : DraftIsSound(drafts'[i]) /\ \A k \in drafts'[i].keys : k[2] = specs[i].version
  <2> SUFFICES ASSUME NEW i \in DOMAIN specs
               PROVE  DraftIsSound(drafts'[i]) /\ \A k \in drafts'[i].keys : k[2] = specs[i].version
    OBVIOUS
  <2> QED BY <1>2, <1>3, <1>4, DraftTells
<1> QED BY <1>2, <1>4, <1>5

\* A planning run by hand loses no lane: what the ledger leaves out has last
\* passed for that target, everything else stays in the plan, each lane with a
\* Terraform state of its own, the upgrade lane goes from the release before
\* the target to the target with an image that was found; and pruning never
\* forgets a target for an older one; for any list of targets, any releases
\* that are published and any number of targets that are kept (buildPlan,
\* applyLedgerSkips, pruneLedgerTargets).
THEOREM LedgerHolds == LedgerSpec => SkippedLanesPassed
<1> DEFINE KeepsAll ==
             /\ drafts' # drafts =>
                  /\ \A i \in DOMAIN drafts' : DraftIsSound(drafts'[i])
                  /\ \A i, j \in DOMAIN drafts' : i # j => drafts'[i].keys \intersect drafts'[j].keys = {}
             /\ \A t \in DOMAIN history', k \in DOMAIN book' :
                  LatestCompleted(history'[t]) > LatestCompleted(book'[k]) => t \in DOMAIN book'
<1>1. LedgerInv /\ [LedgerNext]_ledgerVars => [KeepsAll]_ledgerVars
  <2> SUFFICES ASSUME LedgerInv, LedgerNext PROVE KeepsAll
    OBVIOUS
  <2>1. LedgerInv'
    BY LedgerKept
  <2>2. ASSUME NEW t \in DOMAIN history', NEW k \in DOMAIN book', t \notin DOMAIN book'
        PROVE  ~(LatestCompleted(history'[t]) > LatestCompleted(book'[k]))
    <3>1. LatestCompleted(history'[t]) <= LatestCompleted(book'[k])
      BY <2>1, <2>2 DEF LedgerInv, Agrees
    <3>2. LatestCompleted(history'[t]) \in 0..now' /\ LatestCompleted(book'[k]) \in 0..now' /\ now' \in Nat
      <4>1. BookType(history', now') /\ BookType(book', now') /\ now' \in Nat
        BY <2>1 DEF LedgerInv, BookType
      <4> QED BY <4>1, BookLatest
    <3> QED BY <3>1, <3>2
  <2>3. CASE PlanTargets
    BY <2>2, <2>3, PlanningTells
  <2>4. CASE Record \/ PublishRelease \/ WebhookAnswers
    <3>1. drafts' = drafts
      BY <2>4 DEF Record, PublishRelease, WebhookAnswers
    <3> QED BY <2>2, <3>1
  <2> QED BY <2>3, <2>4 DEF LedgerNext
<1> QED BY <1>1, LedgerStarts, LedgerKept, PTL DEF LedgerSpec, SkippedLanesPassed
=============================================================================
