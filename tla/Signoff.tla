------------------------------- MODULE Signoff -------------------------------
(***************************************************************************)
(* Rancher sign-off: a planner resolves a target to the images of one      *)
(* build and dispatches lanes; each lane resolves and plans once more and  *)
(* runs. Meanwhile builds are published image by image and their aliases   *)
(* move.                                                                   *)
(*                                                                         *)
(* A build is a number, later builds have greater numbers, and its exact   *)
(* tag (vX.Y.Z-COMMIT-head) is that number too. A build's images are kept  *)
(* in its `Home' registry. Tag 0 is the alias that moves.                  *)
(***************************************************************************)
EXTENDS SignoffRules

CONSTANTS
  Builds,       \* builds of one release line, 1..N
  Cases,        \* what may be asked of which registries: [request, flaw, docker]
  Lanes,        \* lanes of the plan, a sequence
  Branches,     \* branches of the repository that workflows are run on
  Inputs,       \* what users give a planner for a kind of target: [branch, rerun, limit, ignored]
  MaxParallel,  \* the greatest max_parallel_lanes that counts
  ListLimit,    \* how many of the newest runs a planner lists
  MaxRuns,      \* bound: lane workflow runs, for every kind of target
  MaxPlans      \* bound: planner workflow runs
ASSUME SignoffAssumption ==
  /\ IsFiniteSet(Builds) /\ Builds = 1..Cardinality(Builds)
  /\ Lanes \in Seq(Range(Lanes)) /\ IsInjective(Lanes)
  /\ Branches # {} /\ MaxParallel \in Nat /\ ListLimit \in Nat
  /\ \A c \in Cases : Inputs[c.request] \subseteq
       [branch : Branches, rerun : BOOLEAN, limit : 0..MaxParallel, ignored : Nat]

VARIABLES
  request,   \* the kind of target: "plain", "minor", "patch", "minorCommit" or "commit"
  flaw,      \* what is wrong with the labels of the newest build
  docker,    \* the builds that are kept in docker.io, the others are in staging
  published, \* <<build, role>> pairs whose exact tag exists
  alias,     \* alias[registry][role]: the build that the alias names, 0 for none
  planner,   \* the planner's program counter and what it has read
  plan,      \* the plan it made, NoPlan before
  runs,      \* lane workflow runs, in the order of their creation
  planRuns   \* planner runs so far

signoffVars == <<request, flaw, docker, published, alias, planner, plan, runs, planRuns>>

PairRoles == {"server", "agent"}
Registries == {"staging", "docker"}
Home == [b \in Builds |-> IF b \in docker THEN "docker" ELSE "staging"]
NewestBuild == Max(Builds)
Alias == 0
Commit == Min(Builds)  \* the build that a request with a commit names

PatchQualified == request \in {"patch", "commit"}
RegistryOrder == CASE request = "plain" -> <<"docker">>
                   [] PatchQualified -> <<"staging">>
                   [] OTHER -> <<"staging", "docker">>
Requested == IF request \in {"minorCommit", "commit"} THEN Commit ELSE Alias

(* The labels of an image: what inspectOCIImage reads.                     *)
Image(b, role) ==
  LET bad(f) == flaw = f /\ b = NewestBuild
  IN [build |-> b,
      tag |-> CASE bad("noReference") -> 0
                [] bad("mismatch") /\ role = "agent" -> Commit
                [] OTHER -> b,
      patch |-> ~bad("wrongPatch"),
      repository |-> ~bad("wrongRepository"),
      prime |-> Home[b] = "staging" /\ ~bad("community"),
      revision |-> IF bad("wrongRevision") THEN 0 ELSE b,
      created |-> IF bad("noCreated") THEN 0 ELSE b,
      digest |-> b]
NoImage == [Image(NewestBuild, "server") EXCEPT !.build = 0]

(* What a registry answers. An exact tag that was pushed again after the   *)
(* alias moved has another digest.                                         *)
Inspect(registry, tag, role) ==
  IF tag = Alias
  THEN IF alias[registry][role] = 0 THEN NoImage ELSE Image(alias[registry][role], role)
  ELSE IF Home[tag] # registry \/ <<tag, role>> \notin published THEN NoImage
       ELSE [Image(tag, role) EXCEPT !.digest = IF flaw = "rebuilt" THEN -tag ELSE tag]

(* Without the comparison of the two tags.                                *)
LaxPairValid(tag, server, agent) == server.tag # 0 /\ agent.tag # 0
PairValid(tag, server, agent) ==
  /\ server.tag # 0 /\ agent.tag # 0
  /\ server.tag = agent.tag
  /\ server.repository /\ agent.repository
  /\ tag # Alias => server.tag = tag

(* The provenance checks at the end of a resolution.                       *)
Provenance(server, tag) ==
  /\ PatchQualified => server.prime
  /\ server.revision # 0
  /\ server.revision = tag

CanonicalFits(server) == request # "patch" \/ server.patch

NoPlan == [build |-> 0, server |-> 0, agent |-> 0, distro |-> Nothing]
PlanOf(server, agent) ==
  [build |-> server.tag, server |-> server.build, agent |-> agent.build,
   distro |-> IF PatchQualified \/ server.prime THEN "prime" ELSE "auto"]

AnyBranch == CHOOSE b \in Branches : TRUE
Idle == [pc |-> "idle", at |-> 1, tag |-> Alias, server |-> NoImage, first |-> <<>>,
         listed |-> {}, complete |-> {}, found |-> {}, queue |-> {},
         branch |-> AnyBranch, rerun |-> FALSE, unseen |-> {}]

SignoffInit ==
  /\ \E c \in Cases : request = c.request /\ flaw = c.flaw /\ docker = c.docker
  /\ published = {} /\ alias = [r \in Registries |-> [o \in PairRoles |-> 0]]
  /\ planner = Idle /\ plan = NoPlan /\ runs = <<>> /\ planRuns = 0

-----------------------------------------------------------------------------
(* The registries: an image of a build appears, an alias moves forward.    *)
Publish == \E b \in Builds, o \in PairRoles :
  /\ <<b, o>> \notin published
  /\ published' = published \union {<<b, o>>}
  /\ UNCHANGED <<request, flaw, docker, alias, planner, plan, runs, planRuns>>

MoveAlias == \E b \in Builds, o \in PairRoles :
  /\ <<b, o>> \in published
  /\ request \in {"plain", "minor"}
  /\ alias[Home[b]][o] < b
  /\ alias' = [alias EXCEPT ![Home[b]][o] = b]
  /\ UNCHANGED <<request, flaw, docker, published, planner, plan, runs, planRuns>>

-----------------------------------------------------------------------------
(* The planner's resolution: one registry call a step.                     *)
Step(next) == planner' = next /\ UNCHANGED <<request, flaw, docker, published, alias, runs, planRuns>>
Give == planner' = Idle /\ UNCHANGED <<request, flaw, docker, published, alias, plan, runs, planRuns>>
FoundPair(server, agent) ==
  plan' = PlanOf(server, agent) /\ Step([Idle EXCEPT !.pc = "snapshot", !.complete = planner.complete])

BeginPlan ==
  /\ planner.pc = "idle" /\ planRuns < MaxPlans
  /\ planRuns' = planRuns + 1
  /\ plan' = NoPlan
  /\ planner' = [Idle EXCEPT !.pc = IF request = "patch" THEN "list" ELSE "server", !.tag = Requested]
  /\ UNCHANGED <<request, flaw, docker, published, alias, runs>>

(* A pair that is not complete in a registry sends the planner to the next.*)
NextRegistry ==
  IF planner.first = <<>> /\ planner.at < Len(RegistryOrder)
  THEN Step([planner EXCEPT !.pc = "server", !.at = @ + 1]) /\ UNCHANGED plan
  ELSE Give

ReadServer ==
  /\ planner.pc = "server"
  /\ LET image == Inspect(RegistryOrder[planner.at], planner.tag, "server")
     IN IF image.build = 0 THEN NextRegistry
        ELSE Step([planner EXCEPT !.pc = "agent", !.server = image]) /\ UNCHANGED plan

(* A valid pair of an alias is read again by its exact tag.                *)
ReadAgent ==
  /\ planner.pc = "agent"
  /\ LET agent == Inspect(RegistryOrder[planner.at], planner.tag, "agent")
         server == planner.server
         moved == /\ planner.first # <<>>
                  /\ \/ planner.first[1].digest # server.digest
                     \/ planner.first[2].digest # agent.digest
     IN CASE agent.build = 0 -> NextRegistry
          [] agent.build # 0 /\ (~PairValid(planner.tag, server, agent) \/ moved) -> Give
          [] agent.build # 0 /\ PairValid(planner.tag, server, agent) /\ planner.tag = Alias ->
               Step([planner EXCEPT !.pc = "server", !.tag = server.tag, !.first = <<server, agent>>])
                 /\ UNCHANGED plan
          [] OTHER -> IF Provenance(server, planner.tag) THEN FoundPair(server, agent) ELSE Give

(* A patch alias is resolved through the tags of its patch.                *)
ListTags ==
  /\ planner.pc = "list"
  /\ LET tags == {b \in Builds : Home[b] = "staging" /\ <<b, "server">> \in published}
     IN Step([planner EXCEPT !.pc = "inspect", !.listed = tags \X {"server"},
                !.complete = {b \in tags : <<b, "agent">> \in published}])
  /\ UNCHANGED plan

(* A worker inspects a tag's server image and then its agent image. What   *)
(* is incomplete or does not fit is passed over.                           *)
InspectTag == \E b \in Builds, o \in PairRoles :
  /\ planner.pc = "inspect" /\ <<b, o>> \in planner.listed
  /\ LET image == Inspect("staging", b, o)
         fits == IF o = "server"
                 THEN /\ image.created # 0 /\ image.tag = b /\ CanonicalFits(image)
                      /\ image.prime /\ image.revision = b
                 ELSE image.created # 0 /\ PairValid(b, Inspect("staging", b, "server"), image)
         rest == planner.listed \ {<<b, o>>}
     IN Step([planner EXCEPT
          !.listed = IF o = "server" /\ image.build # 0 /\ fits THEN rest \union {<<b, "agent">>} ELSE rest,
          !.found = IF o = "agent" /\ image.build # 0 /\ fits THEN @ \union {b} ELSE @])
  /\ UNCHANGED plan

(* The newest complete pair; equal times by tag.                           *)
ChooseTag ==
  /\ planner.pc = "inspect" /\ planner.listed = {}
  /\ IF planner.found = {} THEN Give
     ELSE LET b == Max(planner.found) IN FoundPair(Image(b, "server"), Image(b, "agent"))

(* A registry, GitHub or the webhook's registry fails, or no previous      *)
(* release, webhook build or webhook image is found: there is no plan.     *)
PlanFails == planner.pc \in {"server", "agent", "list", "inspect"} /\ Give

-----------------------------------------------------------------------------
(* Without the runs that wait.                                             *)
ActiveRunning == {"running"}
Active == {"queued", "running"}
Title(r) == <<r.version, r.lane>>
Titles(numbers) == {Title(runs[i]) : i \in numbers}
Mutable == Requested = Alias

(* One look at the newest runs decides what is dispatched: the first of   *)
(* the lanes that are wanted, as many as there is room for. The user who  *)
(* starts a planner gives its branch, whether successful lanes are run    *)
(* again, how many may run (0: nothing is dispatched), and an active run  *)
(* that is to be ignored (0: none). `unseen' records the runs that this   *)
(* planner does not take into account.                                    *)
Snapshot == \E given \in Inputs[request] :
  /\ planner.pc = "snapshot"
  /\ LET newest == {i \in DOMAIN runs : Len(runs) - i < ListLimit}
         active == {i \in newest \ {given.ignored} : runs[i].status \in Active}
         passed == {i \in newest : runs[i].status = "success" /\ runs[i].branch = given.branch}
         Wanted(l) == /\ <<Requested, l>> \notin Titles(active)
                      /\ given.rerun \/ Mutable \/ <<Requested, l>> \notin Titles(passed)
         wanted == {i \in DOMAIN Lanes : Wanted(Lanes[i])}
         room == given.limit - Cardinality(active)
     IN Step([Idle EXCEPT !.pc = "dispatch", !.branch = given.branch, !.rerun = given.rerun,
                !.queue = {i \in wanted : Cardinality({j \in wanted : j < i}) < room},
                !.unseen = (DOMAIN runs \ newest) \union {i \in {given.ignored} \intersect DOMAIN runs :
                                                         runs[i].status \in Active}])
  /\ UNCHANGED plan

(* A run waits for the run with its title; a run that waited is dropped    *)
(* when another one comes.                                                 *)
Added(run) ==
  /\ Len(runs) < MaxRuns[request]
  /\ runs' = Append([i \in DOMAIN runs |->
       IF Title(runs[i]) = Title(run) /\ runs[i].status = "queued"
       THEN [runs[i] EXCEPT !.status = "cancelled"] ELSE runs[i]], run)

NewRun(lane, branch, resolved) ==
  [version |-> Requested, lane |-> lane, branch |-> branch, resolved |-> resolved, planned |-> 0,
   rerun |-> FALSE, unseen |-> {}, status |-> "queued", server |-> 0, agent |-> 0]

Dispatch ==
  /\ planner.pc = "dispatch" /\ planner.queue # {}
  /\ Added([NewRun(Lanes[Min(planner.queue)], planner.branch, plan.build) EXCEPT
              !.planned = plan.build, !.rerun = planner.rerun, !.unseen = planner.unseen])
  /\ planner' = [planner EXCEPT !.queue = @ \ {Min(@)}]
  /\ UNCHANGED <<request, flaw, docker, published, alias, plan, planRuns>>

EndDispatch ==
  /\ planner.pc = "dispatch"
  /\ planner.queue = {} \/ Len(runs) = MaxRuns[request]
  /\ Give

(* A user starts a lane directly, with or without a resolution.            *)
StartByHand == \E l \in Range(Lanes), branch \in {given.branch : given \in Inputs[request]}, resolved \in {0, NewestBuild} :
  /\ Added(NewRun(l, branch, resolved))
  /\ UNCHANGED <<request, flaw, docker, published, alias, planner, plan, planRuns>>

SetRun(i, run) ==
  /\ runs' = [runs EXCEPT ![i] = run]
  /\ UNCHANGED <<request, flaw, docker, published, alias, planner, plan, planRuns>>

(* The concurrency group admits one run of a title.                        *)
RunLane == \E i \in DOMAIN runs :
  /\ runs[i].status = "queued"
  /\ ~\E j \in DOMAIN runs : runs[j].status = "running" /\ Title(runs[j]) = Title(runs[i])
  /\ SetRun(i, [runs[i] EXCEPT !.status = "running"])

(* The resolution handed over must fit the request.                        *)
ResolvedFits(resolved) == Mutable \/ resolved = Requested

(* A lane that forgets the resolution it was given.                        *)
AliasLaneTarget(run) == run.version
(* The lane plans again, for the resolution it was given or, when there is *)
(* none, for the request; that resolution is one step here.                *)
LaneTarget(run) == IF run.resolved # 0 THEN run.resolved ELSE run.version
Position(b) == CHOOSE i \in DOMAIN RegistryOrder : RegistryOrder[i] = Home[b]
Resolution(tag) ==
  LET Complete(b) ==
        LET server == Inspect(Home[b], b, "server")
            agent == Inspect(Home[b], b, "agent")
        IN /\ Home[b] \in Range(RegistryOrder)
           /\ server.build # 0 /\ agent.build # 0
           /\ PairValid(b, server, agent) /\ Provenance(server, b) /\ CanonicalFits(server)
      Named(b) == \/ tag = b
                  \/ tag = Alias /\ request = "patch" /\ Image(b, "server").created # 0
                  \/ tag = Alias /\ \A o \in PairRoles : alias[Home[b]][o] = b
      fits == {b \in Builds : Complete(b) /\ Named(b)}
  IN {b \in fits : \A c \in fits : \/ Position(b) < Position(c)
                                   \/ Position(b) = Position(c) /\ b >= c}

LanePlans == \E i \in DOMAIN runs :
  /\ runs[i].status = "running" /\ runs[i].server = 0
  /\ runs[i].resolved # 0 => ResolvedFits(runs[i].resolved)
  /\ \E b \in Resolution(LaneTarget(runs[i])) :
       SetRun(i, [runs[i] EXCEPT !.server = b, !.agent = b])

LaneEnds == \E i \in DOMAIN runs, status \in {"success", "failure"} :
  /\ runs[i].status = "running"
  /\ status = "success" => runs[i].server # 0
  /\ SetRun(i, [runs[i] EXCEPT !.status = status])

PlanningNext == \/ BeginPlan \/ ReadServer \/ ReadAgent \/ ListTags \/ InspectTag \/ ChooseTag
               \/ PlanFails \/ Snapshot \/ Dispatch \/ EndDispatch
SignoffNext == PlanningNext \/ Publish \/ MoveAlias \/ StartByHand \/ RunLane \/ LanePlans \/ LaneEnds

(* A plan's images are the server and the agent of the one build that the  *)
(* resolved tag names, with the provenance that the target asks for; a     *)
(* patch alias is never resolved to a build older than one that was already*)
(* complete when the tags were listed. Aliases move and images appear      *)
(* between any two of the planner's calls.                                 *)
Sound(b) == LET server == Image(b, "server") IN
  /\ server.tag = b /\ Image(b, "agent").tag = b /\ server.repository /\ server.revision = b
  /\ PatchQualified => server.prime
  /\ request = "patch" => server.patch /\ server.created # 0
PlannedPairIsOneBuild ==
  /\ plan.build # 0 => plan.server = plan.build /\ plan.agent = plan.build /\ Sound(plan.build)
  /\ planner.pc = "snapshot" => \A b \in planner.complete : Sound(b) => plan.build >= b

(* A lane installs the build that was planned when it was dispatched, even *)
(* when its alias has moved since, and a lane of an immutable target never *)
(* installs another one, whatever resolution it was started with.          *)
LanesRunThePlan == \A r \in Range(runs) : r.server # 0 =>
  /\ r.server = r.agent
  /\ r.planned # 0 => r.server = r.planned
  /\ r.version # Alias => r.server = r.version

(* Of two lanes of an immutable target that planners dispatched with one   *)
(* title, the first has failed or was cancelled, or the planner of the     *)
(* second did not take it into account (it was told to ignore that run, or *)
(* newer runs had pushed it from the list), or the first has succeeded and *)
(* the second was planned on another branch or told to run successful lanes*)
(* again. The lanes that planners dispatched and that no later one left out*)
(* of account never exceed what may run together. Lanes end, are started by*)
(* hand and replace each other while a planner dispatches.                 *)
LanesAreNotRepeated ==
  LET mine == {i \in DOMAIN runs : runs[i].planned # 0}
      leftOut == UNION {runs[i].unseen : i \in mine}
  IN /\ \A i, j \in mine :
          i < j /\ Title(runs[i]) = Title(runs[j]) /\ runs[i].version # Alias =>
            \/ runs[i].status \in {"failure", "cancelled"}
            \/ i \in runs[j].unseen
            \/ runs[i].status = "success" /\ (runs[j].rerun \/ runs[i].branch # runs[j].branch)
     /\ Cardinality({i \in mine \ leftOut : runs[i].status \in Active}) <= MaxParallel

SignoffSpec == SignoffInit /\ [][SignoffNext]_signoffVars

=============================================================================
