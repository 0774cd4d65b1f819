----------------------------- MODULE RancherPlan -----------------------------
(***************************************************************************)
(* The planner of the auto mode.  For every requested Rancher version it   *)
(* chooses a chart, a released version to look compatibility up with, the  *)
(* server and the agent image, and the RKE2 line; the registries may gain  *)
(* a head between two plans of one resolution.                             *)
(*                                                                         *)
(* A request is a version, or a custom image whose tag is that version.    *)
(* A chart index is a function from a repository to its rows, newest first;*)
(* a row has the version of the chart and that of the app it carries.      *)
(***************************************************************************)
EXTENDS ImagePairs

CONSTANTS
  Asks        \* the configurations: what is asked, of which distro, with which charts

ReleaseRepos == {"latest", "prime"}
ChartRepos == ReleaseRepos \union {"optimusLatest", "optimusAlpha", "alpha"}

-----------------------------------------------------------------------------
(* The version that a custom tag suggests: any tag that starts with a line *)
(* counts as a head of that line, the others as the plain head.            *)
Hint(tag) == CASE tag.kind = "suffixed" -> Ver("lineHead", tag.line, 0, 0)
               [] tag.kind = "opaque" -> Ver("head", 0, 0, 0)
               [] OTHER -> tag

HeadKinds == {"head", "lineHead", "patchHead", "commitHead", "primeCommit"}
KnownKinds == HeadKinds \union {"alpha", "rc", "rcs", "release"}
(* A custom image is a head whatever its tag looks like.                   *)
BuildType(ask) == IF ask.custom \/ ask.version.kind \in HeadKinds THEN "head" ELSE ask.version.kind
Line(ask) == Hint(ask.version).line
Classified(ask) == ask.custom \/ ask.version.kind \in KnownKinds
(* A reference to an image that is neither a server nor an agent is refused*)
(* before anything is looked up.                                           *)
CustomIsRancher(ask) == ask.custom => ask.names \in {"rancher", "rancher-agent"}

Own(ask, kinds) == ~ask.custom /\ ask.version.kind \in kinds
EffectiveDistro(distro, ask) ==
  IF distro = "auto" /\ Own(ask, {"patchHead", "primeCommit"}) THEN "prime" ELSE distro
DistroAllowed(distro, ask) ==
  /\ ~(distro = "community" /\ Own(ask, {"patchHead", "primeCommit"}))
  /\ distro = "prime" => \/ BuildType(ask) = "release"
                         \/ ask.custom
                         \/ Own(ask, {"patchHead", "primeCommit"})

(* The chart repositories to try, in order, and the images' distro.        *)
Staged == {"alpha", "rc", "rcs"}
Sources(distro, build) ==
  LET community == CASE build = "alpha" -> <<"optimusAlpha", "optimusLatest", "alpha", "latest">>
                     [] build \in {"rc", "rcs"} -> <<"optimusLatest", "latest">>
                     [] OTHER -> <<"latest", "optimusLatest">>
  IN CASE distro = "prime" /\ build = "head" -> <<"prime", "latest", "optimusLatest">>
       [] distro = "prime" /\ build # "head" -> <<"prime">>
       [] distro = "community" -> community
       [] distro = "auto" /\ build = "head" -> community \o <<"prime">>
       [] distro = "auto" /\ build = "release" -> <<"prime", "optimusLatest", "latest">>
       [] OTHER -> <<"prime">> \o community
ResolvedDistro(distro, build) ==
  IF distro = "prime" THEN "prime" ELSE IF build \in Staged THEN "community-staging" ELSE "community"

-----------------------------------------------------------------------------
(* One resolution searches the charts once.  The search of all charts is   *)
(* read where it worked and has the repository; the repository's own search*)
(* is kept, a failure included.                                            *)
NewSession == [loaded |-> FALSE, failed |-> {}]
Loaded(s) == [s EXCEPT !.loaded = TRUE]
RepoFails(s, ask, repo) ==
  \/ repo \in s.failed
  \/ repo \in ask.down /\ ~(s.loaded /\ "all" \notin ask.down /\ ask.charts[repo] # <<>>)
Rows(s, ask, repo) == IF RepoFails(s, ask, repo) THEN <<>> ELSE ask.charts[repo]
Searched(s, ask, repos) == [s EXCEPT !.failed = @ \union {r \in repos : RepoFails(s, ask, r)}]

Versions(rows) == {rows[i].version : i \in DOMAIN rows}
Releases(rows) == {v \in Versions(rows) : v.kind = "release"}
ReleaseLess(v, w) == v.line < w.line \/ (v.line = w.line /\ v.patch < w.patch)
Newest(releases) ==
  IF releases = {} THEN NoVer ELSE CHOOSE v \in releases : ~\E w \in releases : ReleaseLess(v, w)
LatestRelease(rows) == Newest(Releases(rows))
LatestMinorRelease(rows, line) == Newest({v \in Releases(rows) : v.line = line})

ReleasedBaseline(s, ask, line) ==
  Newest({v \in UNION {Releases(Rows(s, ask, r)) : r \in ReleaseRepos} : v.line = line})
(* The newest release of any line.                                         *)
AnyLineBaseline(s, ask, line) == Newest(UNION {Releases(Rows(s, ask, r)) : r \in ReleaseRepos})
(* The newest release of the line, else of the line before it.             *)
Baseline(s, ask, line) ==
  IF ReleasedBaseline(s, ask, line) # NoVer \/ line = 0 THEN ReleasedBaseline(s, ask, line)
  ELSE ReleasedBaseline(s, ask, line - 1)

NoChart == [repo |-> None, version |-> NoVer, baseline |-> NoVer]
Or(v, w) == IF v # NoVer THEN v ELSE w
(* The first candidate that has the version as its chart's or its app's.   *)
GlobalMatch(ask, repos, want) ==
  LET rows(r) == ask.charts[r]
      Hits(r) == {i \in DOMAIN rows(r) : want \in {rows(r)[i].version, rows(r)[i].app}}
      found == {k \in DOMAIN repos : Hits(repos[k]) # {}}
      repo == repos[Min(found)]
  IN IF "all" \in ask.down \/ found = {} THEN NoChart
     ELSE [NoChart EXCEPT !.repo = repo, !.version = rows(repo)[Min(Hits(repo))].version]

(* What one repository offers: the version itself, the newest release of   *)
(* its line, or the release compatibility is looked up with, in that order.*)
Offers(s, ask, repo, want, build, line) ==
  LET rows == Rows(s, ask, repo)
      base == Baseline(s, ask, line)
      minor == LatestMinorRelease(rows, line)
      Offer(rank, version, baseline) == [rank |-> rank, version |-> version, baseline |-> baseline]
  IN {o \in {Offer(0, want, IF build = "release" THEN want ELSE Or(base, want))} : want \in Versions(rows)}
       \union {o \in {Offer(1, minor, Or(base, minor))} : build # "release" /\ minor # NoVer}
       \union {o \in {Offer(2, base, base)} : build # "release" /\ base \in Versions(rows)}

(* The lowest rank wins, and of equal ranks the first repository.          *)
Best(repos, offers) ==
  LET best == CHOOSE x \in offers : \A y \in offers :
                x[2].rank < y[2].rank \/ (x[2].rank = y[2].rank /\ x[1] <= y[1])
  IN IF offers = {} THEN NoChart
     ELSE [repo |-> repos[best[1]], version |-> best[2].version, baseline |-> best[2].baseline]
BestOffer(s, ask, repos, want, build, line) ==
  Best(repos, UNION {{<<k, o>> : o \in Offers(s, ask, repos[k], want, build, line)} : k \in DOMAIN repos})

(* The plain head takes the newest community release and searches nothing  *)
(* else.                                                                   *)
Chart(s, ask, repos, want, build, line) ==
  IF build = "head" /\ want.kind = "head"
  THEN LET newest == LatestRelease(Rows(s, ask, "latest"))
       IN IF newest = NoVer THEN NoChart ELSE [repo |-> "latest", version |-> newest, baseline |-> newest]
  ELSE LET hit == GlobalMatch(ask, repos, want)
       IN IF hit = NoChart THEN BestOffer(s, ask, repos, want, build, line)
          ELSE [hit EXCEPT !.baseline =
                  IF build = "release" THEN want ELSE Or(Baseline(s, ask, line), want)]

-----------------------------------------------------------------------------
(* Where images come from.  `server' and `agent' name a registry, None for *)
(* the chart's own; an agent is always named with its tag.                 *)
NoAgent == [registry |-> None, tag |-> NoVer]
Images(server, tag, agent) == [server |-> server, tag |-> tag, agent |-> agent]
NoImages == Images(None, NoVer, NoAgent)
Agent(r, tag) == [registry |-> r, tag |-> tag]

ImageSettings(v, build, distro) ==
  CASE distro = "prime" /\ build = "release" -> Images("prime", NoVer, NoAgent)
    [] distro = "prime" /\ build # "release" -> Images("prime", v, NoAgent)
    [] distro = "community-staging" -> Images("staging", v, Agent("staging", v))
    [] distro = "community" /\ build = "release" -> NoImages
    [] OTHER -> Images(None, v, NoAgent)

(* The heads of one commit: the first registry that has both, staging only *)
(* for a Prime head; a lookup that fails is a miss.                        *)
CommitHeadImages(read, v) ==
  LET registries == <<"staging">> \o (IF v.kind = "primeCommit" THEN <<>> ELSE <<"docker", "prime">>)
      both == {i \in DOMAIN registries : \A role \in {"server", "agent"} : Found(read, registries[i], role, v)}
      r == registries[Min(both)]
  IN IF both = {} THEN NoImages ELSE Images(r, v, Agent(r, v))

(* A tag without a registry is looked for on Docker Hub.                   *)
ValidImages(read, im) ==
  /\ im.tag # NoVer => Found(read, IF im.server = None THEN "docker" ELSE im.server, "server", im.tag)
  /\ im.agent # NoAgent => Found(read, im.agent.registry, "agent", im.agent.tag)

(* Community charts know where their images are.                           *)
TagOnly(ask, build, repo) ==
  /\ ~ask.custom /\ build # "release" /\ repo = "latest"
  /\ ask.version.kind \notin {"commitHead", "primeCommit", "patchHead", "rcs"}

(* The images of an ask that no registry was preferred for, before its     *)
(* chart is considered.                                                    *)
ChosenImages(read, ask, override, build, distro) ==
  LET v == ask.version
      default == IF ask.custom THEN Images(ask.registry, v, Agent(ask.registry, v))
                 ELSE ImageSettings(v, build, distro)
  IN CASE Own(ask, {"commitHead", "primeCommit"}) -> CommitHeadImages(read, v)
       [] ~Own(ask, {"commitHead", "primeCommit"}) /\ override # NoAgent -> [default EXCEPT !.agent = override]
       [] OTHER -> default
(* What the chart makes of them: a chart of the very version needs no      *)
(* override, or none when the override is not to be had.                   *)
ImagesForChart(read, ask, chart, build, im) ==
  LET exact == build # "release" /\ ~ask.custom /\ chart.version = ask.version /\ ask.version.kind # "rcs"
  IN CASE TagOnly(ask, build, chart.repo) -> Images(None, im.tag, NoAgent)
       [] exact /\ chart.repo = "prime" -> NoImages
       [] build = "release" /\ chart.repo = "prime" /\ ~ask.custom -> [im EXCEPT !.server = "prime"]
       [] /\ exact /\ chart.repo \in {"alpha", "latest"}
          /\ ~TagOnly(ask, build, chart.repo) /\ ~ValidImages(read, im) -> Images(None, im.tag, NoAgent)
       [] OTHER -> im

-----------------------------------------------------------------------------
(* The flags of the Helm command.  Charts with image fields take registry  *)
(* and repository apart; the Prime chart's default registry is cleared when*)
(* the agent comes from elsewhere.                                         *)
HelmFlags(repo, im, fields) ==
  [style |-> IF fields THEN "image" ELSE "rancherImage",
   server |-> im.server, tag |-> im.tag, agent |-> im.agent,
   clear |-> repo = "prime" /\ im.agent # NoAgent /\ im.agent.registry # "prime"]
(* Only a values file with both keys in its top-level image block counts.  *)
HasImageFields(ask, chart) == ask.fields[chart.repo] = {"repository", "tag"}
HelmOperation(operation, repo, chart, im, fields, servers) ==
  [operation |-> operation, chart |-> <<repo, chart>>, flags |-> HelmFlags(repo, im, fields),
   hooksFrom |-> IF operation = "upgrade" THEN "prime" ELSE None,
   waits |-> operation = "upgrade", replicas |-> IF servers = 1 THEN 1 ELSE 0]

-----------------------------------------------------------------------------
(* The support matrix: `pages' has the answer for each released version. A *)
(* page that is missing, or redirected to another version's, is replaced by*)
(* the nearest published one of the line, the older of two as near, or by  *)
(* the newest of the latest earlier line.                                  *)
Distance(v, w) == IF v.patch > w.patch THEN v.patch - w.patch ELSE w.patch - v.patch
MatrixFallback(want, listed) ==
  LET same == {v \in listed \ {want} : v.line = want.line}
      Nearer(v, w) == Distance(v, want) < Distance(w, want)
                        \/ (Distance(v, want) = Distance(w, want) /\ v.patch < w.patch)
  IN IF same # {} THEN CHOOSE v \in same : ~\E w \in same : Nearer(w, v)
     ELSE Newest({v \in listed : v.line < want.line})
MatrixPage(matrix, want) ==
  LET own == matrix.pages[want]
      other == MatrixFallback(want, matrix.listed)
  IN CASE own = "page" -> want
       [] own \in {"missing", "redirect"} /\ matrix.index /\ other # NoVer /\ matrix.pages[other] = "page" -> other
       [] OTHER -> NoVer
(* The highest RKE2 minor of the page, or the one remembered for its URL.  *)
HighestRKE2(matrix, want) ==
  LET page == MatrixPage(matrix, want)
      url == Or(page, want)
  IN IF page # NoVer /\ matrix.range[page] # 0 THEN matrix.range[page] ELSE matrix.remembered[url]

-----------------------------------------------------------------------------
(* What the configuration asks: a list with one entry per HA, or a single  *)
(* entry for one HA.                                                       *)
PerHA(list, single, total) ==
  IF list # <<>> THEN (IF Len(list) = total THEN list ELSE <<>>)
  ELSE IF total = 1 /\ single # <<>> THEN single ELSE <<>>
Mode(config) ==
  IF config.mode # "" THEN config.mode
  ELSE IF config.list \o config.single # <<>> /\ config.commands = <<>> THEN "auto" ELSE "manual"
Overrides(config) ==
  LET given == config.agents
  IN IF given = <<>> THEN [i \in 1..config.total |-> NoAgent] ELSE given

\* A request is for a version that the registries can be asked about, a custom
\* one names its registry; charts carry versions of Rancher.
Request == [custom : BOOLEAN, names : {"rancher", "rancher-agent", "other", None},
            registry : DOMAIN Registry \union {None}, version : StagingTags]
AgentImage == {NoAgent} \union [registry : DOMAIN Registry, tag : StagingTags]
Charted == {v \in VersionRecord : v.kind # None}
ASSUME AskAssumption ==
  /\ {"staging", "docker", "prime"} \subseteq DOMAIN Registry /\ None \notin DOMAIN Registry
  /\ \A a \in Asks :
       /\ a.list \in Seq(Request) /\ a.single \in Seq(Request) /\ Len(a.single) <= 1 /\ a.total \in Nat
       /\ \A x \in Range(a.list) \union Range(a.single) : x.custom => x.registry # None
       /\ a.agents \in Seq(AgentImage) /\ a.preferred \in Seq(DOMAIN Registry)
       /\ a.charts \in [ChartRepos -> Seq([version : Charted, app : Charted])]
       /\ a.matrix.listed \subseteq VersionRecord /\ IsFiniteSet(a.matrix.listed)

VARIABLES
  ask,        \* the configuration
  session,    \* the chart searches of this resolution
  early,      \* the pair verified for each HA before any chart is searched
  pins,       \* the heads that patch selectors were resolved to
  plans,      \* the plans made so far, one per HA
  outcome     \* "running", "planned" or "failed"
planVars == <<ask, registry, session, early, pins, plans, outcome>>

Asked == PerHA(ask.list, ask.single, ask.total)
Acceptable ==
  /\ Mode(ask) = "auto" /\ Asked # <<>> /\ ask.password
  /\ Len(Overrides(ask)) = ask.total

PlanInit ==
  /\ ask \in Asks
  /\ registry = Registry
  /\ session = NewSession
  /\ early = <<>> /\ pins = {} /\ plans = <<>>
  /\ outcome = "running"

Fail == outcome' = "failed" /\ UNCHANGED <<ask, registry, session, early, pins, plans>>

Refuse == outcome = "running" /\ early = <<>> /\ ~Acceptable /\ Fail

CheckedFirst(i, a) ==
  LET distro == EffectiveDistro(ask.distro, a)
  IN /\ CustomIsRancher(a) /\ Classified(a)
     /\ DistroAllowed(distro, a)
     /\ ~(ask.preferred # <<>> /\ Overrides(ask)[i] # NoAgent /\ ~a.custom)
     /\ Own(a, {"patchHead", "primeCommit"}) /\ ask.preferred # <<>> => Contains(ask.preferred, "staging")
(* The registries to verify a pair in before charts are looked at.         *)
EarlyRegistries(a) ==
  CASE Own(a, {"primeCommit"}) -> <<"staging">>
    [] ~a.custom /\ a.version.kind \notin {"primeCommit", "patchHead"} -> ask.preferred
    [] OTHER -> <<>>

CheckNext ==
  LET i == Len(early) + 1
      a == Asked[i]
      registries == EarlyRegistries(a)
  IN /\ outcome = "running" /\ Acceptable /\ i <= Len(Asked)
     /\ \E read \in Readings :
          LET pair == PreferredPair(a.version, registries, read)
          IN IF CheckedFirst(i, a) /\ (registries # <<>> => pair # NoPair)
             THEN /\ early' = Append(early, pair)
                  /\ UNCHANGED <<ask, registry, session, pins, plans, outcome>>
             ELSE Fail

(* Each plan resolves its selector anew.                                   *)
FreshPairFor(i, read) ==
  LET v == Asked[i].version
      listed == {w \in DOMAIN read["staging"]["server"] : read["staging"]["server"][w].status # "missing"}
      pin == Bundle(v, listed, read["staging"], TRUE, TRUE)
  IN IF ~Own(Asked[i], {"patchHead"}) THEN early[i]
     ELSE IF pin = NoVer THEN NoPair ELSE [registry |-> "staging", version |-> pin]

(* The pair that a plan takes: the selector's pin, read once a resolution, *)
(* or the pair verified first.                                             *)
PairFor(i, read) ==
  LET v == Asked[i].version
      kept == {p \in pins : p.want = v}
      listed == {w \in DOMAIN read["staging"]["server"] : read["staging"]["server"][w].status # "missing"}
      pin == IF kept # {} THEN (CHOOSE p \in kept : TRUE).got
             ELSE Bundle(v, listed, read["staging"], TRUE, TRUE)
  IN IF ~Own(Asked[i], {"patchHead"}) THEN early[i]
     ELSE IF pin = NoVer THEN NoPair ELSE [registry |-> "staging", version |-> pin]

(* What has to hold for a plan, beyond what was checked first.             *)
SoundPlan(i, read, plan) ==
  LET a == Asked[i]
      override == Overrides(ask)[i]
      im == plan.images
  IN /\ Own(a, {"patchHead"}) => plan.pair # NoPair
     /\ plan.chart # NoChart
     /\ override # NoAgent => a.custom \/ Own(a, {"rcs"})
     /\ Own(a, {"commitHead"}) /\ plan.pair = NoPair => CommitHeadImages(read, a.version) # NoImages
     /\ a.custom => ExplicitPair(a.version, read[im.server]["server"][im.tag],
                                 read[im.agent.registry]["agent"][im.agent.tag])
     /\ ~a.custom /\ plan.pair = NoPair => ValidImages(read, im)
     /\ ask.fields[plan.chart.repo] # {"unreadable"}
     /\ ask.hosted \/ plan.rke2 # 0
(* A pair gives the version and the images, then its chart the rest.       *)
PlanForChart(i, read, pair, want, chart) ==
  LET a == Asked[i]
      build == BuildType(a)
      distro == ResolvedDistro(EffectiveDistro(ask.distro, a), build)
  IN [chart |-> chart, want |-> want, pair |-> pair, helm |-> None,
      images |-> IF pair # NoPair THEN Images(pair.registry, pair.version, Agent(pair.registry, pair.version))
                 ELSE ImagesForChart(read, a, chart, build,
                        ChosenImages(read, a, Overrides(ask)[i], build, distro)),
      rke2 |-> IF ask.hosted THEN 0 ELSE HighestRKE2(ask.matrix, chart.baseline)]
PlanForPair(i, read, pair) ==
  LET a == Asked[i]
      want == IF a.custom THEN Hint(a.version) ELSE Or(pair.version, a.version)
  IN PlanForChart(i, read, pair, want,
       Chart(IF want.kind = "head" THEN session ELSE Loaded(session), ask,
             Sources(EffectiveDistro(ask.distro, a), BuildType(a)), want, BuildType(a), Line(a)))
PlanFor(i, read) == PlanForPair(i, read, PairFor(i, read))
WithHelm(plan) ==
  [plan EXCEPT !.helm = HelmOperation("install", plan.chart.repo, plan.chart.version, plan.images,
                                      HasImageFields(ask, plan.chart), ask.servers)]

PlanNext ==
  LET i == Len(plans) + 1
      a == Asked[i]
      plain == BuildType(a) = "head" /\ Hint(a.version).kind = "head"
      searched == IF plain THEN {"latest"}
                  ELSE Range(Sources(EffectiveDistro(ask.distro, a), BuildType(a))) \union ReleaseRepos
  IN /\ outcome = "running" /\ Acceptable
     /\ Len(early) = Len(Asked) /\ i <= Len(Asked)
     /\ \E read \in Readings : \E plan \in {PlanFor(i, read)} :
          IF ~SoundPlan(i, read, plan) THEN Fail
          ELSE /\ plans' = Append(plans, WithHelm(plan))
               /\ pins' = IF Own(a, {"patchHead"})
                          THEN pins \union {[want |-> a.version, got |-> plan.pair.version]} ELSE pins
               /\ session' = Searched(IF plain THEN session ELSE Loaded(session), ask, searched)
               /\ outcome' = IF i = Len(Asked) THEN "planned" ELSE "running"
               /\ UNCHANGED <<ask, registry, early>>

PublishMeanwhile(v, role) ==
  /\ outcome = "running" /\ plans # <<>>
  /\ PublishImage(v, role)
  /\ UNCHANGED <<ask, session, early, pins, plans, outcome>>

PlannerNext ==
  \/ Refuse
  \/ CheckNext
  \/ PlanNext
  \/ \E v \in Published, role \in Roles : PublishMeanwhile(v, role)

PlannerSpec == PlanInit /\ [][PlannerNext]_planVars

-----------------------------------------------------------------------------
HasRow(repo, v) == \E i \in DOMAIN ask.charts[repo] : v \in {ask.charts[repo][i].version, ask.charts[repo][i].app}
Candidates(i) == Range(Sources(EffectiveDistro(ask.distro, Asked[i]), BuildType(Asked[i])))
HasRelease(repo, line) == LatestMinorRelease(ask.charts[repo], line) # NoVer

(* A plan's chart is the requested version's own where a source has one    *)
(* (resolveChartAndBaseline); another version's chart is a released one, of*)
(* the requested line, or of the line before it only when no source has a  *)
(* release of the line.  Compatibility is looked up with a release of those*)
(* lines, and never in a support matrix of a later line.                   *)
PlanFitsRequest ==
  \A i \in DOMAIN plans :
    LET p == plans[i]
        chart == p.chart.version
        base == p.chart.baseline
        exact == \E r \in DOMAIN ask.charts[p.chart.repo] :
                   LET row == ask.charts[p.chart.repo][r]
                   IN row.version = chart /\ p.want \in {row.version, row.app}
    IN /\ p.chart.repo \in Candidates(i)
       /\ exact \/ chart.kind = "release"
       /\ p.want.kind # "head" =>
            /\ ~exact /\ "all" \notin ask.down => \A r \in Candidates(i) : ~HasRow(r, p.want)
            /\ ~exact => chart.line \in {p.want.line - 1, p.want.line}
            /\ base = p.want \/ (base.kind = "release" /\ base.line \in {p.want.line - 1, p.want.line})
            /\ ~exact /\ ask.down = {} /\ p.want.line \notin {chart.line, 0} =>
                 \A r \in Candidates(i) \union ReleaseRepos : ~HasRelease(r, p.want.line)
       /\ ~ask.hosted =>
            \E w \in ask.matrix.listed \union {base} :
              w.line <= base.line /\ p.rke2 \in {ask.matrix.range[w], ask.matrix.remembered[w]}

(* What a plan installs was seen in the registries: an agent that is named,*)
(* a server that is named, a bare tag on Docker Hub when the chart is a    *)
(* community one.  A Prime head is one pair of staging, of the patch asked *)
(* for; a pair of a preferred registry is of one registry that was chosen. *)
(* The Helm command lets no default registry redirect the agent. Two HAs   *)
(* that ask for one patch selector get one build, whatever staging         *)
(* publishes in between (resolveCachedPatchHeadStagingBundle).             *)
PlannedImagesExist ==
  \A i \in DOMAIN plans :
    LET p == plans[i]
        im == p.images
        a == Asked[i]
        OnePair == im.server # None /\ im.agent = Agent(im.server, im.tag)
    IN /\ im.agent # NoAgent => Found(registry, im.agent.registry, "agent", im.agent.tag)
       /\ im.server # None /\ im.tag # NoVer => Found(registry, im.server, "server", im.tag)
       /\ im.server = None /\ im.tag # NoVer /\ p.chart.repo # "prime" => Found(registry, "docker", "server", im.tag)
       /\ Own(a, {"patchHead", "primeCommit"}) =>
            /\ OnePair /\ im.server = "staging"
            /\ im.tag.kind = "primeCommit" /\ SamePatch(im.tag, a.version)
            /\ LabelsPair(im.tag, registry["staging"]["server"][im.tag], registry["staging"]["agent"][im.tag])
       /\ Own(a, {"commitHead"}) => p.chart.version = a.version \/ OnePair
       /\ ask.preferred # <<>> /\ ~a.custom /\ a.version.kind \notin {"patchHead"} =>
            OnePair /\ im.tag = a.version /\ im.server \in Range(ask.preferred)
       /\ im.agent # NoAgent /\ p.chart.repo = "prime" =>
            p.helm.flags.clear \/ im.agent.registry = "prime"
       /\ \A j \in DOMAIN plans : Own(a, {"patchHead"}) /\ Asked[j] = a => plans[j].images = im
=============================================================================
