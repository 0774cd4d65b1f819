------------------------------ MODULE MCImages ------------------------------
(***************************************************************************)
(* The planner, the image search, the PR check, the detail drawer and the  *)
(* sign-off automation with its ledger, in one run: a behaviour is one of  *)
(* theirs.                                                                 *)
(*                                                                         *)
(* Three release lines, one build of every kind in the newest; chart       *)
(* indexes from one in which that line is unreleased to one in which every *)
(* source has it; registries with sound and unsound pairs, two of them     *)
(* completed at the same time.                                             *)
(***************************************************************************)
EXTENDS RancherPlan, ImageLookup, ImageEvidence, MCSignoff

R(line, patch) == Ver("release", line, patch, 0)
Selector == Ver("patchHead", 3, 1, 0)
CommitTag(c) == Ver("primeCommit", 3, 1, c)
Plain == Ver("head", 0, 0, 0)
LineHead == Ver("lineHead", 3, 0, 0)
OlderHead == Ver("lineHead", 2, 0, 0)
Built(kind) == Ver(kind, 3, 1, 1)
Tenth == Ver("primeCommit", 3, 10, 2)
Tags == {NoVer, Tenth, Plain, LineHead, OlderHead, Selector, R(2, 2), R(3, 1), Ver("opaque", 0, 0, 0), Ver("suffixed", 3, 0, 0)}
          \union {CommitTag(c) : c \in {1, 2, 3, 5, 12}} \union {Built(k) : k \in {"commitHead", "alpha", "rc", "rcs"}}

(* Commit 1 is a complete pair; the agent of commit 2 is another build's.  *)
(* The agent of commit 12 puts a scheme before its reference; the server of*)
(* the tenth patch misspells its source, the agent its tag.                *)
Good(role, v, at) == Answer("found", role, v, "prime", v.commit, at)
Staging(role, v) ==
  CASE v = CommitTag(1) -> Good(role, v, IF role = "agent" THEN 4 ELSE 1)
    [] v = CommitTag(12) /\ role = "server" -> Good(role, v, 2)
    [] v = CommitTag(12) /\ role = "agent" -> [Good(role, v, 4) EXCEPT !.canonical.spelling = "schemed"]
    [] v = Tenth /\ role = "server" -> [Good(role, v, 6) EXCEPT !.source = "primeAlike"]
    [] v = Tenth /\ role = "agent" -> [Good(role, v, 6) EXCEPT !.canonical.spelling = "cased"]
    [] v = CommitTag(5) -> Good(role, v, 2)
    [] v = Selector -> Good(role, CommitTag(1), 3)
    [] v = CommitTag(2) /\ role = "server" -> Good(role, v, 5)
    [] v = CommitTag(2) /\ role = "agent" -> Answer("found", role, CommitTag(1), "prime", 1, 5)
    [] v \in {Built("rcs"), Built("rc")} -> Good(role, v, 1)
    [] OTHER -> MissingImage
McRegistry ==
  [r \in {"staging", "prime", "suse", "docker", "team"} |-> [role \in {"server", "agent"} |-> [v \in Tags |->
     CASE r = "staging" -> Staging(role, v)
       [] r = "docker" /\ v \in {Plain, LineHead, OlderHead, Built("commitHead"), Built("alpha"), R(2, 2)} -> Good(role, v, 2)
       [] r = "prime" /\ v \in {Built("commitHead"), CommitTag(1)} /\ role = "server" -> Good(role, v, 2)
       [] r = "team" /\ v \in {Ver("opaque", 0, 0, 0), Ver("suffixed", 3, 0, 0), R(3, 1)} -> Good(role, v, 2)
       [] OTHER -> MissingImage]]]

ChartRow(v, app) == [version |-> v, app |-> app]
Own1(vs) == [i \in DOMAIN vs |-> ChartRow(vs[i], vs[i])]
Older == [latest |-> Own1(<<R(2, 2), R(1, 5)>>), prime |-> Own1(<<R(2, 3), R(2, 1)>>),
          optimusLatest |-> <<>>, optimusAlpha |-> Own1(<<Built("alpha")>>), alpha |-> <<>>]
Charts ==
  {Older,
   [Older EXCEPT !.optimusLatest = Own1(<<Built("rcs"), Built("rc"), CommitTag(12)>>)],
   [Older EXCEPT !.optimusLatest = <<ChartRow(R(3, 0), LineHead)>>, !.alpha = Own1(<<Built("alpha")>>)],
   [Older EXCEPT !.latest = Own1(<<Built("commitHead"), R(3, 0), R(2, 2)>>), !.prime = Own1(<<R(3, 1), R(3, 0), Built("rc")>>)]}

Matrix == [pages |-> [v \in {R(l, p) : l \in 1..3, p \in 0..5} \union Tags |->
                        IF v = R(2, 2) THEN "page" ELSE IF v = R(2, 3) THEN "redirect" ELSE "missing"],
           index |-> TRUE, listed |-> {R(1, 5), R(2, 2), R(3, 0)},
           range |-> [v \in {R(l, p) : l \in 1..3, p \in 0..5} \union Tags |-> IF v = R(2, 2) THEN 30 ELSE 0],
           remembered |-> [v \in {R(l, p) : l \in 1..3, p \in 0..5} \union Tags |->
                             IF v.kind # "release" THEN 20 ELSE IF v.line = 3 THEN 33 ELSE 28]]

Of(v) == [custom |-> FALSE, names |-> None, registry |-> None, version |-> v]
Custom(v) == [custom |-> TRUE, names |-> "rancher", registry |-> "team", version |-> v]
Config(list, distro, preferred, charts, down) ==
  [mode |-> "", list |-> list, single |-> <<>>, total |-> Len(list), commands |-> <<>>, agents |-> <<>>,
   distro |-> distro, preferred |-> preferred, charts |-> charts, down |-> down, password |-> TRUE,
   fields |-> [r \in DOMAIN Older |-> IF r = "prime" THEN {"repository", "tag"} ELSE {"tag"}],
   hosted |-> FALSE, servers |-> 3, matrix |-> Matrix]

Kinds == {Of(v) : v \in {Plain, LineHead, OlderHead, Selector, CommitTag(1), R(2, 2), R(3, 1)}
                           \union {Built(k) : k \in {"commitHead", "alpha", "rc", "rcs"}}}
           \union {Custom(v) : v \in {Ver("opaque", 0, 0, 0), Ver("suffixed", 3, 0, 0), R(3, 1)}}
Single == {Config(<<a>>, d, p, c, down) :
             a \in Kinds, d \in {"auto", "prime"}, p \in {<<>>, <<"staging", "docker">>}, c \in Charts,
             down \in {{}, {"all", "latest"}}}
Pairs == {Config(<<Of(Selector), Of(v)>>, "auto", <<>>, c, {}) : v \in {Selector, Plain}, c \in Charts}
Odd == {[Config(<<Of(Built("rcs"))>>, "auto", <<>>, Older, {}) EXCEPT !.agents = <<Agent("docker", LineHead)>>],
        [Config(<<Of(Built("alpha"))>>, "auto", <<>>, Older, {}) EXCEPT !.agents = <<Agent("docker", LineHead)>>],
        Config(<<Of(Selector)>>, "community", <<>>, Older, {}),
        Config(<<Of(Built("alpha"))>>, "community", <<>>, Older, {}),
        [Config(<<Of(Plain), Of(Plain)>>, "auto", <<>>, Older, {}) EXCEPT !.total = 3]}
McPublished == {CommitTag(3)}
McAsks == Single \union Pairs \union Odd

-----------------------------------------------------------------------------
(* The listing of staging's servers just fits the scan until commit 3 is   *)
(* published.                                                              *)
McTagOrder == <<CommitTag(1), CommitTag(12), CommitTag(2), CommitTag(3), CommitTag(5), Tenth, Built("rc"), Built("rcs"), Selector,
                LineHead, Plain, Built("commitHead")>>
Query(form, v) ==
  [form |-> form, v |-> v, primeHead |-> "all", headKind |-> "all", within |-> NoPatch, commit |-> 0,
   pairStatus |-> "all", sort |-> "", scan |-> "auto", recent |-> 0, limit |-> 3, registry |-> "all", role |-> "all"]
PatchOf3 == [line |-> 3, patch |-> 1]
Staged3 == [Query("all", NoVer) EXCEPT !.registry = "staging"]
SelectorQuery == Query("selector", Selector)
McQueries ==
  {[Query("all", NoVer) EXCEPT !.role = "agent"], [Query("heads", NoVer) EXCEPT !.registry = "docker"], SelectorQuery, Query("primeAlias", NoVer),
   [Query("barePatch", R(3, 1)) EXCEPT !.registry = "staging"], Query("exact", CommitTag(1)), Query("exact", CommitTag(3)),
   Query("exact", Tenth), [Query("exact", R(2, 2)) EXCEPT !.recent = 2, !.registry = "docker"],
   [Query("reference", CommitTag(12)) EXCEPT !.registry = "staging", !.role = "agent"],
   [Query("reference", CommitTag(1)) EXCEPT !.registry = "prime"],
   [Query("barePatch", R(3, 1)) EXCEPT !.primeHead = "only"],
   [Query("barePatch", R(3, 1)) EXCEPT !.headKind = "immutable", !.primeHead = "exclude"],
   [Staged3 EXCEPT !.role = "server", !.scan = "complete", !.limit = 2],
   [Staged3 EXCEPT !.role = "server", !.limit = 5],
   [Staged3 EXCEPT !.primeHead = "exclude"], [Staged3 EXCEPT !.commit = 2],
   [Staged3 EXCEPT !.headKind = "immutable", !.within = PatchOf3, !.role = "server"],
   [Staged3 EXCEPT !.primeHead = "only", !.within = PatchOf3, !.pairStatus = "verified", !.limit = 5],
   [Query("all", NoVer) EXCEPT !.registry = "docker", !.recent = 2, !.role = "server"]}
   \union {[SelectorQuery EXCEPT !.scan = scan, !.limit = 1, !.registry = r] :
              scan \in {"auto", "bounded"}, r \in {"all", "staging", "docker"}}
   \union {[SelectorQuery EXCEPT !.recent = since, !.limit = 5] : since \in {0, 4}}

-----------------------------------------------------------------------------
CONSTANTS c1, c2, c3, c4, p1
Build(source, revision, oss, layers) == [source |-> source, revision |-> revision, oss |-> oss, layers |-> layers]
Layer(entries) == [readable |-> TRUE, entries |-> entries]
File(path) == Entry("file", path)
Base == Layer(<<File(<<"build.yaml">>), File(<<"app", "build.yaml">>)>>)
Unread == [Base EXCEPT !.readable = FALSE]
Deleted == Layer(<<Entry("whiteout", <<"build.yaml">>), Entry("special", <<"app", "build.yaml">>)>>)
Emptied == Layer(<<Entry("opaque", <<"app">>), Entry("whiteout", <<"build.yaml">>), Entry("large", <<"lib", "build.yaml">>)>>)
Refilled == Layer(<<File(<<"app", "build.yaml">>), Entry("opaque", <<"app">>)>>)
Community == Build("rancher", c1, NoCommit, <<Base, Deleted>>)
Fixed == Build("rancher", c3, NoCommit, <<Base, Emptied, Layer(<<File(<<"lib", "build.yaml">>)>>)>>)
Other == Build("rancher", c4, NoCommit, <<Base, Emptied>>)
Prime == Build("prime", p1, c2, <<Base, Unread, Deleted>>)
Opaque == Build("prime", p1, NoCommit, <<Base, Refilled, Base, Base>>)
Foreign == Build("none", NoCommit, NoCommit, <<Base, Deleted, Emptied>>)
McHeadBuilds == {Community, Fixed, Other, Prime, Opaque, Foreign}
McHistory == [c \in {c1, c2, c3, c4, p1} |->
                CASE c = c2 -> {c1} [] c = c3 -> {c1, c2} [] c = c4 -> {c1} [] OTHER -> {}]
Pull(repository, merged, head, merge) == [repository |-> repository, merged |-> merged, head |-> head, merge |-> merge]
McPulls == {Pull("rancher", TRUE, c4, c2), Pull("rancher", FALSE, c4, NoCommit),
            Pull("rancher", TRUE, c4, NoCommit), Pull("prime", TRUE, c4, p1)}
Tagged(a, b, agents) == [t \in {"staging", "docker"} \X {"server", "agent"} |->
                     IF t[2] = "agent" THEN agents ELSE IF t[1] = "staging" THEN a ELSE b]
McStarts == {Tagged(a, b, g) : a \in McHeadBuilds \union {NoBuild}, b \in {NoBuild, Community, Other}, g \in {NoBuild, Fixed}}
McLater == [b \in McHeadBuilds \union {NoBuild} |->
              CASE b = Community -> {Fixed} [] b = Prime -> {Opaque, Other} [] OTHER -> {}]

-----------------------------------------------------------------------------
VARIABLE service
imageVars == <<service, planVars, lookupVars, evidenceVars, signoffVars, ledgerVars>>
ownPlan == <<ask, session, early, pins, plans, outcome>>
ownLookup == <<query, groups, checked, shown>>
ownSignoff == <<signoffVars, ledgerVars>>

Init ==
  /\ service \in {"planner", "lookup", "check", "drawer", "signoff", "ledger"}
  /\ IF service = "planner" THEN PlanInit ELSE ask = 0 /\ session = 0 /\ early = <<>> /\ pins = {} /\ plans = <<>> /\ outcome = "failed"
  /\ registry = IF service \in {"planner", "lookup"} THEN Registry ELSE 0
  /\ IF service = "lookup" THEN LookupInit
     ELSE query = 0 /\ groups = {} /\ checked = {} /\ shown = [state |-> "refused", rows |-> {}]
  /\ IF service \in {"check", "drawer"} THEN EvidenceInit ELSE tags = <<>> /\ check = NoCheck /\ drawer = NoDrawer
  /\ IF service = "signoff" THEN SignoffInit
     ELSE /\ request = "none" /\ flaw = "none" /\ docker = {} /\ published = {} /\ alias = 0
          /\ planner = Idle /\ plan = NoPlan /\ runs = <<>> /\ planRuns = 0
  /\ IF service = "ledger" THEN LedgerInit
     ELSE releases = <<>> /\ answers = <<>> /\ drafts = <<>> /\ draftRun = 0 /\ book = <<>> /\ history = <<>> /\ now = 0
Next ==
  \/ service = "planner" /\ PlannerNext /\ UNCHANGED <<service, ownLookup, evidenceVars, ownSignoff>>
  \/ service = "lookup" /\ LookupNext /\ UNCHANGED <<service, ownPlan, evidenceVars, ownSignoff>>
  \/ service = "check" /\ (PRNext \/ Moves) /\ UNCHANGED <<service, registry, ownPlan, ownLookup, ownSignoff>>
  \/ service = "drawer" /\ (DrawerNext \/ Moves) /\ UNCHANGED <<service, registry, ownPlan, ownLookup, ownSignoff>>
  \/ service = "signoff" /\ SignoffNext /\ FlawsOnce /\ FewBuilds
       /\ UNCHANGED <<service, registry, ownPlan, ownLookup, evidenceVars, ledgerVars>>
  \/ service = "ledger" /\ LedgerNext
       /\ UNCHANGED <<service, registry, ownPlan, ownLookup, evidenceVars, signoffVars>>
Spec == Init /\ [][Next]_imageVars
=============================================================================
