----------------------------- MODULE ImageLookup -----------------------------
(***************************************************************************)
(* The panel's image search: the options a request comes to, the bounded   *)
(* scan of each repository, and the verification that ranks Prime heads.   *)
(* Repositories are scanned and pairs are inspected by separate workers,   *)
(* each at its own moment; the registries may gain a head in between.      *)
(* Tags are those without an architecture suffix.                          *)
(*                                                                         *)
(* A query is of a form: "all" tags, the "heads" channel, the "primeAlias",*)
(* a "selector" of a patch, a "barePatch", an "exact" tag, or a            *)
(* "reference" that names registry and repository too.                     *)
(***************************************************************************)
EXTENDS ImagePairs

KnownRegistries == {"docker", "staging", "prime", "suse"}

CONSTANTS
  Queries,      \* the search requests
  TagOrder,     \* the order in which a registry lists its tags
  MaxTagScan,   \* imageLookupMaxTagScan, scaled down
  TagPageSize   \* imageLookupTagPageSize, scaled down

\* The registries that can be asked for are known, and list tags they know.
ASSUME TagAssumption ==
  /\ KnownRegistries \subseteq DOMAIN Registry
  /\ TagOrder \in Seq(StagingTags)
  /\ MaxTagScan \in Nat \ {0} /\ TagPageSize \in Nat \ {0}
\* A request is of one of the forms and is made of a known repository; a patch
\* is filtered by with its line.
ASSUME QueryAssumption ==
  \A q \in Queries :
    /\ q.form \in {"all", "heads", "primeAlias", "selector", "barePatch", "exact", "reference"}
    /\ q.registry \in KnownRegistries \union {"all"} /\ q.role \in Roles \union {"all"}
    /\ q.form \in {"exact", "reference"} => q.v \in StagingTags
    /\ q.form = "selector" => q.v.kind = "patchHead"
    /\ q.within \in [line : Nat, patch : Nat] /\ (q.within.patch # 0 => q.within.line # 0)
    /\ q.limit \in Nat \ {0}

MaxPages == MaxTagScan \div TagPageSize + 1

-----------------------------------------------------------------------------
(* What a request comes to.  `primeOnly' keeps Prime heads alone, `patch'  *)
(* is the patch whose pairs are verified.                                  *)
PrimeHeadQuery(q) == IF q.form \in {"exact", "reference", "selector"} THEN HeadKind(q.v) ELSE None
NoPatch == [line |-> 0, patch |-> 0]
Options(q) ==
  LET kind == PrimeHeadQuery(q)
      primeOnly == \/ q.form = "primeAlias" \/ kind # None
                   \/ q.headKind # "all" \/ q.primeHead = "only"
      ofLine == primeOnly /\ q.within.patch # 0
      bare == primeOnly /\ q.form = "barePatch"
      verify == kind # None \/ ofLine \/ bare
      sort == IF q.sort # "" THEN q.sort
              ELSE IF kind = "moving" \/ bare THEN "pair-completed" ELSE "natural"
  IN [primeOnly |-> primeOnly, verify |-> verify, sort |-> sort,
      patch |-> CASE bare -> [line |-> q.v.line, patch |-> q.v.patch]
                  [] ~bare /\ ofLine -> q.within
                  [] ~bare /\ ~ofLine /\ kind # None -> [line |-> q.v.line, patch |-> q.v.patch]
                  [] OTHER -> NoPatch,
      full |-> CASE q.scan = "bounded" -> q.recent # 0 \/ verify
                 [] q.scan = "complete" -> TRUE
                 [] OTHER -> \/ q.form \in {"primeAlias", "barePatch"} \/ kind = "moving"
                             \/ q.primeHead # "all" \/ q.headKind # "all" \/ q.within # NoPatch
                             \/ q.commit # 0 \/ q.pairStatus # "all" \/ q.sort \notin {"", "natural"} \/ q.recent # 0,
      valid |-> /\ ~(q.primeHead = "exclude" /\ q.headKind # "all")
                /\ q.pairStatus # "all" \/ sort = "pair-completed" => verify]

(* Prime heads are searched in staging, and in nothing else.               *)
Targets(q) ==
  LET registries == CASE q.registry # "all" -> {q.registry}
                      [] q.registry = "all" /\ Options(q).primeOnly -> {"staging"}
                      [] OTHER -> KnownRegistries
  IN registries \X (IF q.role = "all" THEN Roles ELSE {q.role})
Accepted(q) ==
  Options(q).valid /\ (Options(q).primeOnly => \A t \in Targets(q) : t[1] = "staging")

-----------------------------------------------------------------------------
(* Does a tag answer the request?  A bare patch is looked for in the text  *)
(* of a tag, which finds the patches that begin with its digits as well.   *)
MatchesText(q, v) ==
  CASE q.form = "all" -> TRUE
    [] q.form = "heads" -> v.kind \in {"head", "lineHead", "patchHead", "commitHead", "primeCommit"}
    [] q.form = "primeAlias" -> PrimeHead(v)
    [] q.form = "barePatch" ->
         v.line = q.v.line /\ (v.patch = q.v.patch \/ (q.v.patch # 0 /\ v.patch \div 10 = q.v.patch))
    [] q.form = "selector" -> PrimeHead(v) /\ SamePatch(v, q.v)
    [] OTHER -> v = q.v
Matches(q, v) ==
  /\ MatchesText(q, v)
  /\ Options(q).primeOnly => PrimeHead(v)
  /\ q.primeHead = "exclude" /\ ~Options(q).primeOnly => ~PrimeHead(v)
  /\ q.headKind # "all" => HeadKind(v) = q.headKind
  /\ q.within.line # 0 => v.line = q.within.line
  /\ q.within.patch # 0 => v.patch = q.within.patch
  /\ q.commit # 0 => v.commit = q.commit

(* Natural order compares the numbers in two tags as numbers.              *)
NaturallyAfter(v, w) ==
  \/ v.line > w.line
  \/ v.line = w.line /\ v.patch > w.patch
  \/ SamePatch(v, w) /\ v.commit > w.commit
(* Of two tags that compare alike the one listed first comes first.        *)
SortedBefore(i, j) ==
  \/ NaturallyAfter(TagOrder[i], TagOrder[j])
  \/ ~NaturallyAfter(TagOrder[j], TagOrder[i]) /\ i < j
TagsAt(places) == {TagOrder[i] : i \in places}

(* A date filter needs evidence: only Docker Hub tells when a tag was      *)
(* pushed.  Verified searches apply the filter to their ranked rows.       *)
Recent(q, t, v) ==
  \/ q.recent = 0 \/ Options(q).verify
  \/ t[1] = "docker" /\ registry[t[1]][t[2]][v].created >= q.recent

(* The tags one repository lists, as places in TagOrder.  They come page by*)
(* page, and a listing that breaks keeps the pages read.                   *)
Listed(t) == {i \in DOMAIN TagOrder : registry[t[1]][t[2]][TagOrder[i]].status # "missing"}
FirstOf(n, places) == {i \in places : Cardinality({j \in places : j <= i}) <= n}
Read(listed, pages) == FirstOf(Min({pages * TagPageSize, MaxTagScan}), listed)

(* The scan ends at the bound of tags, and without a full scan at the limit*)
(* of matches; each marks the group when there was more.                   *)
Stops(q, hits) ==
  {i \in hits : ~Options(q).full /\ Cardinality({j \in hits : j <= i}) = q.limit}
(* A scan that ends early is not marked.                                   *)
UnmarkedGroup(q, t, listed, scanned, broken) ==
  LET found == {i \in scanned : Matches(q, TagOrder[i]) /\ Recent(q, t, TagOrder[i])}
  IN [error |-> broken, truncated |-> Options(q).full /\ Cardinality(found) > q.limit, tags |-> TagsAt(found)]
Group(q, t, listed, scanned, broken) ==
  LET found == {i \in scanned : Matches(q, TagOrder[i]) /\ Recent(q, t, TagOrder[i])}
      over == Options(q).full /\ Cardinality(found) > q.limit
      kept == {i \in found : over => Cardinality({j \in found : SortedBefore(j, i)}) < q.limit}
  IN [error |-> broken, truncated |-> scanned # listed \/ over, tags |-> TagsAt(kept)]
ScanTags(q, t, listed, pages) ==
  LET read == Read(listed, pages)
      stops == Stops(q, {i \in read : Matches(q, TagOrder[i])})
  IN Group(q, t, listed, {i \in read : \A s \in stops : i <= s},
           stops = {} /\ read # listed /\ Cardinality(read) < MaxTagScan)

(* A full tag is asked for by name; a selector never is.  A lookup that    *)
(* fails is the group's error, a tag that is not there an empty group.     *)
ExactTag(q) == q.form \in {"exact", "reference"} /\ q.v.kind # "patchHead"
ExactGroup(q, read, t) ==
  LET answer == read[t[1]][t[2]][q.v].status
  IN [error |-> answer = "error", truncated |-> FALSE,
      tags |-> {v \in {q.v} : answer = "found" /\ Matches(q, v) /\ Recent(q, t, v)}]

(* A date filter on Docker Hub needs the dates of what was found; without  *)
(* them nothing is recent and the group is an error.                       *)
NeedsDates(q, t, found) == t[1] = "docker" /\ q.recent # 0 /\ \E v \in found : Matches(q, v)
Undated(group) == [group EXCEPT !.error = TRUE, !.tags = {}]

-----------------------------------------------------------------------------
VARIABLES
  query,     \* the request
  groups,    \* what each target's scan gave, as far as they have been scanned
  checked,   \* the pairs inspected, by version
  shown      \* the ranked response, "searching" before it and "failed"
lookupVars == <<registry, query, groups, checked, shown>>

LookupInit ==
  /\ query \in Queries
  /\ registry = Registry
  /\ groups = {} /\ checked = {}
  /\ shown = [state |-> IF Accepted(query) THEN "searching" ELSE "refused", rows |-> {}]

Scanned == {g.target : g \in groups}
Settle(state, rows) == shown' = [state |-> state, rows |-> rows] /\ UNCHANGED <<registry, query, groups, checked>>

SearchTarget(t) ==
  LET Add(group) == groups' = groups \union {[target |-> t, result |-> group]}
  IN /\ shown.state = "searching" /\ t \notin Scanned
     /\ IF ExactTag(query)
        THEN \E read \in Readings :
               \/ Add(ExactGroup(query, read, t))
               \/ /\ NeedsDates(query, t, {v \in {query.v} : Found(read, t[1], t[2], v)})
                  /\ Add(Undated(ExactGroup(query, read, t)))
        ELSE \E pages \in 0..MaxPages : \E group \in {ScanTags(query, t, Listed(t), pages)} :
               \/ Add(group)
               \/ NeedsDates(query, t, TagsAt(Read(Listed(t), pages))) /\ Add(Undated(group))
     /\ UNCHANGED <<registry, query, checked, shown>>

AllScanned == Scanned = Targets(query)
Succeeded == {g \in groups : ~g.result.error}
(* A list that was cut short counts, too.                                  *)
LenientAuthorities == {g \in groups : g.target[1] = "staging" /\ ~g.result.error}
(* Only a complete list of staging's servers or agents says which heads    *)
(* there are; either is enough, for a pair needs both.                     *)
Authorities == {g \in groups : g.target[1] = "staging" /\ ~g.result.error /\ ~g.result.truncated}
Names == {v \in StagingTags :
            /\ \E g \in Authorities : v \in g.result.tags
            /\ HeadKind(v) = "immutable"
            /\ Options(query).patch # NoPatch => SamePatch(v, Options(query).patch)}
Verifying == shown.state = "searching" /\ AllScanned /\ Options(query).verify /\ Authorities # {}

InspectPair(v) ==
  /\ Verifying /\ v \in Names \ {c.version : c \in checked}
  /\ \E read \in Readings :
       LET server == read["staging"]["server"][v]
           agent == read["staging"]["agent"][v]
       IN checked' = checked \union
            {[pair |-> StagingCandidate(v, server, agent), version |-> v,
              built |-> [server |-> server.created, agent |-> IF server.status = "found" THEN agent.created ELSE 0]]}
  /\ UNCHANGED <<registry, query, groups, shown>>

(* Verified pairs by completion, the later first.                          *)
Ahead(c, d) == c.pair.at > d.pair.at \/ (c.pair.at = d.pair.at /\ NaturallyAfter(c.version, d.version))
Rank(c) ==
  IF c.pair.status # "verified" THEN 0
  ELSE 1 + Cardinality({d \in checked : d.pair.status = "verified" /\ d # c /\ Ahead(d, c)})
Row(t, v, status, rank, at) == [target |-> t, version |-> v, status |-> status, rank |-> rank, at |-> at]
RowOf(t, v) ==
  LET own == {c \in checked : c.version = v}
      c == CHOOSE x \in own : TRUE
  IN IF own = {} THEN Row(t, v, IF PrimeHead(v) THEN "unverified" ELSE None, 0, 0)
     ELSE Row(t, v, c.pair.status, Rank(c), IF c.pair.at # 0 THEN c.pair.at ELSE c.built[t[2]])
Response ==
  LET rows == UNION {{RowOf(g.target, v) : v \in g.result.tags} : g \in groups}
      Kept(r) == /\ query.pairStatus # "all" => r.status = query.pairStatus
                 /\ Options(query).verify => r.at >= query.recent
  IN {r \in rows : Kept(r)}

(* The response: nothing when every search failed, and no ranking when the *)
(* candidates are incomplete or a pair could not be looked up.             *)
Finish ==
  /\ shown.state = "searching" /\ AllScanned
  /\ CASE Succeeded = {} -> Settle("failed", {})
       [] Succeeded # {} /\ ~Options(query).verify -> Settle("done", Response)
       [] Succeeded # {} /\ Options(query).verify /\ Authorities = {} -> Settle("failed", {})
       [] OTHER -> /\ Names = {c.version : c \in checked}
                   /\ IF \E c \in checked : c.pair.status = "error" THEN Settle("failed", {})
                      ELSE Settle("done", Response)

PublishDuring(v, role) ==
  /\ shown.state = "searching"
  /\ PublishImage(v, role)
  /\ UNCHANGED <<query, groups, checked, shown>>

LookupNext ==
  \/ \E t \in Targets(query) : SearchTarget(t)
  \/ \E v \in Names : InspectPair(v)
  \/ Finish
  \/ \E v \in Published, role \in Roles : PublishDuring(v, role)

LookupSpec == LookupInit /\ [][LookupNext]_lookupVars

-----------------------------------------------------------------------------
(* What the detail drawer reports of an image's labels: a Prime head is    *)
(* consistent when nothing in them contradicts its tag. It compares without*)
(* regard to case and to a slash after the source, and a reference with a  *)
(* scheme is none.                                                         *)
Consistent(role, v, answer) ==
  LET canonical == answer.canonical
  IN /\ canonical.role = role /\ canonical.spelling # "schemed"
     /\ canonical.version.kind = "primeCommit" /\ canonical.version = v
     /\ role = "server" =>
          answer.source \in {"prime", "primeAlike"} /\ answer.oss # 0 /\ answer.oss = v.commit

Answering(role, v) == registry["staging"][role][v]
Initially(v) == StagingCandidate(v, Registry["staging"]["server"][v], Registry["staging"]["agent"][v])
Ranked == {r \in shown.rows : r.rank # 0}

(* A rank counts every pair that could be verified when the search began   *)
(* and that answers it, of the patch when the request comes to one: no scan*)
(* that was cut short, failed or narrowed to one repository may let an     *)
(* older pair take a newer one's rank. The first of a patch selector that  *)
(* no commit narrows is as new as the pair the planner would pin           *)
(* (verifyPrimeHeadPairs, resolvePatchHeadStagingBundle).                  *)
RankingIsComplete ==
  \A r \in Ranked :
    LET newer == {v \in Range(TagOrder) : /\ Matches(query, v) /\ Initially(v).status = "verified"
                                          /\ Options(query).patch # NoPatch => SamePatch(v, Options(query).patch)
                                          /\ Initially(v).at > r.at}
        pin == Bundle(query.v, Range(TagOrder), Registry["staging"], TRUE, TRUE)
    IN /\ r.rank > Cardinality(newer)
       /\ query.form = "selector" /\ query.commit = 0 /\ registry = Registry /\ r.rank = 1 =>
            pin # NoVer /\ Initially(pin).at = r.at

(* The ranking and the detail drawer judge labels by rules of their own:   *)
(* what one verifies the other calls consistent, and what one refuses the  *)
(* other finds fault with, or the images tell no creation time. The rules  *)
(* differ in spelling alone: only the drawer takes a tag in another case   *)
(* and an address that is merely alike, only the ranking a scheme          *)
(* (validateExactHeadImagePair, imageLookupInspectPrimeHead).              *)
ReportsAgree ==
  \A r \in {x \in shown.rows : x.status \in {"verified", "invalid"}} :
    LET server == Answering("server", r.version)
        agent == Answering("agent", r.version)
        Spelled(spelling) == spelling \in {server.canonical.spelling, agent.canonical.spelling}
        sound == /\ Consistent("server", r.version, server) /\ Consistent("agent", r.version, agent)
                 /\ server.created # 0 /\ agent.created # 0
    IN /\ r.status = "verified" /\ ~Spelled("schemed") => sound
       /\ r.status = "invalid" /\ ~Spelled("cased") /\ server.source # "primeAlike" => ~sound

(* A list that is not marked as cut short or failed has every tag that was *)
(* there when the search began and answers it, and no tag that is not there*)
(* (searchTargetWithOptions).                                              *)
GroupsAreHonest ==
  \A g \in groups :
    LET t == g.target
    IN /\ \A v \in g.result.tags : Found(registry, t[1], t[2], v) /\ Matches(query, v)
       /\ ~g.result.error /\ ~g.result.truncated =>
            \A v \in Range(TagOrder) :
              Found(Registry, t[1], t[2], v) /\ Matches(query, v) /\ Recent(query, t, v) =>
                v \in g.result.tags
=============================================================================
