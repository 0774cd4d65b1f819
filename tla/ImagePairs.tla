----------------------------- MODULE ImagePairs -----------------------------
(***************************************************************************)
(* Rancher versions, the images that carry them, and the rules by which a  *)
(* server and an agent image are accepted as one build.  The planner and   *)
(* the image lookup of the panel share them.                               *)
(*                                                                         *)
(* A version is a record [kind, line, patch, commit]: `line' is the minor  *)
(* release line, zero for the plain head, and `patch' and `commit' are     *)
(* zero where the kind has none.  An image tag is "v" and a version, and is*)
(* written as that version.  An answer is what one inspection of an image  *)
(* returned: its status and, when it was found, its labels.                *)
(***************************************************************************)
EXTENDS Naturals, FiniteSets, SequencesExt

CONSTANTS
  Registry,   \* the registries' answers at the start: registry, role, version
  Published   \* the heads that staging publishes later

VARIABLE registry   \* what the registries would answer now

None == "none"
Ver(kind, line, patch, commit) == [kind |-> kind, line |-> line, patch |-> patch, commit |-> commit]
NoVer == Ver(None, 0, 0, 0)
VersionKinds == {"release", "alpha", "rc", "rcs", "head", "lineHead", "patchHead", "commitHead", "primeCommit",
                 "opaque", "suffixed", None}
VersionRecord == [kind : VersionKinds, line : Nat, patch : Nat, commit : Nat]

CommitHead(v) == v.kind \in {"commitHead", "primeCommit"}
HeadKind(v) == CASE v.kind = "patchHead" -> "moving"
                 [] v.kind = "primeCommit" -> "immutable"
                 [] OTHER -> None
PrimeHead(v) == HeadKind(v) # None
\* A patch of a line, and the selector that names its heads.
SamePatch(v, w) == v.line = w.line /\ v.patch = w.patch

(* Equal completion times are ordered by the text of the version. Commits  *)
(* below ten stand for those whose first digit run has one digit.          *)
TextAfter(v, w) ==
  LET text(c) == IF c < 10 THEN 10 * c ELSE c
  IN text(v.commit) > text(w.commit)

(* An answer of the registry: the labels are those of the image's config.  *)
(* `oss' is the full commit of the public source, 0 when it is not one. The*)
(* canonical reference may spell the tag in other letters' case or carry a *)
(* scheme, as in docker://; `primeAlike' is the address of Rancher Prime in*)
(* other letters' case or with a slash at its end.                         *)
Answer(status, role, version, source, oss, created) ==
  [status |-> status, canonical |-> [role |-> role, version |-> version, spelling |-> "plain"],
   source |-> source, oss |-> oss, created |-> created]
MissingImage == Answer("missing", None, NoVer, None, 0, 0)
FailedLookup == Answer("error", None, NoVer, None, 0, 0)
Roles == {"server", "agent"}
ImageAnswer ==
  [status : {"found", "missing", "error"},
   canonical : [role : {"server", "agent", None}, version : VersionRecord, spelling : {"plain", "cased", "schemed"}],
   source : {"prime", "primeAlike", "community", None}, oss : Nat, created : Nat]
\* What a registry holds; a lookup that fails is no answer of its own.
HeldAnswer == {a \in ImageAnswer : a.status # "error"}
StagingTags == DOMAIN Registry["staging"]["server"]
\* No two commits of one patch are written alike.
ASSUME RegistryAssumption ==
  /\ "staging" \in DOMAIN Registry /\ Published \subseteq VersionRecord
  /\ StagingTags \subseteq VersionRecord /\ IsFiniteSet(StagingTags)
  /\ \A v, w \in StagingTags :
       v # w /\ v.kind = "primeCommit" /\ w.kind = "primeCommit" /\ SamePatch(v, w) =>
         TextAfter(v, w) \/ TextAfter(w, v)
  /\ Registry \in [DOMAIN Registry -> [Roles -> [StagingTags -> HeldAnswer]]]

-----------------------------------------------------------------------------
(* An image's canonical reference names itself, with the very tag that was *)
(* asked for; a scheme is taken off.                                       *)
NamesItself(role, v, answer) ==
  answer.canonical.role = role /\ answer.canonical.version = v /\ answer.canonical.spelling # "cased"
(* The agent's labels are not looked at.                                   *)
ServerLabelsPair(v, server, agent) == NamesItself("server", v, server)
(* Only the heads of one commit are held to naming themselves.             *)
LabelsPair(v, server, agent) == NamesItself("server", v, server) /\ NamesItself("agent", v, agent)
ExactPair(v, server, agent) == CommitHead(v) => LabelsPair(v, server, agent)

(* The server was built from Rancher Prime, by its exact address, at the   *)
(* commit in its tag.                                                      *)
ServerProvenance(v, server) ==
  /\ v.kind = "primeCommit"
  /\ server.source = "prime"
  /\ server.oss # 0 /\ server.oss = v.commit

CompletedAt(server, agent) == Max({server.created, agent.created})

(* One immutable head of the staging registry, as the planner inspects it. *)
StagingCandidate(v, server, agent) ==
  LET Of(status) == [version |-> v, status |-> status, at |-> 0]
  IN CASE server.status # "found" -> Of(server.status)
       [] server.status = "found" /\ agent.status # "found" -> Of(agent.status)
       [] OTHER ->
            IF ~ExactPair(v, server, agent) \/ ~ServerProvenance(v, server)
               \/ server.created = 0 \/ agent.created = 0
            THEN Of("invalid")
            ELSE [Of("verified") EXCEPT !.at = CompletedAt(server, agent)]

(* The patch selector: every immutable head of that patch is inspected, a  *)
(* failed lookup fails them all, and the newest verified pair is pinned.   *)
(* `tags' are the tags listed, `read' their answers; `listed' and `timely' *)
(* say that the listing succeeded and that the time limit was kept.        *)
Bundle(selector, tags, read, listed, timely) ==
  LET versions == {v \in tags : v.kind = "primeCommit" /\ SamePatch(v, selector)}
      checks == {StagingCandidate(v, read["server"][v], read["agent"][v]) : v \in versions}
      complete == {c \in checks : c.status = "verified"}
      Newest(c) == \A d \in complete \ {c} :
                     c.at > d.at \/ (c.at = d.at /\ TextAfter(c.version, d.version))
  IN IF ~listed \/ ~timely \/ (\E c \in checks : c.status = "error") \/ complete = {}
     THEN NoVer
     ELSE (CHOOSE c \in complete : Newest(c)).version

-----------------------------------------------------------------------------
NoPair == [registry |-> None, version |-> NoVer]

(* The chosen registries in turn: one that has no server, or no agent, is  *)
(* passed over; a failed lookup or labels that do not fit end the search.  *)
PreferredPair(v, registries, read) ==
  LET Incomplete(r) == \/ read[r]["server"][v].status = "missing"
                       \/ read[r]["server"][v].status = "found" /\ read[r]["agent"][v].status = "missing"
      left == {i \in DOMAIN registries : ~Incomplete(registries[i])}
      r == registries[Min(left)]
      server == read[r]["server"][v]
      agent == read[r]["agent"][v]
  IN IF left = {} THEN NoPair
     ELSE IF /\ server.status = "found" /\ agent.status = "found"
             /\ ExactPair(v, server, agent)
             /\ v.kind = "primeCommit" => ServerProvenance(v, server)
          THEN [registry |-> r, version |-> v]
          ELSE NoPair

(* A pair that the user named is taken as it is, when both are there.      *)
ExplicitPair(v, server, agent) ==
  server.status = "found" /\ agent.status = "found" /\ ExactPair(v, server, agent)

-----------------------------------------------------------------------------
Found(read, r, role, tag) == read[r][role][tag].status = "found"

(* One step reads the registries as they are, or with the lookups of one   *)
(* repository failing.                                                     *)
Readings ==
  {registry} \union
    {[registry EXCEPT ![r][role] = [v \in DOMAIN @ |-> FailedLookup]] : r \in DOMAIN registry, role \in Roles}

(* Staging gains a build, the server before the agent.                     *)
PublishImage(v, role) ==
  /\ registry["staging"][role][v].status = "missing"
  /\ role = "agent" => Found(registry, "staging", "server", v)
  /\ registry' = [registry EXCEPT !["staging"][role][v] = Answer("found", role, v, "prime", v.commit, 9)]
=============================================================================
