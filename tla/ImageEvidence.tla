---------------------------- MODULE ImageEvidence ----------------------------
(***************************************************************************)
(* What the panel says of images it has looked into: whether a head image  *)
(* holds the commit of a pull request, which build.yaml an image carries,  *)
(* and which build.yaml its declared source has.  Each answer takes several*)
(* lookups, and head tags move to other builds in between.                 *)
(***************************************************************************)
EXTENDS Naturals, FiniteSets, SequencesExt

CONSTANTS
  HeadBuilds, \* images: their labels and their layers, the base first
  History,    \* for each commit the commits it descends from
  Pulls,      \* pull requests, as GitHub describes them
  Places,     \* the registries that are asked
  Starts,     \* what the head tags name at first: place and role to build
  Later,      \* the builds that a tag moves on to
  LayerLimit, \* entries that a scan of build.yaml reads at most
  NoBuild, NoCommit

VARIABLES
  tags,       \* the build a head tag names in each place
  check,      \* the PR check: its progress, what it saw and its verdict
  drawer      \* the image in the detail drawer, its scan and its source
evidenceVars == <<tags, check, drawer>>

HeadTags == Places \X {"server", "agent"}

\* GitHub knows the commits that are named, and none descends from itself.
Known == DOMAIN History \union {NoCommit}
\* What the scan of a layer does not look into: a file of more bytes than are
\* read of a build.yaml, and a link, a directory or a device in its place.
PassedOver == {"large", "special"}
EntryKinds == {"file", "whiteout", "opaque"} \union PassedOver
\* A layer that can be read, or not, and its entries in their order, but for
\* the directories that are merely there.
Archive == [readable : BOOLEAN, entries : Seq([kind : EntryKinds, path : Seq(STRING)])]
ASSUME EvidenceAssumption ==
  /\ NoBuild \notin HeadBuilds /\ Starts \subseteq [HeadTags -> HeadBuilds \union {NoBuild}]
  /\ NoCommit \notin DOMAIN History
  /\ \A b \in HeadBuilds : b.revision \in Known /\ b.oss \in Known /\ b.layers \in Seq(Archive)
  /\ \A p \in Pulls : p.head \in Known /\ p.merge \in Known
  /\ \A c, d \in DOMAIN History : c \in History[d] => d \notin History[c]

-----------------------------------------------------------------------------
(* The pull request.  A merged one is looked for by its integration commit,*)
(* another by its head.                                                    *)
Inclusion(pull) == IF pull.merged THEN pull.merge ELSE pull.head
\* Metadata without the full commit that is needed is refused.
PullUsable(pull) == pull.head # NoCommit /\ Inclusion(pull) # NoCommit

(* The revision of an image that can be compared with a pull request: its  *)
(* own, when it was built from the same repository, or the public commit   *)
(* that a Prime image declares.                                            *)
Comparable(pull, build) ==
  CASE build.source = pull.repository /\ build.revision # NoCommit -> build.revision
    [] build.source = "prime" /\ pull.repository = "rancher" -> build.oss
    [] OTHER -> NoCommit

(* GitHub's comparison of the commit that is looked for with a revision.   *)
Relation(want, revision) ==
  CASE want = revision -> "identical"
    [] want # revision /\ want \in History[revision] -> "ahead"
    [] revision \in History[want] -> "behind"
    [] OTHER -> "diverged"
Verdict(relation) ==
  CASE relation \in {"identical", "ahead"} -> "included"
    [] relation \in {"behind", "diverged"} -> "not_included"
    [] OTHER -> "unknown"

NoCheck == [state |-> "idle", pull |-> NoCommit, seen |-> {}, relations |-> {}, verdict |-> "none", complete |-> FALSE]
Seen(place, status, build) == [place |-> place, status |-> status, build |-> build]

FetchPull(pull) ==
  /\ check.state = "idle"
  /\ check' = IF PullUsable(pull) THEN [NoCheck EXCEPT !.state = "inspecting", !.pull = pull]
              ELSE [NoCheck EXCEPT !.state = "failed"]
  /\ UNCHANGED <<tags, drawer>>

(* Each image is inspected once, by one of several workers; a registry that*)
(* fails is an error of that image alone.                                  *)
InspectImage(place) ==
  /\ check.state = "inspecting"
  /\ place \notin {s.place : s \in check.seen}
  /\ \E failed \in BOOLEAN :
       LET build == tags[place]
           status == IF failed THEN "error" ELSE IF build = NoBuild THEN "missing" ELSE "found"
       IN check' = [check EXCEPT !.seen = @ \union {Seen(place, status, IF failed THEN NoBuild ELSE build)}]
  /\ UNCHANGED <<tags, drawer>>

Inspected == {s.place : s \in check.seen} = HeadTags
Revision(s) == IF s.status = "found" THEN Comparable(check.pull, s.build) ELSE NoCommit
ToCompare == {r \in {Revision(s) : s \in check.seen} : r \notin {NoCommit, Inclusion(check.pull)}}

(* A revision is compared once for all the images that declare it. GitHub  *)
(* may fail, or may not confirm the merge base.                            *)
CompareRevision(revision) ==
  /\ check.state = "inspecting" /\ Inspected
  /\ revision \in ToCompare \ {r.revision : r \in check.relations}
  /\ \E relation \in {Relation(Inclusion(check.pull), revision), "error"} :
       check' = [check EXCEPT !.relations = @ \union {[revision |-> revision, relation |-> relation]}]
  /\ UNCHANGED <<tags, drawer>>

ImageVerdict(s) ==
  LET own == {r \in check.relations : r.revision = Revision(s)}
  IN CASE s.status # "found" -> "none"
       [] s.status = "found" /\ Revision(s) = NoCommit -> "unknown"
       [] s.status = "found" /\ Revision(s) = Inclusion(check.pull) -> "included"
       [] OTHER -> Verdict((CHOOSE r \in own : TRUE).relation)

(* A server that could not be read counts as absent.                       *)
HastySummary ==
  LET verdicts == {ImageVerdict(s) : s \in {x \in check.seen : x.place[2] = "server"}}
  IN IF "included" \in verdicts THEN "included"
     ELSE IF "not_included" \in verdicts /\ "unknown" \notin verdicts THEN "not_included" ELSE "unknown"

(* Servers decide.  One that has the commit is enough; the commit is said  *)
(* to be absent only when every server was read.                           *)
Summary ==
  LET servers == {s \in check.seen : s.place[2] = "server"}
      Some(verdict) == \E s \in servers : ImageVerdict(s) = verdict
      failed == \E s \in servers : s.status = "error"
  IN CASE Some("included") -> "included"
       [] ~Some("included") /\ (Some("unknown") \/ failed) -> "unknown"
       [] ~Some("included") /\ ~Some("unknown") /\ ~failed /\ Some("not_included") -> "not_included"
       [] OTHER -> "unknown"
ScanComplete ==
  /\ \A s \in check.seen : s.status # "error"
  /\ \A r \in check.relations : r.relation # "error"

Summarize ==
  /\ check.state = "inspecting" /\ Inspected
  /\ ToCompare = {r.revision : r \in check.relations}
  /\ check' = [check EXCEPT !.state = "done", !.verdict = Summary, !.complete = ScanComplete]
  /\ UNCHANGED <<tags, drawer>>

-----------------------------------------------------------------------------
(* The detail drawer.  A layer is a sequence of entries: a regular file, a *)
(* whiteout of one path, the mark that empties a directory of what the     *)
(* layers below it put there, or what is passed over.  A path is the       *)
(* sequence of its names.                                                  *)
Entry(kind, path) == [kind |-> kind, path |-> path]
NoSource == [state |-> "none", from |-> NoBuild, origin |-> "none", revision |-> NoCommit]
NoDrawer == [state |-> "closed", place |-> <<>>, build |-> NoBuild, layer |-> 0, hidden |-> {}, emptied |-> {},
             scanned |-> 0, skipped |-> FALSE, yaml |-> <<0, <<>>>>, source |-> NoSource]

OpenDrawer(place) ==
  /\ drawer.state = "closed" /\ tags[place] # NoBuild
  /\ drawer' = [NoDrawer EXCEPT !.state = "scanning", !.place = place, !.build = tags[place],
                                !.layer = Len(tags[place].layers)]
  /\ UNCHANGED <<tags, check>>

Hidden(path, hidden, emptied) ==
  path \in hidden \/ \E n \in 1..(Len(path) - 1) : SubSeq(path, 1, n) \in emptied
\* The shortest path of a layer, and of equal ones the first by name.
Chosen(paths) == CHOOSE p \in paths : \A q \in paths : Len(p) <= Len(q)

(* What the layer hides is forgotten below it.                             *)
ForgetfulScan(layer, hidden, emptied) ==
  LET paths == {e.path : e \in {x \in Range(layer.entries) : x.kind = "file" /\ Last(x.path) = "build.yaml"}}
  IN [files |-> {p \in paths : ~Hidden(p, hidden, emptied)}, hidden |-> hidden, emptied |-> emptied]

(* Scanning one layer: what it hides counts for the layers below it, and   *)
(* for its own files that come later in the archive. An entry that is      *)
(* passed over is not named, and hides nothing below it.                   *)
ScanBuildYAMLLayer(layer, hidden, emptied) ==
  LET Before(i, kind) == {layer.entries[j].path : j \in {k \in 1..i : layer.entries[k].kind = kind}}
      all == DOMAIN layer.entries
      files == {layer.entries[i].path : i \in {k \in all :
                  /\ layer.entries[k].kind = "file" /\ Last(layer.entries[k].path) = "build.yaml"
                  /\ ~Hidden(layer.entries[k].path, hidden \union Before(k, "whiteout"), emptied \union Before(k, "opaque"))}}
  IN [files |-> files,
      hidden |-> hidden \union Before(Len(layer.entries), "whiteout"),
      emptied |-> emptied \union Before(Len(layer.entries), "opaque")]

Shown(d) == [d EXCEPT !.state = "shown"]
(* From the top layer down.  Layers that are too large or cannot be read   *)
(* are skipped and named, unlike the entries that a layer's scan passes    *)
(* over; the scan ends at the first file, at the base, or at the limit of  *)
(* what it reads, which is named too.                                      *)
FindBuildYAML ==
  /\ drawer.state = "scanning"
  /\ LET layer == drawer.build.layers[drawer.layer]
         read == ScanBuildYAMLLayer(layer, drawer.hidden, drawer.emptied)
         count == drawer.scanned + Len(layer.entries)
         below == [drawer EXCEPT !.layer = @ - 1]
     IN drawer' =
          CASE drawer.layer = 0 -> Shown(drawer)
            [] drawer.layer # 0 /\ ~layer.readable -> [below EXCEPT !.skipped = TRUE]
            [] drawer.layer # 0 /\ layer.readable /\ count >= LayerLimit ->
                 Shown([drawer EXCEPT !.skipped = TRUE])
            [] OTHER ->
                 IF read.files # {} THEN Shown([drawer EXCEPT !.yaml = <<drawer.layer, Chosen(read.files)>>])
                 ELSE [below EXCEPT !.hidden = read.hidden, !.emptied = read.emptied, !.scanned = count]
  /\ UNCHANGED <<tags, check>>

(* The declared source is fetched for the digest that was inspected: a tag *)
(* that has moved is a conflict.                                           *)
Declares(build) == build.revision # NoCommit /\ build.source # "none"
FetchSource ==
  LET now == tags[drawer.place]
      Source(state) == [NoSource EXCEPT !.state = state, !.from = now]
  IN /\ drawer.state = "shown" /\ drawer.source.state \notin {"fetching", "shown"}
     /\ drawer' = [drawer EXCEPT !.source =
          CASE now # drawer.build -> [NoSource EXCEPT !.state = "conflict"]
            [] now = drawer.build /\ ~Declares(now) -> [NoSource EXCEPT !.state = "failed"]
            [] OTHER -> [Source("fetching") EXCEPT !.revision = now.revision, !.origin = now.source]]
     /\ UNCHANGED <<tags, check>>

(* The revision's own file, or for a Prime image the public commit's.      *)
FetchFromGitHub ==
  LET source == drawer.source
  IN /\ source.state = "fetching"
     /\ \E fetched \in BOOLEAN :
          drawer' = [drawer EXCEPT !.source =
            CASE fetched -> [source EXCEPT !.state = "shown"]
              [] ~fetched /\ source.origin = "prime" /\ source.from.oss # NoCommit ->
                   [source EXCEPT !.origin = "rancher", !.revision = source.from.oss]
              [] OTHER -> [NoSource EXCEPT !.state = "failed"]]
     /\ UNCHANGED <<tags, check>>

CloseDrawer == drawer.state = "shown" /\ drawer' = NoDrawer /\ UNCHANGED <<tags, check>>

-----------------------------------------------------------------------------
EvidenceInit ==
  /\ tags \in Starts
  /\ check = NoCheck /\ drawer = NoDrawer

MoveTag(place, build) ==
  /\ build \in Later[tags[place]]
  /\ tags' = [tags EXCEPT ![place] = build]
  /\ UNCHANGED <<check, drawer>>

PRNext ==
  \/ \E pull \in Pulls : FetchPull(pull)
  \/ \E place \in HeadTags : InspectImage(place)
  \/ \E revision \in ToCompare : CompareRevision(revision)
  \/ Summarize
DrawerNext ==
  \/ \E place \in HeadTags : OpenDrawer(place)
  \/ FindBuildYAML
  \/ FetchSource
  \/ FetchFromGitHub
  \/ CloseDrawer
Moves == \E place \in HeadTags, build \in HeadBuilds : MoveTag(place, build)
EvidenceSpec == EvidenceInit /\ [][PRNext \/ DrawerNext \/ Moves]_evidenceVars

-----------------------------------------------------------------------------
Holds(commit, revision) == commit = revision \/ commit \in History[revision]
ServersSeen == {s \in check.seen : s.place[2] = "server"}

(* A pull request is said to be included only when some server, as it was  *)
(* read, descends from the commit looked for; and said not to be only when *)
(* every server that was found was compared and does not                   *)
(* (summarizePRBuildResults).  A scan is complete only without a failure.  *)
PRVerdictIsSupported ==
  check.state = "done" =>
    LET want == Inclusion(check.pull)
        RightRepository(b) == b.source = check.pull.repository \/ (b.source = "prime" /\ check.pull.repository = "rancher")
        Revisions(b) == {IF b.source = check.pull.repository THEN b.revision ELSE b.oss} \ {NoCommit}
    IN /\ check.verdict = "included" =>
            \E s \in ServersSeen : /\ s.build # NoBuild /\ RightRepository(s.build)
                                   /\ \E r \in Revisions(s.build) : Holds(want, r)
       /\ check.verdict = "not_included" =>
            /\ \E s \in ServersSeen : s.build # NoBuild
            /\ \A s \in ServersSeen : s.status # "error"
            /\ \A s \in {x \in ServersSeen : x.build # NoBuild} :
                 RightRepository(s.build) /\ Revisions(s.build) # {} /\ \A r \in Revisions(s.build) : ~Holds(want, r)

(* A layer that deletes or replaces a directory by name, that empties one  *)
(* and fills it again, or that empties the root, is beyond the scan.       *)
Ordinary(build) ==
  \A i \in DOMAIN build.layers :
    LET entries == build.layers[i].entries
    IN \A j \in DOMAIN entries :
         /\ entries[j].kind # "file" =>
              /\ entries[j].path # <<>>
              /\ \A k \in DOMAIN entries : ~IsPrefix(entries[j].path, entries[k].path) \/ j = k
         /\ entries[j].kind # "opaque" =>
              \A l \in 1..(i - 1) : \A e \in Range(build.layers[l].entries) : ~IsStrictPrefix(entries[j].path, e.path)
(* What of a layer is still there above it, were it not for what is passed *)
(* over.                                                                   *)
Visible(build, i, path) ==
  /\ \E e \in Range(build.layers[i].entries) : e = Entry("file", path)
  /\ \A j \in (i + 1)..Len(build.layers) :
       \A e \in Range(build.layers[j].entries) :
         CASE e.kind = "opaque" -> ~IsStrictPrefix(e.path, path)
           [] e.kind \in PassedOver -> TRUE
           [] OTHER -> e.path # path
YAMLs(build) ==
  {y \in (DOMAIN build.layers) \X UNION {{e.path : e \in Range(build.layers[i].entries)} : i \in DOMAIN build.layers} :
     Last(y[2]) = "build.yaml" /\ Visible(build, y[1], y[2])}

(* The build.yaml shown is the one that a container of the image would see *)
(* in the highest layer that has one, when no layer was skipped and were it*)
(* not for the entries a scan passes over: a larger file or a link that    *)
(* replaces it goes unnoticed. An image is said to have none only when it  *)
(* has no regular one of the size that is read (findBuildYAML).            *)
EmbeddedIsTopmost ==
  drawer.state = "shown" /\ ~drawer.skipped /\ Ordinary(drawer.build) =>
    IF drawer.yaml[1] = 0 THEN YAMLs(drawer.build) = {}
    ELSE drawer.yaml \in YAMLs(drawer.build) /\ \A y \in YAMLs(drawer.build) : y[1] <= drawer.yaml[1]

(* A file that is shown as the declared source's comes from a commit that  *)
(* the inspected image declares, of the repository it declares it for,     *)
(* wherever the tag moved meanwhile (FetchSourceBuildYAML).                *)
SourceIsDeclared ==
  drawer.source.state = "shown" =>
    /\ drawer.source.from = drawer.build
    /\ \/ drawer.source.origin = drawer.build.source /\ drawer.source.revision = drawer.build.revision
       \/ drawer.build.source = "prime" /\ drawer.source.origin = "rancher" /\ drawer.source.revision = drawer.build.oss

(* Every build.yaml in the drawer is of the image that the drawer shows.   *)
BuildYAMLIsGenuine == EmbeddedIsTopmost /\ SourceIsDeclared
=============================================================================
