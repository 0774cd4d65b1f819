--------------------------- MODULE Images_proofs ---------------------------
(***************************************************************************)
(* What the panel says of images, proved for every set of builds, pull     *)
(* requests, registries' answers and searches: verdicts that are assembled *)
(* from lookups at different moments.                                      *)
(***************************************************************************)
EXTENDS ImageEvidence, ImageLookup, RancherPlan, SequenceTheorems, FiniteSetTheorems, WellFoundedInduction, TLAPS

-----------------------------------------------------------------------------
(* The verdict on a pull request.                                          *)

HeadBuild == HeadBuilds \union {NoBuild}
SeenImage == [place : HeadTags, status : {"found", "missing", "error"}, build : HeadBuild]
Compared == [revision : DOMAIN History, relation : {"identical", "ahead", "behind", "diverged", "error"}]
CheckType ==
  [state : {"idle", "inspecting", "failed", "done"}, pull : Pulls \union {NoCommit},
   seen : SUBSET SeenImage, relations : SUBSET Compared,
   verdict : {"none", "included", "not_included", "unknown"}, complete : BOOLEAN]

\* What was seen was a tag's build at that moment; a comparison has failed or
\* tells how the two commits are related.
EvidenceInv ==
  /\ tags \in [HeadTags -> HeadBuild]
  /\ check \in CheckType
  /\ check.state = "inspecting" => check.pull \in Pulls /\ PullUsable(check.pull)
  /\ \A s \in check.seen : s.status = "found" <=> s.build # NoBuild
  /\ \A r \in check.relations : r.relation \in {Relation(Inclusion(check.pull), r.revision), "error"}

\* GitHub's comparison says exactly whether the revision has the commit.
LEMMA RelationTells ==
  ASSUME NEW want \in DOMAIN History, NEW revision \in DOMAIN History
  PROVE  /\ Relation(want, revision) \in {"identical", "ahead", "behind", "diverged"}
         /\ Relation(want, revision) \in {"identical", "ahead"} <=> Holds(want, revision)
BY EvidenceAssumption DEF Relation, Holds

\* A pull request is looked for by a commit that GitHub knows.
LEMMA WantedIsKnown ==
  ASSUME NEW pull \in Pulls, PullUsable(pull)
  PROVE  Inclusion(pull) \in DOMAIN History
BY EvidenceAssumption DEF PullUsable, Inclusion, Known

\* The verdict on one image, when every revision has been compared.
LEMMA ImageVerdictTells ==
  ASSUME EvidenceInv, check.state = "inspecting",
         ToCompare = {r.revision : r \in check.relations},
         NEW s \in check.seen
  PROVE  LET b == s.build
             want == Inclusion(check.pull)
             rev == Comparable(check.pull, b)
         IN /\ ImageVerdict(s) \in {"none", "unknown", "included", "not_included"}
            /\ ImageVerdict(s) = "none" <=> b = NoBuild
            /\ ImageVerdict(s) \in {"included", "not_included"} =>
                 /\ b \in HeadBuilds /\ rev \in DOMAIN History
                 /\ ImageVerdict(s) = "included" <=> Holds(want, rev)
<1> DEFINE b == s.build
           want == Inclusion(check.pull)
           rev == Comparable(check.pull, b)
           own == {r \in check.relations : r.revision = Revision(s)}
<1>1. /\ s \in SeenImage
      /\ s.status = "found" <=> b # NoBuild
      /\ want \in DOMAIN History
  BY WantedIsKnown DEF EvidenceInv, CheckType
<1>2. CASE s.status # "found"
  BY <1>1, <1>2 DEF ImageVerdict
<1>3. ASSUME s.status = "found"
      PROVE  Revision(s) = rev /\ b \in HeadBuilds /\ rev \in Known
  <2>1. Revision(s) = rev /\ b \in HeadBuilds
    BY <1>1, <1>3 DEF Revision, SeenImage, HeadBuild
  <2> QED
    BY <2>1, EvidenceAssumption DEF Comparable, Known
<1>4. CASE s.status = "found" /\ rev = NoCommit
  BY <1>1, <1>3, <1>4, EvidenceAssumption DEF ImageVerdict
<1>5. CASE s.status = "found" /\ rev # NoCommit /\ rev = want
  BY <1>1, <1>3, <1>5 DEF ImageVerdict, Holds
<1>6. CASE s.status = "found" /\ rev # NoCommit /\ rev # want
  <2>1. rev \in DOMAIN History
    BY <1>3, <1>6 DEF Known
  <2>2. rev \in ToCompare
    BY <1>3, <1>6 DEF ToCompare
  <2>3. \E r \in check.relations : r.revision = rev
    BY <2>2
  <2>4. PICK r \in own : r = CHOOSE x \in own : TRUE
    BY <2>3, <1>3, <1>6
  <2>5. r \in Compared /\ r.revision = rev /\ r.relation \in {Relation(want, rev), "error"}
    BY <2>4, <1>3, <1>6 DEF EvidenceInv, CheckType
  <2>6. ImageVerdict(s) = Verdict(r.relation)
    BY <2>4, <1>3, <1>6 DEF ImageVerdict
  <2>7. ImageVerdict(s) \in {"unknown", "included", "not_included"}
    BY <2>6 DEF Verdict
  <2>8. ImageVerdict(s) \in {"included", "not_included"} =>
          r.relation # "error" /\ (ImageVerdict(s) = "included" <=> r.relation \in {"identical", "ahead"})
    BY <2>6 DEF Verdict
  <2> QED
    BY <1>1, <1>3, <1>6, <2>1, <2>5, <2>7, <2>8, RelationTells
<1> QED
  BY <1>2, <1>4, <1>5, <1>6

\* Updates of a check.
LEMMA CheckUpdates ==
  ASSUME NEW c \in CheckType
  PROVE  /\ NoCheck \in CheckType
         /\ c.seen \subseteq SeenImage /\ c.relations \subseteq Compared
         /\ \A p \in Pulls : [NoCheck EXCEPT !.state = "inspecting", !.pull = p] \in CheckType
         /\ [NoCheck EXCEPT !.state = "failed"] \in CheckType
         /\ \A s \in SeenImage : [c EXCEPT !.seen = @ \union {s}] \in CheckType
         /\ \A r \in Compared : [c EXCEPT !.relations = @ \union {r}] \in CheckType
         /\ \A v \in {"included", "not_included", "unknown"}, b \in BOOLEAN :
              [c EXCEPT !.state = "done", !.verdict = v, !.complete = b] \in CheckType
BY DEF CheckType, NoCheck

\* The summary says no more than the verdicts on the servers.
LEMMA SummaryTells ==
  /\ Summary \in {"included", "not_included", "unknown"}
  /\ Summary = "included" <=> \E s \in ServersSeen : ImageVerdict(s) = "included"
  /\ Summary = "not_included" =>
       /\ \E s \in ServersSeen : ImageVerdict(s) = "not_included"
       /\ \A s \in ServersSeen : s.status # "error" /\ ImageVerdict(s) \notin {"included", "unknown"}
BY DEF Summary, ServersSeen

\* What a verdict on an image means for the labels of its build.
LEMMA LabelsTell ==
  ASSUME NEW b \in HeadBuilds, NEW pull, Comparable(pull, b) # NoCommit
  PROVE  LET Revisions == {IF b.source = pull.repository THEN b.revision ELSE b.oss} \ {NoCommit}
         IN /\ b.source = pull.repository \/ (b.source = "prime" /\ pull.repository = "rancher")
            /\ Revisions = {Comparable(pull, b)}
<1>1. CASE b.source = pull.repository /\ b.revision # NoCommit
  BY <1>1 DEF Comparable
<1>2. CASE ~(b.source = pull.repository /\ b.revision # NoCommit)
  BY <1>2 DEF Comparable
<1> QED
  BY <1>1, <1>2

\* The verdict is the summary of what was seen, when it is given.
LEMMA SummarizeSupports ==
  ASSUME EvidenceInv, Summarize
  PROVE  PRVerdictIsSupported'
<1> DEFINE want == Inclusion(check.pull)
           Right(b) == b.source = check.pull.repository \/ (b.source = "prime" /\ check.pull.repository = "rancher")
           Revisions(b) == {IF b.source = check.pull.repository THEN b.revision ELSE b.oss} \ {NoCommit}
<1>1. /\ check.state = "inspecting"
      /\ ToCompare = {r.revision : r \in check.relations}
      /\ check'.pull = check.pull /\ check'.seen = check.seen /\ check'.verdict = Summary
  BY DEF Summarize, EvidenceInv, CheckType
<1>2. ServersSeen \subseteq check.seen /\ ServersSeen' = ServersSeen
  BY <1>1 DEF ServersSeen
<1>3. ASSUME NEW s \in ServersSeen
      PROVE  /\ ImageVerdict(s) = "none" <=> s.build = NoBuild
             /\ ImageVerdict(s) \in {"none", "unknown", "included", "not_included"}
             /\ ImageVerdict(s) \in {"included", "not_included"} =>
                  /\ s.build # NoBuild /\ Right(s.build)
                  /\ \E rev \in DOMAIN History :
                       /\ Revisions(s.build) = {rev}
                       /\ ImageVerdict(s) = "included" <=> Holds(want, rev)
  <2>1. s \in check.seen
    BY <1>2
  <2>2. /\ ImageVerdict(s) \in {"none", "unknown", "included", "not_included"}
        /\ ImageVerdict(s) = "none" <=> s.build = NoBuild
        /\ ImageVerdict(s) \in {"included", "not_included"} =>
             /\ s.build \in HeadBuilds /\ Comparable(check.pull, s.build) \in DOMAIN History
             /\ ImageVerdict(s) = "included" <=> Holds(want, Comparable(check.pull, s.build))
    BY <1>1, <2>1, ImageVerdictTells
  <2>3. ASSUME s.build \in HeadBuilds, Comparable(check.pull, s.build) \in DOMAIN History
        PROVE  Right(s.build) /\ Revisions(s.build) = {Comparable(check.pull, s.build)}
    BY <2>3, LabelsTell, EvidenceAssumption
  <2> HIDE DEF Right, Revisions, want
  <2> QED
    BY <2>2, <2>3, EvidenceAssumption
<1> HIDE DEF Right, Revisions, want
<1>4. Summary = "included" =>
        \E s \in ServersSeen : s.build # NoBuild /\ Right(s.build) /\ \E r \in Revisions(s.build) : Holds(want, r)
  BY <1>3, SummaryTells
<1>5. Summary = "not_included" =>
        /\ \E s \in ServersSeen : s.build # NoBuild
        /\ \A s \in ServersSeen : s.status # "error"
        /\ \A s \in {x \in ServersSeen : x.build # NoBuild} :
             Right(s.build) /\ Revisions(s.build) # {} /\ \A r \in Revisions(s.build) : ~Holds(want, r)
  BY <1>3, SummaryTells
<1> QED
  BY <1>1, <1>2, <1>4, <1>5 DEF PRVerdictIsSupported, Right, Revisions, want, Holds, Inclusion

LEMMA EvidenceStep ==
  ASSUME EvidenceInv, PRVerdictIsSupported, [PRNext \/ DrawerNext \/ Moves]_evidenceVars
  PROVE  EvidenceInv' /\ PRVerdictIsSupported'
<1>1. ASSUME NEW pull \in Pulls, FetchPull(pull)
      PROVE  EvidenceInv' /\ PRVerdictIsSupported'
  <2>1. check' \in CheckType /\ tags' = tags
    BY <1>1, CheckUpdates DEF FetchPull, EvidenceInv
  <2>2. /\ check'.seen = {} /\ check'.relations = {} /\ check'.state \in {"inspecting", "failed"}
        /\ check'.state = "inspecting" => check'.pull \in Pulls /\ PullUsable(check'.pull)
    BY <1>1 DEF FetchPull, NoCheck
  <2> QED
    BY <2>1, <2>2 DEF EvidenceInv, PRVerdictIsSupported, PullUsable, Inclusion
<1>2. ASSUME NEW place \in HeadTags, InspectImage(place)
      PROVE  EvidenceInv' /\ PRVerdictIsSupported'
  <2>1. PICK s \in SeenImage :
          /\ check' = [check EXCEPT !.seen = @ \union {s}]
          /\ s.status = "found" <=> s.build # NoBuild
    <3>1. PICK failed \in BOOLEAN :
            check' = [check EXCEPT !.seen = @ \union {Seen(place,
                        IF failed THEN "error" ELSE IF tags[place] = NoBuild THEN "missing" ELSE "found",
                        IF failed THEN NoBuild ELSE tags[place])}]
      BY <1>2 DEF InspectImage
    <3>2. tags[place] \in HeadBuild
      BY DEF EvidenceInv
    <3>3. PICK s : s = Seen(place,
                        IF failed THEN "error" ELSE IF tags[place] = NoBuild THEN "missing" ELSE "found",
                        IF failed THEN NoBuild ELSE tags[place])
      OBVIOUS
    <3>4. s \in SeenImage /\ (s.status = "found" <=> s.build # NoBuild)
      BY <3>2, <3>3 DEF Seen, SeenImage, HeadBuild
    <3> QED
      BY <3>1, <3>3, <3>4
  <2>2. check' \in CheckType
    BY <2>1, CheckUpdates DEF EvidenceInv
  <2>3. /\ check'.seen = check.seen \union {s} /\ check'.relations = check.relations
        /\ check'.pull = check.pull /\ check'.state = check.state /\ check.state = "inspecting"
    BY <1>2, <2>1 DEF InspectImage, EvidenceInv, CheckType
  <2>4. tags' = tags
    BY <1>2 DEF InspectImage
  <2>5. /\ check'.pull \in Pulls /\ PullUsable(check'.pull)
        /\ \A x \in check'.seen : x.status = "found" <=> x.build # NoBuild
        /\ \A r \in check'.relations : r.relation \in {Relation(Inclusion(check'.pull), r.revision), "error"}
    BY <2>1, <2>3 DEF EvidenceInv
  <2> QED
    BY <2>2, <2>3, <2>4, <2>5 DEF EvidenceInv, PRVerdictIsSupported, PullUsable, Inclusion, Relation
<1>3. ASSUME NEW revision \in ToCompare, CompareRevision(revision)
      PROVE  EvidenceInv' /\ PRVerdictIsSupported'
  <2>1. PICK r : /\ r = [revision |-> revision, relation |-> r.relation]
                 /\ r.relation \in {Relation(Inclusion(check.pull), revision), "error"}
                 /\ check' = [check EXCEPT !.relations = @ \union {r}]
    BY <1>3 DEF CompareRevision
  <2>2. revision \in DOMAIN History
    <3>1. PICK s \in check.seen : revision = Revision(s) /\ revision # NoCommit
      BY DEF ToCompare
    <3>2. s \in SeenImage /\ s.build \in HeadBuilds
      BY <3>1 DEF Revision, EvidenceInv, CheckType, SeenImage, HeadBuild
    <3>3. Comparable(check.pull, s.build) \in Known
      BY <3>2, EvidenceAssumption DEF Comparable, Known
    <3> QED
      BY <3>1, <3>3 DEF Revision, Known
  <2>3. r \in Compared /\ r.revision = revision
    <3>1. check.state = "inspecting" /\ Inclusion(check.pull) \in DOMAIN History
      BY <1>3, WantedIsKnown DEF CompareRevision, EvidenceInv
    <3> QED
      BY <2>1, <2>2, <3>1, RelationTells DEF Compared
  <2>4. check' \in CheckType
    BY <2>1, <2>3, CheckUpdates DEF EvidenceInv
  <2>5. /\ check'.relations = check.relations \union {r} /\ check'.seen = check.seen
        /\ check'.pull = check.pull /\ check'.state = check.state /\ check.state = "inspecting"
    BY <1>3, <2>1 DEF CompareRevision, EvidenceInv, CheckType
  <2>6. tags' = tags
    BY <1>3 DEF CompareRevision
  <2>7. r.relation \in {Relation(Inclusion(check.pull), r.revision), "error"}
    BY <2>1, <2>3
  <2>8. /\ check'.pull \in Pulls /\ PullUsable(check'.pull)
        /\ \A x \in check'.seen : x.status = "found" <=> x.build # NoBuild
        /\ \A x \in check'.relations : x.relation \in {Relation(Inclusion(check'.pull), x.revision), "error"}
    BY <2>5, <2>7 DEF EvidenceInv
  <2> QED
    BY <2>4, <2>5, <2>6, <2>8 DEF EvidenceInv, PRVerdictIsSupported, PullUsable, Inclusion, Relation
<1>4. ASSUME Summarize
      PROVE  EvidenceInv' /\ PRVerdictIsSupported'
  <2>1. check' \in CheckType
    BY <1>4, CheckUpdates, SummaryTells DEF Summarize, EvidenceInv, ScanComplete
  <2>2. /\ check'.relations = check.relations /\ check'.seen = check.seen
        /\ check'.pull = check.pull /\ check'.state = "done"
    BY <1>4 DEF Summarize, EvidenceInv, CheckType
  <2>3. EvidenceInv'
    BY <1>4, <2>1, <2>2 DEF EvidenceInv, Summarize, Inclusion, Relation
  <2> QED
    BY <1>4, <2>3, SummarizeSupports
<1>5. ASSUME check' = check, tags' \in [HeadTags -> HeadBuild]
      PROVE  EvidenceInv' /\ PRVerdictIsSupported'
  BY <1>5 DEF EvidenceInv, PRVerdictIsSupported, ServersSeen, PullUsable, Inclusion, Relation
<1>6. CASE DrawerNext
  BY <1>5, <1>6 DEF DrawerNext, OpenDrawer, FindBuildYAML, FetchSource, FetchFromGitHub, CloseDrawer, EvidenceInv
<1>7. CASE Moves
  BY <1>5, <1>7 DEF Moves, MoveTag, EvidenceInv, HeadBuild
<1>8. CASE UNCHANGED evidenceVars
  BY <1>5, <1>8 DEF evidenceVars, EvidenceInv
<1> QED
  BY <1>1, <1>2, <1>3, <1>4, <1>6, <1>7, <1>8 DEF PRNext

\* A pull request is called included only for a server that was read and has
\* the commit, and not included only when every server that was found was
\* compared and does not have it, for any number of images, failed lookups and
\* tags that move between them (summarizePRBuildResults).
THEOREM PRVerdictHolds == EvidenceSpec => []PRVerdictIsSupported
<1>1. EvidenceInit => EvidenceInv /\ PRVerdictIsSupported
  <2> SUFFICES ASSUME EvidenceInit PROVE EvidenceInv /\ PRVerdictIsSupported
    OBVIOUS
  <2>1. check \in CheckType /\ tags \in [HeadTags -> HeadBuild]
    BY EvidenceAssumption DEF EvidenceInit, HeadBuild, NoCheck, CheckType
  <2> QED
    BY <2>1 DEF EvidenceInit, EvidenceInv, NoCheck, PRVerdictIsSupported
<1>2. EvidenceInv /\ PRVerdictIsSupported /\ [PRNext \/ DrawerNext \/ Moves]_evidenceVars
        => (EvidenceInv /\ PRVerdictIsSupported)'
  BY EvidenceStep
<1> QED
  BY <1>1, <1>2, PTL DEF EvidenceSpec

-----------------------------------------------------------------------------
(* The scan for a build.yaml.                                              *)

\* A set of natural numbers has a least element.
LEMMA LeastExists ==
  ASSUME NEW S \in SUBSET Nat, S # {}
  PROVE  \E m \in S : \A n \in S : m <= n
<1>1. PICK m \in S : \A n \in S : ~(<<n, m>> \in OpToRel(<, Nat))
  BY NatLessThanWellFounded, WFMin, Zenon
<1>2. \A n \in S : ~(n < m)
  BY <1>1 DEF OpToRel
<1> QED
  BY <1>2

\* There is a shortest path.
LEMMA ChosenExists ==
  ASSUME NEW paths \in SUBSET Seq(STRING), paths # {}
  PROVE  Chosen(paths) \in paths
<1>1. PICK m \in {Len(p) : p \in paths} : \A n \in {Len(p) : p \in paths} : m <= n
  <2>0. \A p \in paths : Len(p) \in Nat
    BY LenProperties
  <2>1. {Len(p) : p \in paths} \in SUBSET Nat /\ {Len(p) : p \in paths} # {}
    BY <2>0, Zenon
  <2> QED
    BY <2>1, LeastExists
<1>2. \E p \in paths : \A q \in paths : Len(p) <= Len(q)
  BY <1>1
<1> QED
  BY <1>2, Zenon DEF Chosen

\* A strict prefix is a beginning of the path.
LEMMA PrefixTells ==
  ASSUME NEW p \in Seq(STRING), NEW q \in Seq(STRING), q # <<>>
  PROVE  /\ IsPrefix(p, p)
         /\ IsStrictPrefix(q, p) <=> \E n \in 1..(Len(p) - 1) : SubSeq(p, 1, n) = q
         /\ \A n \in 1..(Len(p) - 1) : SubSeq(p, 1, n) = q => IsPrefix(q, p)
<1>1. SubSeq(q, 1, Len(q)) = q /\ SubSeq(p, 1, Len(p)) = p /\ Len(p) \in Nat /\ Len(q) \in Nat \ {0}
  OBVIOUS
<1>2. \A n \in 1..(Len(p) - 1) : Len(SubSeq(p, 1, n)) = n
  OBVIOUS
<1>3. ASSUME IsStrictPrefix(q, p)
      PROVE  \E n \in 1..(Len(p) - 1) : SubSeq(p, 1, n) = q
  <2>1. Len(q) <= Len(p) /\ SubSeq(p, 1, Len(q)) = q /\ q # p
    BY <1>1, <1>3 DEF IsStrictPrefix, IsPrefix
  <2>2. Len(q) # Len(p)
    BY <1>1, <2>1
  <2>3. Len(q) \in 1..(Len(p) - 1)
    <3>1. \A a \in Nat \ {0}, b \in Nat : a <= b /\ a # b => a \in 1..(b - 1)
      OBVIOUS
    <3> QED
      BY <1>1, <2>1, <2>2, <3>1
  <2> QED
    BY <2>1, <2>3
<1>4. ASSUME NEW n \in 1..(Len(p) - 1), SubSeq(p, 1, n) = q
      PROVE  IsPrefix(q, p) /\ q # p
  BY <1>1, <1>2, <1>4 DEF IsPrefix
<1>5. IsPrefix(p, p)
  BY <1>1 DEF IsPrefix
<1> QED
  BY <1>3, <1>4, <1>5 DEF IsStrictPrefix

\* The paths of the entries of one kind.
PathsOf(layer, kind) ==
  {layer.entries[j].path : j \in {k \in 1..Len(layer.entries) : layer.entries[k].kind = kind}}
\* What the layers above the i-th hide.
HiddenAbove(build, i) == {p \in Seq(STRING) : \E j \in (i + 1)..Len(build.layers) : p \in PathsOf(build.layers[j], "whiteout")}
EmptiedAbove(build, i) == {p \in Seq(STRING) : \E j \in (i + 1)..Len(build.layers) : p \in PathsOf(build.layers[j], "opaque")}
\* Every build.yaml above the i-th layer is hidden.
PassedAbove(build, i) ==
  \A j \in (i + 1)..Len(build.layers) : \A p \in PathsOf(build.layers[j], "file") :
    Last(p) = "build.yaml" => Hidden(p, HiddenAbove(build, i), EmptiedAbove(build, i))

LEMMA LayerTypes ==
  ASSUME NEW b \in HeadBuilds, NEW i \in DOMAIN b.layers
  PROVE  /\ DOMAIN b.layers = 1..Len(b.layers) /\ Len(b.layers) \in Nat
         /\ DOMAIN b.layers[i].entries = 1..Len(b.layers[i].entries) /\ Len(b.layers[i].entries) \in Nat
         /\ \A k \in DOMAIN b.layers[i].entries :
              LET e == b.layers[i].entries[k]
              IN e = Entry(e.kind, e.path) /\ e.kind \in EntryKinds /\ e.path \in Seq(STRING)
         /\ \A kind : PathsOf(b.layers[i], kind) \subseteq Seq(STRING)
<1>1. b.layers \in Seq(Archive)
  BY EvidenceAssumption
<1>2. b.layers[i] \in Archive /\ DOMAIN b.layers = 1..Len(b.layers) /\ Len(b.layers) \in Nat
  BY <1>1
<1>3. b.layers[i].entries \in Seq([kind : EntryKinds, path : Seq(STRING)])
  BY <1>2 DEF Archive
<1>4. DOMAIN b.layers[i].entries = 1..Len(b.layers[i].entries) /\ Len(b.layers[i].entries) \in Nat
  BY <1>3
<1>5. \A k \in DOMAIN b.layers[i].entries :
        b.layers[i].entries[k] \in [kind : EntryKinds, path : Seq(STRING)]
  BY <1>3, <1>4, ElementOfSeq
<1>6. ASSUME NEW k \in DOMAIN b.layers[i].entries
      PROVE  LET e == b.layers[i].entries[k]
             IN e = Entry(e.kind, e.path) /\ e.kind \in EntryKinds /\ e.path \in Seq(STRING)
  BY <1>5, <1>6 DEF Entry
<1>7. \A kind : PathsOf(b.layers[i], kind) \subseteq Seq(STRING)
  BY <1>4, <1>6 DEF PathsOf
<1> QED
  BY <1>2, <1>4, <1>6, <1>7

\* What the scan of a layer adds to what is hidden.
LEMMA AboveGrows ==
  ASSUME NEW b \in HeadBuilds, NEW i \in DOMAIN b.layers
  PROVE  /\ HiddenAbove(b, i - 1) = HiddenAbove(b, i) \union PathsOf(b.layers[i], "whiteout")
         /\ EmptiedAbove(b, i - 1) = EmptiedAbove(b, i) \union PathsOf(b.layers[i], "opaque")
<1>1. /\ i \in 1..Len(b.layers) /\ Len(b.layers) \in Nat
      /\ PathsOf(b.layers[i], "whiteout") \subseteq Seq(STRING)
      /\ PathsOf(b.layers[i], "opaque") \subseteq Seq(STRING)
  BY LayerTypes
<1>2. ((i - 1) + 1)..Len(b.layers) = {i} \union ((i + 1)..Len(b.layers))
  BY <1>1
<1> QED
  BY <1>1, <1>2, Zenon DEF HiddenAbove, EmptiedAbove

LEMMA HiddenGrows ==
  ASSUME NEW p, NEW h1, NEW h2, NEW e1, NEW e2, h1 \subseteq h2, e1 \subseteq e2, Hidden(p, h1, e1)
  PROVE  Hidden(p, h2, e2)
BY DEF Hidden

\* The scan of the i-th layer finds a build.yaml that is visible in it, and
\* every such file, when all above are hidden.
LEMMA ScanTells ==
  ASSUME NEW b \in HeadBuilds, Ordinary(b), NEW i \in DOMAIN b.layers, PassedAbove(b, i)
  PROVE  LET read == ScanBuildYAMLLayer(b.layers[i], HiddenAbove(b, i), EmptiedAbove(b, i))
         IN /\ read.hidden = HiddenAbove(b, i - 1) /\ read.emptied = EmptiedAbove(b, i - 1)
            /\ read.files \subseteq Seq(STRING)
            /\ \A p : p \in read.files <=> p \in PathsOf(b.layers[i], "file") /\ Last(p) = "build.yaml" /\ Visible(b, i, p)
            /\ read.files = {} => PassedAbove(b, i - 1)
<1> DEFINE es == b.layers[i].entries
           Before(k, kind) == {es[j].path : j \in {x \in 1..k : es[x].kind = kind}}
           hid == HiddenAbove(b, i)
           emp == EmptiedAbove(b, i)
           YAMLFound(k) == /\ es[k].kind = "file" /\ Last(es[k].path) = "build.yaml"
                          /\ ~Hidden(es[k].path, hid \union Before(k, "whiteout"), emp \union Before(k, "opaque"))
           files == {es[k].path : k \in {x \in DOMAIN es : YAMLFound(x)}}
<1>1. /\ ScanBuildYAMLLayer(b.layers[i], hid, emp).files = files
      /\ ScanBuildYAMLLayer(b.layers[i], hid, emp).hidden = hid \union Before(Len(es), "whiteout")
      /\ ScanBuildYAMLLayer(b.layers[i], hid, emp).emptied = emp \union Before(Len(es), "opaque")
  BY DEF ScanBuildYAMLLayer
<1>2. Before(Len(es), "whiteout") = PathsOf(b.layers[i], "whiteout") /\ Before(Len(es), "opaque") = PathsOf(b.layers[i], "opaque")
  BY DEF PathsOf
<1>3. /\ DOMAIN es = 1..Len(es) /\ Len(es) \in Nat /\ i \in 1..Len(b.layers) /\ Len(b.layers) \in Nat
      /\ \A k \in DOMAIN es : /\ es[k] = Entry(es[k].kind, es[k].path)
                              /\ es[k].kind \in EntryKinds /\ es[k].path \in Seq(STRING)
  BY LayerTypes
<1>4. \A j, k \in DOMAIN es : es[j].kind # "file" =>
         es[j].path # <<>> /\ (~IsPrefix(es[j].path, es[k].path) \/ j = k)
  BY DEF Ordinary
<1>5. ASSUME NEW k \in DOMAIN es, es[k].kind = "file"
      PROVE  /\ es[k].path \notin Before(k, "whiteout")
             /\ \A n \in 1..(Len(es[k].path) - 1) : SubSeq(es[k].path, 1, n) \notin Before(k, "opaque")
  <2>1. ASSUME NEW j \in 1..k, es[j].kind # "file"
        PROVE  /\ j \in DOMAIN es /\ es[j].path # <<>> /\ es[j].path \in Seq(STRING)
               /\ ~IsPrefix(es[j].path, es[k].path)
    <3>1. j \in DOMAIN es /\ j # k
      BY <1>3, <1>5, <2>1
    <3> HIDE DEF es
    <3> QED
      BY <1>3, <1>4, <2>1, <3>1
  <2>2. es[k].path \notin Before(k, "whiteout")
    <3>1. SUFFICES ASSUME NEW j \in 1..k, es[j].kind = "whiteout", es[j].path = es[k].path
                   PROVE  FALSE
      OBVIOUS
    <3> QED
      BY <2>1, <3>1, PrefixTells
  <2>3. ASSUME NEW n \in 1..(Len(es[k].path) - 1), SubSeq(es[k].path, 1, n) \in Before(k, "opaque")
        PROVE  FALSE
    <3>1. PICK j \in 1..k : es[j].kind = "opaque" /\ es[j].path = SubSeq(es[k].path, 1, n)
      BY <2>3
    <3>2. es[j].path \in Seq(STRING) /\ es[j].path # <<>> /\ ~IsPrefix(es[j].path, es[k].path)
      BY <2>1, <3>1
    <3>3. es[k].path \in Seq(STRING)
      BY <1>3
    <3> HIDE DEF es
    <3> QED
      BY <2>3, <3>1, <3>2, <3>3, PrefixTells
  <2> QED
    BY <2>2, <2>3
<1>6. ASSUME NEW k \in DOMAIN es, es[k].kind = "file", Last(es[k].path) = "build.yaml"
      PROVE  YAMLFound(k) <=> ~Hidden(es[k].path, hid, emp)
  BY <1>5, <1>6 DEF Hidden
<1>7. ASSUME NEW p \in Seq(STRING), NEW j \in (i + 1)..Len(b.layers)
      PROVE  /\ j \in DOMAIN b.layers
             /\ DOMAIN b.layers[j].entries = 1..Len(b.layers[j].entries)
             /\ \A e \in Range(b.layers[j].entries) :
                  /\ e.kind \in EntryKinds /\ e.path \in PathsOf(b.layers[j], e.kind)
                  /\ e.path \in Seq(STRING)
                  /\ e.kind = "opaque" => e.path # <<>>
  <2>1. j \in DOMAIN b.layers
    BY <1>3, LayerTypes
  <2>2. DOMAIN b.layers[j].entries = 1..Len(b.layers[j].entries)
    BY <2>1, LayerTypes
  <2>3. ASSUME NEW x \in DOMAIN b.layers[j].entries
        PROVE  LET e == b.layers[j].entries[x]
               IN /\ e.kind \in EntryKinds /\ e.path \in PathsOf(b.layers[j], e.kind)
                  /\ e.path \in Seq(STRING) /\ (e.kind = "opaque" => e.path # <<>>)
    BY <2>1, <2>2, <2>3, LayerTypes DEF PathsOf, Ordinary
  <2> QED
    BY <2>1, <2>2, <2>3 DEF Range
<1>8. ASSUME NEW k \in DOMAIN es, es[k].kind = "file", Visible(b, i, es[k].path)
      PROVE  ~Hidden(es[k].path, hid, emp)
  <2> DEFINE p == es[k].path
  <2>1. p \in Seq(STRING)
    BY <1>3
  <2>2. \A j \in (i + 1)..Len(b.layers) : \A e \in Range(b.layers[j].entries) :
          /\ e.kind = "opaque" => ~IsStrictPrefix(e.path, p)
          /\ e.kind = "whiteout" => e.path # p
    BY <1>8 DEF Visible, PassedOver
  <2>3. p \notin hid
    <3>1. SUFFICES ASSUME NEW j \in (i + 1)..Len(b.layers), p \in PathsOf(b.layers[j], "whiteout")
                   PROVE  FALSE
      BY DEF HiddenAbove
    <3>2. PICK x \in 1..Len(b.layers[j].entries) :
            b.layers[j].entries[x].kind = "whiteout" /\ b.layers[j].entries[x].path = p
      BY <3>1 DEF PathsOf
    <3>3. b.layers[j].entries[x] \in Range(b.layers[j].entries)
      BY <1>7, <2>1, <3>2 DEF Range
    <3> QED
      BY <2>2, <3>2, <3>3
  <2>4. ASSUME NEW n \in 1..(Len(p) - 1), SubSeq(p, 1, n) \in emp
        PROVE  FALSE
    <3>1. PICK j \in (i + 1)..Len(b.layers) : SubSeq(p, 1, n) \in PathsOf(b.layers[j], "opaque")
      BY <2>4 DEF EmptiedAbove
    <3>2. PICK x \in 1..Len(b.layers[j].entries) :
            b.layers[j].entries[x].kind = "opaque" /\ b.layers[j].entries[x].path = SubSeq(p, 1, n)
      BY <3>1 DEF PathsOf
    <3>3. b.layers[j].entries[x] \in Range(b.layers[j].entries)
      BY <1>7, <2>1, <3>2 DEF Range
    <3>4. ~IsStrictPrefix(SubSeq(p, 1, n), p)
      BY <2>2, <3>2, <3>3
    <3>5. SubSeq(p, 1, n) \in Seq(STRING) /\ SubSeq(p, 1, n) # <<>>
      BY <1>7, <2>1, <3>2, <3>3
    <3> QED
      BY <2>1, <2>4, <3>4, <3>5, PrefixTells
  <2> QED
    BY <2>3, <2>4 DEF Hidden
<1>9. ASSUME NEW k \in DOMAIN es, es[k].kind = "file", Last(es[k].path) = "build.yaml", ~Hidden(es[k].path, hid, emp)
      PROVE  Visible(b, i, es[k].path)
  <2> DEFINE p == es[k].path
  <2>1. p \in Seq(STRING)
    BY <1>3
  <2>2. ASSUME NEW j \in (i + 1)..Len(b.layers), NEW e \in Range(b.layers[j].entries)
        PROVE  /\ e.kind = "opaque" => ~IsStrictPrefix(e.path, p)
               /\ e.kind # "opaque" /\ e.kind \notin PassedOver => e.path # p
    <3>1. /\ e.kind \in EntryKinds /\ e.path \in PathsOf(b.layers[j], e.kind)
          /\ e.path \in Seq(STRING) /\ (e.kind = "opaque" => e.path # <<>>)
      BY <1>7, <2>1
    <3>2. CASE e.kind = "opaque"
      <4>1. e.path \in emp
        BY <3>1, <3>2 DEF EmptiedAbove
      <4>2. ~\E n \in 1..(Len(p) - 1) : SubSeq(p, 1, n) = e.path
        BY <1>9, <4>1 DEF Hidden
      <4> QED
        BY <2>1, <3>1, <3>2, <4>2, PrefixTells
    <3>3. CASE e.kind = "whiteout"
      BY <1>9, <3>1, <3>3 DEF HiddenAbove, Hidden
    <3>4. CASE e.kind = "file"
      BY <1>9, <3>1, <3>4 DEF PassedAbove
    <3>5. CASE e.kind \in PassedOver
      BY <3>5 DEF PassedOver
    <3> QED
      BY <3>1, <3>2, <3>3, <3>4, <3>5 DEF EntryKinds
  <2>3. \E e \in Range(es) : e = Entry("file", p)
    BY <1>3, <1>9 DEF Range
  <2> QED
    BY <2>2, <2>3 DEF Visible
<1> HIDE DEF Before, hid, emp
<1>10. \A p : p \in files <=> p \in PathsOf(b.layers[i], "file") /\ Last(p) = "build.yaml" /\ Visible(b, i, p)
  <2>1. \A k \in DOMAIN es : YAMLFound(k) <=> es[k].kind = "file" /\ Last(es[k].path) = "build.yaml" /\ Visible(b, i, es[k].path)
    <3> HIDE DEF es
    <3> QED
      BY <1>6, <1>8, <1>9
  <2>2. PathsOf(b.layers[i], "file") = {es[k].path : k \in {x \in DOMAIN es : es[x].kind = "file"}}
    BY <1>3 DEF PathsOf
  <2> HIDE DEF YAMLFound, es
  <2> QED
    BY <2>1, <2>2
<1>11. files \subseteq Seq(STRING)
  BY <1>3
<1>12. ASSUME files = {}
       PROVE  PassedAbove(b, i - 1)
  <2>1. SUFFICES ASSUME NEW j \in ((i - 1) + 1)..Len(b.layers), NEW p \in PathsOf(b.layers[j], "file"), Last(p) = "build.yaml"
                 PROVE  Hidden(p, HiddenAbove(b, i - 1), EmptiedAbove(b, i - 1))
    BY DEF PassedAbove
  <2>2. hid \subseteq HiddenAbove(b, i - 1) /\ emp \subseteq EmptiedAbove(b, i - 1)
    BY AboveGrows DEF hid, emp
  <2>3. Hidden(p, hid, emp)
    <3>1. CASE j = i
      <4>1. PICK k \in DOMAIN es : es[k].kind = "file" /\ es[k].path = p
        BY <1>3, <3>1 DEF PathsOf
      <4>2. ~YAMLFound(k)
        BY <1>12
      <4> QED
        BY <1>6, <2>1, <4>1, <4>2
    <3>2. CASE j # i
      <4>1. j \in (i + 1)..Len(b.layers)
        BY <1>3, <3>2
      <4> QED
        BY <2>1, <4>1 DEF PassedAbove, hid, emp
    <3> QED
      BY <3>1, <3>2
  <2> QED
    BY <2>2, <2>3, HiddenGrows
<1> QED
  BY <1>1, <1>2, <1>10, <1>11, <1>12, AboveGrows DEF hid, emp
-----------------------------------------------------------------------------
(* The detail drawer.                                                      *)

SourceType ==
  [state : {"none", "fetching", "shown", "conflict", "failed"}, from : HeadBuild,
   origin : {b.source : b \in HeadBuilds} \union {"none", "rancher"}, revision : Known]
DrawerType ==
  [state : {"closed", "scanning", "shown"}, place : HeadTags \union {<<>>}, build : HeadBuild, layer : Nat,
   hidden : SUBSET Seq(STRING), emptied : SUBSET Seq(STRING), scanned : Nat, skipped : BOOLEAN,
   yaml : Nat \X Seq(STRING), source : SourceType]

\* The scan has reached a layer: it knows what all above it hide, and none of
\* them has a build.yaml that a container would see.
ScanProgress(d) ==
  /\ d.build \in HeadBuilds /\ d.layer \in 0..Len(d.build.layers)
  /\ d.yaml = <<0, <<>>>> /\ d.source = NoSource
  /\ ~d.skipped => d.hidden = HiddenAbove(d.build, d.layer) /\ d.emptied = EmptiedAbove(d.build, d.layer)
  /\ ~d.skipped /\ Ordinary(d.build) =>
       /\ PassedAbove(d.build, d.layer)
       /\ \A y \in YAMLs(d.build) : y[1] <= d.layer
\* The file shown, or that there is none.
Topmost(d) ==
  ~d.skipped /\ Ordinary(d.build) =>
    IF d.yaml[1] = 0 THEN YAMLs(d.build) = {}
    ELSE d.yaml \in YAMLs(d.build) /\ \A y \in YAMLs(d.build) : y[1] <= d.yaml[1]
\* A source that is fetched, or shown, is declared by the image that is open.
Declared(d) ==
  d.source.state \in {"fetching", "shown"} =>
    /\ d.source.from = d.build /\ d.build \in HeadBuilds
    /\ \/ d.source.origin = d.build.source /\ d.source.revision = d.build.revision
       \/ d.build.source = "prime" /\ d.source.origin = "rancher" /\ d.source.revision = d.build.oss
DrawerInv ==
  /\ tags \in [HeadTags -> HeadBuild]
  /\ drawer \in DrawerType
  /\ drawer.state = "closed" => drawer = NoDrawer
  /\ drawer.state = "scanning" => ScanProgress(drawer)
  /\ drawer.state = "shown" => drawer.build \in HeadBuilds /\ Topmost(drawer) /\ Declared(drawer)

\* What a visible build.yaml is, in the terms of the scan.
LEMMA YAMLsAre ==
  ASSUME NEW b \in HeadBuilds
  PROVE  /\ \A y \in YAMLs(b) : /\ y[1] \in 1..Len(b.layers) /\ y[2] \in PathsOf(b.layers[y[1]], "file")
                                /\ Last(y[2]) = "build.yaml" /\ Visible(b, y[1], y[2])
         /\ \A i \in 1..Len(b.layers), p \in Seq(STRING) :
              p \in PathsOf(b.layers[i], "file") /\ Last(p) = "build.yaml" /\ Visible(b, i, p) => <<i, p>> \in YAMLs(b)
<1>1. \A i \in 1..Len(b.layers) :
        /\ i \in DOMAIN b.layers
        /\ DOMAIN b.layers[i].entries = 1..Len(b.layers[i].entries)
  <2>1. DOMAIN b.layers = 1..Len(b.layers)
    BY EvidenceAssumption, LenProperties
  <2> QED
    BY <2>1, LayerTypes
<1>2. DOMAIN b.layers = 1..Len(b.layers)
  BY EvidenceAssumption, LenProperties
<1>3. ASSUME NEW y \in YAMLs(b)
      PROVE  /\ y[1] \in 1..Len(b.layers) /\ y[2] \in PathsOf(b.layers[y[1]], "file")
             /\ Last(y[2]) = "build.yaml" /\ Visible(b, y[1], y[2])
  <2>1. y[1] \in 1..Len(b.layers) /\ Last(y[2]) = "build.yaml" /\ Visible(b, y[1], y[2])
    BY <1>2 DEF YAMLs
  <2>2. PICK e \in Range(b.layers[y[1]].entries) : e = Entry("file", y[2])
    BY <2>1 DEF Visible
  <2>3. PICK k \in 1..Len(b.layers[y[1]].entries) : b.layers[y[1]].entries[k] = Entry("file", y[2])
    BY <1>1, <2>1, <2>2 DEF Range
  <2> QED
    BY <2>1, <2>3 DEF PathsOf, Entry
<1>4. ASSUME NEW i \in 1..Len(b.layers), NEW p \in Seq(STRING),
             p \in PathsOf(b.layers[i], "file"), Last(p) = "build.yaml", Visible(b, i, p)
      PROVE  <<i, p>> \in YAMLs(b)
  <2>1. p \in {e.path : e \in Range(b.layers[i].entries)}
    BY <1>1, <1>4 DEF PathsOf, Range
  <2>2. p \in UNION {{e.path : e \in Range(b.layers[k].entries)} : k \in DOMAIN b.layers}
    BY <1>2, <2>1
  <2> QED
    BY <1>2, <1>4, <2>2 DEF YAMLs
<1> QED
  BY <1>3, <1>4

\* The closed drawer.
LEMMA NoDrawerType ==
  NoDrawer \in DrawerType /\ NoDrawer.state = "closed" /\ NoDrawer.source.state = "none"
<1>1. NoSource \in SourceType /\ NoSource.state = "none"
  BY DEF NoSource, SourceType, HeadBuild, Known
<1>2. <<>> \in Seq(STRING)
  OBVIOUS
<1>3. <<0, <<>>>> \in Nat \X Seq(STRING)
  BY <1>2
<1>4. NoBuild \in HeadBuild /\ {} \in SUBSET Seq(STRING)
  BY DEF HeadBuild
<1> QED
  BY <1>1, <1>3, <1>4 DEF NoDrawer, DrawerType

\* The drawer that opens: nothing is above the top layer.
LEMMA OpenBegins ==
  ASSUME DrawerInv, NEW place \in HeadTags, OpenDrawer(place)
  PROVE  DrawerInv'
<1> DEFINE b == tags[place]
<1>1. b \in HeadBuilds /\ tags' = tags
  BY DEF OpenDrawer, DrawerInv, HeadBuild
<1>2. Len(b.layers) \in Nat /\ (Len(b.layers) + 1)..Len(b.layers) = {} /\ NoDrawer \in DrawerType
  <2>1. Len(b.layers) \in Nat
    BY <1>1, EvidenceAssumption, LenProperties
  <2> QED
    BY <2>1, NoDrawerType
<1> HIDE DEF b
<1>3. drawer' = [NoDrawer EXCEPT !.state = "scanning", !.place = place, !.build = b, !.layer = Len(b.layers)]
  BY DEF OpenDrawer, b
<1>4. drawer' \in DrawerType
  BY <1>1, <1>2, <1>3 DEF DrawerType, HeadBuild
<1>5. /\ drawer'.state = "scanning" /\ drawer'.build = b /\ drawer'.layer = Len(b.layers)
      /\ drawer'.hidden = {} /\ drawer'.emptied = {} /\ drawer'.yaml = <<0, <<>>>> /\ drawer'.source = NoSource
  BY <1>3 DEF NoDrawer
<1>6. HiddenAbove(b, Len(b.layers)) = {} /\ EmptiedAbove(b, Len(b.layers)) = {} /\ PassedAbove(b, Len(b.layers))
  BY <1>2 DEF HiddenAbove, EmptiedAbove, PassedAbove
<1>7. \A y \in YAMLs(b) : y[1] <= Len(b.layers)
  BY <1>1, <1>2, YAMLsAre
<1>8. ScanProgress(drawer')
  BY <1>1, <1>2, <1>5, <1>6, <1>7 DEF ScanProgress
<1> QED
  BY <1>1, <1>4, <1>5, <1>8 DEF DrawerInv

\* One layer of the scan.
LEMMA ScanKeeps ==
  ASSUME DrawerInv, FindBuildYAML
  PROVE  DrawerInv'
<1> DEFINE b == drawer.build
           i == drawer.layer
           layer == b.layers[i]
           read == ScanBuildYAMLLayer(layer, drawer.hidden, drawer.emptied)
           count == drawer.scanned + Len(layer.entries)
           below == [drawer EXCEPT !.layer = @ - 1]
<1>1. /\ drawer.state = "scanning" /\ ScanProgress(drawer) /\ drawer \in DrawerType
      /\ b \in HeadBuilds /\ i \in 0..Len(b.layers) /\ Len(b.layers) \in Nat
      /\ tags' = tags /\ tags \in [HeadTags -> HeadBuild]
  <2>1. b \in HeadBuilds
    BY DEF FindBuildYAML, DrawerInv, ScanProgress
  <2>2. Len(b.layers) \in Nat
    BY <2>1, EvidenceAssumption, LenProperties
  <2> QED
    BY <2>1, <2>2 DEF FindBuildYAML, DrawerInv, ScanProgress
<1>2. drawer' =
        CASE i = 0 -> Shown(drawer)
          [] i # 0 /\ ~layer.readable -> [below EXCEPT !.skipped = TRUE]
          [] i # 0 /\ layer.readable /\ count >= LayerLimit -> Shown([drawer EXCEPT !.skipped = TRUE])
          [] OTHER -> IF read.files # {} THEN Shown([drawer EXCEPT !.yaml = <<i, Chosen(read.files)>>])
                      ELSE [below EXCEPT !.hidden = read.hidden, !.emptied = read.emptied, !.scanned = count]
  BY DEF FindBuildYAML
<1>3. CASE i = 0
  <2>1. drawer' = [drawer EXCEPT !.state = "shown"]
    BY <1>2, <1>3 DEF Shown
  <2>2. drawer' \in DrawerType /\ drawer'.state = "shown" /\ drawer'.build = b /\ drawer'.skipped = drawer.skipped
        /\ drawer'.yaml = <<0, <<>>>> /\ drawer'.source = NoSource
    BY <1>1, <2>1 DEF DrawerType, ScanProgress
  <2>3. ~drawer.skipped /\ Ordinary(b) => YAMLs(b) = {}
    BY <1>1, <1>3, YAMLsAre DEF ScanProgress
  <2> QED
    BY <1>1, <2>2, <2>3 DEF DrawerInv, Topmost, Declared, NoSource
<1>4. ASSUME i # 0
      PROVE  /\ i \in DOMAIN b.layers /\ i - 1 \in 0..Len(b.layers) /\ i - 1 \in Nat
             /\ Len(layer.entries) \in Nat
  <2>1. i \in DOMAIN b.layers
    BY <1>1, <1>4, EvidenceAssumption, LenProperties
  <2>2. i - 1 \in 0..Len(b.layers) /\ i - 1 \in Nat
    BY <1>1, <1>4
  <2>3. Len(layer.entries) \in Nat
    BY <1>1, <2>1, LayerTypes
  <2> QED
    BY <2>1, <2>2, <2>3
<1>5. CASE i # 0 /\ ~layer.readable
  <2>1. drawer' = [drawer EXCEPT !.layer = i - 1, !.skipped = TRUE]
    BY <1>2, <1>5
  <2>2. drawer' \in DrawerType /\ drawer'.state = "scanning" /\ drawer'.build = b /\ drawer'.skipped
        /\ drawer'.layer = i - 1 /\ drawer'.yaml = drawer.yaml /\ drawer'.source = drawer.source
    BY <1>1, <1>4, <1>5, <2>1 DEF DrawerType
  <2> QED
    BY <1>1, <1>4, <1>5, <2>2 DEF DrawerInv, ScanProgress
<1>6. CASE i # 0 /\ layer.readable /\ count >= LayerLimit
  <2>1. drawer' = [drawer EXCEPT !.state = "shown", !.skipped = TRUE]
    BY <1>2, <1>6 DEF Shown
  <2>2. drawer' \in DrawerType /\ drawer'.state = "shown" /\ drawer'.build = b /\ drawer'.skipped
        /\ drawer'.source = NoSource
    BY <1>1, <2>1 DEF DrawerType, ScanProgress
  <2> QED
    BY <1>1, <2>2 DEF DrawerInv, Topmost, Declared, NoSource
<1>7. CASE i # 0 /\ layer.readable /\ ~(count >= LayerLimit)
  <2>1. ASSUME ~drawer.skipped, Ordinary(b)
        PROVE  /\ read.hidden = HiddenAbove(b, i - 1) /\ read.emptied = EmptiedAbove(b, i - 1)
               /\ read.files \subseteq Seq(STRING)
               /\ \A p : p \in read.files <=> p \in PathsOf(layer, "file") /\ Last(p) = "build.yaml" /\ Visible(b, i, p)
               /\ read.files = {} => PassedAbove(b, i - 1)
    <3>1. PassedAbove(b, i) /\ drawer.hidden = HiddenAbove(b, i) /\ drawer.emptied = EmptiedAbove(b, i)
      BY <1>1, <2>1 DEF ScanProgress
    <3> QED
      BY <1>1, <1>4, <1>7, <2>1, <3>1, ScanTells
  <2>2. /\ read.hidden \in SUBSET Seq(STRING) /\ read.emptied \in SUBSET Seq(STRING)
        /\ read.files \in SUBSET Seq(STRING)
        /\ ~drawer.skipped => read.hidden = HiddenAbove(b, i - 1) /\ read.emptied = EmptiedAbove(b, i - 1)
    <3>1. /\ read.hidden = drawer.hidden \union PathsOf(layer, "whiteout")
          /\ read.emptied = drawer.emptied \union PathsOf(layer, "opaque")
      BY DEF ScanBuildYAMLLayer, PathsOf
    <3>2. PathsOf(layer, "whiteout") \subseteq Seq(STRING) /\ PathsOf(layer, "opaque") \subseteq Seq(STRING)
      BY <1>1, <1>4, <1>7, LayerTypes
    <3>3. drawer.hidden \in SUBSET Seq(STRING) /\ drawer.emptied \in SUBSET Seq(STRING)
      BY <1>1 DEF DrawerType
    <3>4. read.files \in SUBSET Seq(STRING)
      <4>1. \A k \in DOMAIN layer.entries : layer.entries[k].path \in Seq(STRING)
        BY <1>1, <1>4, <1>7, LayerTypes
      <4> QED
        BY <4>1 DEF ScanBuildYAMLLayer
    <3>5. ~drawer.skipped => drawer.hidden = HiddenAbove(b, i) /\ drawer.emptied = EmptiedAbove(b, i)
      BY <1>1 DEF ScanProgress
    <3>6. /\ HiddenAbove(b, i - 1) = HiddenAbove(b, i) \union PathsOf(layer, "whiteout")
          /\ EmptiedAbove(b, i - 1) = EmptiedAbove(b, i) \union PathsOf(layer, "opaque")
      BY <1>1, <1>4, <1>7, AboveGrows
    <3> HIDE DEF read
    <3> QED
      BY <3>1, <3>2, <3>3, <3>4, <3>5, <3>6
  <2>3. CASE read.files # {}
    <3> DEFINE p == Chosen(read.files)
    <3>1. p \in read.files /\ p \in Seq(STRING)
      BY <2>2, <2>3, ChosenExists
    <3>2. drawer' = [drawer EXCEPT !.yaml = <<i, p>>, !.state = "shown"]
      BY <1>2, <1>7, <2>3 DEF Shown
    <3> HIDE DEF p, read
    <3>3. drawer' \in DrawerType /\ drawer'.state = "shown" /\ drawer'.build = b /\ drawer'.skipped = drawer.skipped
          /\ drawer'.yaml = <<i, p>> /\ drawer'.source = NoSource
      BY <1>1, <3>1, <3>2 DEF DrawerType, ScanProgress
    <3>4. ~drawer.skipped /\ Ordinary(b) => <<i, p>> \in YAMLs(b) /\ \A y \in YAMLs(b) : y[1] <= i
      <4>1. i \in 1..Len(b.layers)
        BY <1>1, <1>7
      <4>2. \A y \in YAMLs(b) : ~drawer.skipped /\ Ordinary(b) => y[1] <= i
        BY <1>1 DEF ScanProgress
      <4> QED
        BY <1>1, <2>1, <3>1, <4>1, <4>2, YAMLsAre
    <3>5. Topmost(drawer')
      BY <1>7, <3>3, <3>4 DEF Topmost
    <3> QED
      BY <1>1, <3>3, <3>5 DEF DrawerInv, Declared, NoSource
  <2>4. CASE read.files = {}
    <3>1. drawer' = [drawer EXCEPT !.layer = i - 1, !.hidden = read.hidden, !.emptied = read.emptied, !.scanned = count]
      BY <1>2, <1>7, <2>4
    <3>2. count \in Nat
      <4>1. drawer.scanned \in Nat /\ Len(layer.entries) \in Nat
        BY <1>1, <1>4, <1>7 DEF DrawerType
      <4>2. \A m, n \in Nat : m + n \in Nat
        OBVIOUS
      <4> QED
        BY <4>1, <4>2, Zenon
    <3> HIDE DEF read, count
    <3>3. /\ drawer' \in DrawerType /\ drawer'.state = "scanning" /\ drawer'.build = b /\ drawer'.skipped = drawer.skipped
          /\ drawer'.layer = i - 1 /\ drawer'.yaml = drawer.yaml /\ drawer'.source = drawer.source
          /\ drawer'.hidden = read.hidden /\ drawer'.emptied = read.emptied
      BY <1>1, <1>4, <1>7, <2>2, <3>1, <3>2 DEF DrawerType
    <3>4. ASSUME ~drawer.skipped, Ordinary(b), NEW y \in YAMLs(b)
          PROVE  y[1] <= i - 1
      <4>1. y[1] \in 1..Len(b.layers) /\ y[1] <= i /\ y[2] \in PathsOf(b.layers[y[1]], "file")
            /\ Last(y[2]) = "build.yaml" /\ Visible(b, y[1], y[2])
        BY <1>1, <3>4, YAMLsAre DEF ScanProgress
      <4>2. y[1] # i
        BY <2>1, <2>4, <3>4, <4>1
      <4> QED
        BY <1>1, <4>1, <4>2
    <3>5. ScanProgress(drawer')
      BY <1>1, <1>4, <1>7, <2>1, <2>2, <2>4, <3>3, <3>4 DEF ScanProgress
    <3> QED
      BY <1>1, <3>3, <3>5 DEF DrawerInv
  <2> QED
    BY <2>3, <2>4
<1> QED
  BY <1>3, <1>5, <1>6, <1>7

\* The source's file: what is asked for is what the open image declares.
LEMMA SourceKeeps ==
  ASSUME DrawerInv, FetchSource \/ FetchFromGitHub
  PROVE  DrawerInv'
<1>1. /\ drawer \in DrawerType /\ drawer.state = "shown" /\ drawer.build \in HeadBuilds
      /\ Topmost(drawer) /\ Declared(drawer) /\ tags' = tags /\ tags \in [HeadTags -> HeadBuild]
  <2>1. drawer.state \in {"closed", "scanning", "shown"} /\ drawer \in DrawerType
    BY DEF DrawerInv, DrawerType
  <2>2. drawer.state = "shown"
    BY <2>1, NoDrawerType DEF DrawerInv, FetchSource, FetchFromGitHub, ScanProgress, NoSource
  <2> QED
    BY <2>1, <2>2 DEF DrawerInv, FetchSource, FetchFromGitHub
<1>2. \E s \in SourceType :
        /\ drawer' = [drawer EXCEPT !.source = s]
        /\ s.state \in {"fetching", "shown"} =>
             /\ s.from = drawer.build
             /\ \/ s.origin = drawer.build.source /\ s.revision = drawer.build.revision
                \/ drawer.build.source = "prime" /\ s.origin = "rancher" /\ s.revision = drawer.build.oss
  <2>0. /\ NoSource \in SourceType /\ NoSource.state = "none"
        /\ [NoSource EXCEPT !.state = "conflict"] \in SourceType
        /\ [NoSource EXCEPT !.state = "failed"] \in SourceType
        /\ [NoSource EXCEPT !.state = "conflict"].state = "conflict"
        /\ [NoSource EXCEPT !.state = "failed"].state = "failed"
    BY DEF NoSource, SourceType, HeadBuild, Known
  <2>1. CASE FetchSource
    <3> DEFINE now == tags[drawer.place]
               s == [NoSource EXCEPT !.state = "fetching", !.from = now, !.revision = now.revision, !.origin = now.source]
    <3>1. CASE now # drawer.build
      BY <2>0, <2>1, <3>1 DEF FetchSource
    <3>2. CASE now = drawer.build /\ ~Declares(now)
      BY <2>0, <2>1, <3>2 DEF FetchSource
    <3>3. CASE now = drawer.build /\ Declares(now)
      <4>1. drawer' = [drawer EXCEPT !.source = s]
        BY <2>1, <3>3 DEF FetchSource, NoSource
      <4>2. now.revision \in Known /\ now.source \in {b.source : b \in HeadBuilds}
        BY <1>1, <3>3, EvidenceAssumption
      <4>3. s \in SourceType /\ s.from = drawer.build /\ s.origin = drawer.build.source /\ s.revision = drawer.build.revision
        BY <1>1, <3>3, <4>2 DEF NoSource, SourceType, HeadBuild
      <4> QED
        BY <4>1, <4>3
    <3> QED
      BY <3>1, <3>2, <3>3
  <2>2. CASE FetchFromGitHub
    <3> DEFINE s == drawer.source
    <3>1. s \in SourceType /\ s.state = "fetching" /\ s.from = drawer.build
          /\ (\/ s.origin = drawer.build.source /\ s.revision = drawer.build.revision
              \/ drawer.build.source = "prime" /\ s.origin = "rancher" /\ s.revision = drawer.build.oss)
      BY <1>1, <2>2 DEF FetchFromGitHub, DrawerType, Declared
    <3>2. PICK fetched \in BOOLEAN :
            drawer' = [drawer EXCEPT !.source =
              CASE fetched -> [s EXCEPT !.state = "shown"]
                [] ~fetched /\ s.origin = "prime" /\ s.from.oss # NoCommit ->
                     [s EXCEPT !.origin = "rancher", !.revision = s.from.oss]
                [] OTHER -> [NoSource EXCEPT !.state = "failed"]]
      BY <2>2 DEF FetchFromGitHub
    <3>3. CASE fetched
      <4>1. [s EXCEPT !.state = "shown"] \in SourceType
        BY <3>1 DEF SourceType
      <4>2. drawer' = [drawer EXCEPT !.source = [s EXCEPT !.state = "shown"]]
        BY <3>2, <3>3
      <4>3. PICK t \in SourceType : t = [s EXCEPT !.state = "shown"]
        BY <4>1
      <4>4. t.from = s.from /\ t.origin = s.origin /\ t.revision = s.revision
        BY <3>1, <4>3 DEF SourceType
      <4> HIDE DEF s
      <4> QED
        BY <3>1, <4>2, <4>3, <4>4
    <3>4. CASE ~fetched /\ s.origin = "prime" /\ s.from.oss # NoCommit
      <4>1. drawer.build.source = "prime" /\ s.from.oss \in Known
        BY <1>1, <3>1, <3>4, EvidenceAssumption
      <4>2. PICK t : t = [s EXCEPT !.origin = "rancher", !.revision = s.from.oss]
        OBVIOUS
      <4>3. t \in SourceType /\ t.from = drawer.build /\ t.origin = "rancher" /\ t.revision = drawer.build.oss
        BY <3>1, <4>1, <4>2 DEF SourceType
      <4>4. drawer' = [drawer EXCEPT !.source = t]
        BY <3>2, <3>4, <4>2
      <4> QED
        BY <4>1, <4>3, <4>4
    <3>5. CASE ~fetched /\ ~(s.origin = "prime" /\ s.from.oss # NoCommit)
      <4>1. drawer' = [drawer EXCEPT !.source = [NoSource EXCEPT !.state = "failed"]]
        BY <3>2, <3>5
      <4> QED
        BY <2>0, <4>1
    <3> QED
      BY <3>3, <3>4, <3>5
  <2> QED
    BY <2>1, <2>2
<1>3. PICK s \in SourceType :
        /\ drawer' = [drawer EXCEPT !.source = s]
        /\ s.state \in {"fetching", "shown"} =>
             /\ s.from = drawer.build
             /\ \/ s.origin = drawer.build.source /\ s.revision = drawer.build.revision
                \/ drawer.build.source = "prime" /\ s.origin = "rancher" /\ s.revision = drawer.build.oss
  BY <1>2
<1>4. /\ drawer' \in DrawerType /\ drawer'.state = "shown" /\ drawer'.build = drawer.build
      /\ drawer'.skipped = drawer.skipped /\ drawer'.yaml = drawer.yaml /\ drawer'.source = s
  BY <1>1, <1>3 DEF DrawerType
<1>5. Topmost(drawer')
  BY <1>1, <1>4 DEF Topmost
<1>6. Declared(drawer')
  BY <1>1, <1>3, <1>4 DEF Declared
<1> QED
  BY <1>1, <1>4, <1>5, <1>6 DEF DrawerInv

\* The build.yaml shown for an image is the one a container of the image would
\* see, when no layer was passed over, and none is shown only when there is
\* none; the file shown for its source is of a commit that it declares. For
\* any layers and paths, whatever the tags do meanwhile (findBuildYAML,
\* FetchSourceBuildYAML).
THEOREM BuildYAMLHolds == EvidenceSpec => []BuildYAMLIsGenuine
<1>1. EvidenceInit => DrawerInv
  <2> SUFFICES ASSUME EvidenceInit PROVE DrawerInv
    OBVIOUS
  <2>1. tags \in [HeadTags -> HeadBuild]
    BY EvidenceAssumption DEF EvidenceInit, HeadBuild
  <2> QED
    BY <2>1, NoDrawerType DEF EvidenceInit, DrawerInv
<1>2. DrawerInv /\ [PRNext \/ DrawerNext \/ Moves]_evidenceVars => DrawerInv'
  <2> SUFFICES ASSUME DrawerInv, [PRNext \/ DrawerNext \/ Moves]_evidenceVars PROVE DrawerInv'
    OBVIOUS
  <2>1. ASSUME drawer' = drawer, tags' \in [HeadTags -> HeadBuild]
        PROVE  DrawerInv'
    BY <2>1 DEF DrawerInv
  <2>2. CASE PRNext
    BY <2>1, <2>2 DEF PRNext, FetchPull, InspectImage, CompareRevision, Summarize, DrawerInv
  <2>3. CASE Moves
    BY <2>1, <2>3 DEF Moves, MoveTag, DrawerInv, HeadBuild
  <2>4. CASE UNCHANGED evidenceVars
    BY <2>1, <2>4 DEF evidenceVars, DrawerInv
  <2>5. CASE CloseDrawer
    BY <2>5, NoDrawerType DEF CloseDrawer, DrawerInv
  <2> QED
    BY <2>2, <2>3, <2>4, <2>5, OpenBegins, ScanKeeps, SourceKeeps DEF DrawerNext
<1>3. DrawerInv => BuildYAMLIsGenuine
  <2> SUFFICES ASSUME DrawerInv PROVE BuildYAMLIsGenuine
    OBVIOUS
  <2>1. EmbeddedIsTopmost
    BY DEF DrawerInv, EmbeddedIsTopmost, Topmost
  <2>2. drawer.source.state = "shown" => drawer.state = "shown"
    BY DEF DrawerInv, DrawerType, ScanProgress, NoDrawer, NoSource
  <2>3. SourceIsDeclared
    BY <2>2 DEF DrawerInv, SourceIsDeclared, Declared
  <2> QED
    BY <2>1, <2>3 DEF BuildYAMLIsGenuine
<1> QED
  BY <1>1, <1>2, <1>3, PTL DEF EvidenceSpec

-----------------------------------------------------------------------------
(* The verdicts of a search.                                               *)

(* The registry keeps its type, and what it once answered with an image it *)
(* goes on answering.                                                      *)
RegistryType == registry \in [DOMAIN Registry -> [Roles -> [StagingTags -> HeldAnswer]]]

(* What an inspection may call a pair that is there, by the answers `at'   *)
(* of the staging registry.                                                *)
PairFits(v, server, agent) ==
  /\ ExactPair(v, server, agent) /\ ServerProvenance(v, server)
  /\ server.created # 0 /\ agent.created # 0
Judged(v, status, at) ==
  /\ v \in StagingTags /\ HeadKind(v) = "immutable"
  /\ at["server"][v].status = "found" /\ at["agent"][v].status = "found"
  /\ status = "verified" <=> PairFits(v, at["server"][v], at["agent"][v])

Verdicts == {"verified", "invalid"}
PairsJudged == \A c \in checked : c.pair.status \in Verdicts => Judged(c.version, c.pair.status, registry["staging"])

LookupInv ==
  /\ RegistryType
  /\ PairsJudged
  /\ shown.state = "searching" => shown.rows = {}
  /\ ReportsAgree

(* A verdict that is not an error is a verdict about two images that were  *)
(* found.                                                                  *)
LEMMA CandidateTells ==
  ASSUME NEW v, NEW server \in ImageAnswer, NEW agent \in ImageAnswer,
         StagingCandidate(v, server, agent).status \in Verdicts
  PROVE  /\ server.status = "found" /\ agent.status = "found"
         /\ StagingCandidate(v, server, agent).status = "verified" <=> PairFits(v, server, agent)
<1>1. /\ server.status \in {"found", "missing", "error"}
      /\ agent.status \in {"found", "missing", "error"}
  BY DEF ImageAnswer
<1>2. CASE server.status # "found"
  <2>1. StagingCandidate(v, server, agent) = [version |-> v, status |-> server.status, at |-> 0]
    BY <1>2 DEF StagingCandidate
  <2> QED BY <1>1, <1>2, <2>1 DEF Verdicts
<1>3. CASE server.status = "found" /\ agent.status # "found"
  <2>1. StagingCandidate(v, server, agent) = [version |-> v, status |-> agent.status, at |-> 0]
    BY <1>3 DEF StagingCandidate
  <2> QED BY <1>1, <1>3, <2>1 DEF Verdicts
<1>4. CASE server.status = "found" /\ agent.status = "found"
  <2>1. CASE PairFits(v, server, agent)
    <3>1. StagingCandidate(v, server, agent)
            = [[version |-> v, status |-> "verified", at |-> 0] EXCEPT !.at = CompletedAt(server, agent)]
      BY <1>4, <2>1 DEF StagingCandidate, PairFits
    <3>2. StagingCandidate(v, server, agent).status = "verified"
      BY <3>1
    <3> QED BY <1>4, <2>1, <3>2
  <2>2. CASE ~PairFits(v, server, agent)
    <3>1. StagingCandidate(v, server, agent) = [version |-> v, status |-> "invalid", at |-> 0]
      BY <1>4, <2>2 DEF StagingCandidate, PairFits
    <3>2. StagingCandidate(v, server, agent).status = "invalid"
      BY <3>1
    <3> QED BY <1>4, <2>2, <3>2
  <2> QED BY <2>1, <2>2
<1> QED BY <1>2, <1>3, <1>4

(* A lookup reads what the registry would answer, or fails.                *)
LEMMA ReadingTells ==
  ASSUME RegistryType, NEW read \in Readings,
         NEW place \in DOMAIN Registry, NEW role \in Roles, NEW v \in StagingTags
  PROVE  /\ read[place][role][v] \in ImageAnswer
         /\ read[place][role][v] \in {registry[place][role][v], FailedLookup}
<1>1. /\ place \in DOMAIN registry /\ registry[place] \in [Roles -> [StagingTags -> HeldAnswer]]
      /\ registry[place][role] \in [StagingTags -> HeldAnswer]
      /\ registry[place][role][v] \in ImageAnswer
  BY DEF RegistryType, HeldAnswer
<1>2. FailedLookup \in ImageAnswer
  <2>1. NoVer \in VersionRecord
    BY DEF NoVer, Ver, VersionKinds, VersionRecord
  <2>2. FailedLookup = [status |-> "error", canonical |-> [role |-> None, version |-> NoVer, spelling |-> "plain"],
                        source |-> None, oss |-> 0, created |-> 0]
    BY DEF FailedLookup, Answer
  <2>3. [role |-> None, version |-> NoVer, spelling |-> "plain"] \in [role : {"server", "agent", None}, version : VersionRecord, spelling : {"plain", "cased", "schemed"}]
    BY <2>1
  <2> QED BY <2>2, <2>3 DEF ImageAnswer, None
<1>3. CASE read = registry
  BY <1>1, <1>3
<1>4. ASSUME NEW r \in DOMAIN registry, NEW failed \in Roles,
             read = [registry EXCEPT ![r][failed] = [w \in DOMAIN @ |-> FailedLookup]]
      PROVE  /\ read[place][role][v] \in ImageAnswer
             /\ read[place][role][v] \in {registry[place][role][v], FailedLookup}
  <2>1. CASE r = place /\ failed = role
    <3>1. read[place][role] = [w \in DOMAIN registry[place][role] |-> FailedLookup]
      BY <1>1, <1>4, <2>1
    <3>2. read[place][role][v] = FailedLookup
      BY <1>1, <3>1
    <3> QED BY <1>2, <3>2
  <2>2. CASE ~(r = place /\ failed = role)
    <3>1. read[place][role] = registry[place][role]
      BY <1>1, <1>4, <2>2
    <3> QED BY <1>1, <3>1
  <2> QED BY <2>1, <2>2
<1> QED BY <1>3, <1>4 DEF Readings

(* A published head fills a gap and disturbs nothing that was found.       *)
LEMMA PublishKeeps ==
  ASSUME RegistryType, NEW v \in Published, NEW role \in Roles, PublishImage(v, role)
  PROVE  /\ RegistryType'
         /\ \A place \in DOMAIN Registry, kind \in Roles, w \in StagingTags :
              registry[place][kind][w].status = "found" =>
                registry'[place][kind][w] = registry[place][kind][w]
<1> DEFINE image == Answer("found", role, v, "prime", v.commit, 9)
<1>1. /\ "staging" \in DOMAIN registry /\ registry["staging"] \in [Roles -> [StagingTags -> HeldAnswer]]
      /\ registry["staging"][role] \in [StagingTags -> HeldAnswer]
  BY RegistryAssumption DEF RegistryType
<1>2. image \in HeldAnswer
  <2>1. v \in VersionRecord /\ v.commit \in Nat
    BY RegistryAssumption DEF VersionRecord
  <2>2. image = [status |-> "found", canonical |-> [role |-> role, version |-> v, spelling |-> "plain"],
                 source |-> "prime", oss |-> v.commit, created |-> 9]
    BY DEF Answer
  <2>3. [role |-> role, version |-> v, spelling |-> "plain"] \in [role : {"server", "agent", None}, version : VersionRecord, spelling : {"plain", "cased", "schemed"}]
    BY <2>1 DEF Roles
  <2>4. image \in ImageAnswer
    BY <2>1, <2>2, <2>3 DEF ImageAnswer
  <2> QED BY <2>2, <2>4 DEF HeldAnswer
<1>3. registry' = [registry EXCEPT !["staging"][role][v] = image] /\ registry["staging"][role][v].status = "missing"
  BY DEF PublishImage
<1> HIDE DEF image
<1>4. [registry["staging"][role] EXCEPT ![v] = image] \in [StagingTags -> HeldAnswer]
  BY <1>1, <1>2
<1>5. registry' = [registry EXCEPT !["staging"] =
                     [registry["staging"] EXCEPT ![role] = [registry["staging"][role] EXCEPT ![v] = image]]]
  BY <1>3
<1>6. RegistryType'
  <2>1. [registry["staging"] EXCEPT ![role] = [registry["staging"][role] EXCEPT ![v] = image]]
          \in [Roles -> [StagingTags -> HeldAnswer]]
    BY <1>1, <1>4
  <2> QED BY <1>5, <2>1 DEF RegistryType
<1>7. ASSUME NEW place \in DOMAIN Registry, NEW kind \in Roles, NEW w \in StagingTags,
             registry[place][kind][w].status = "found"
      PROVE  registry'[place][kind][w] = registry[place][kind][w]
  <2>0. place \in DOMAIN registry
    BY DEF RegistryType
  <2>1. CASE place # "staging"
    BY <1>5, <2>0, <2>1
  <2>2. CASE place = "staging"
    <3>1. registry'["staging"] = [registry["staging"] EXCEPT ![role] = [registry["staging"][role] EXCEPT ![v] = image]]
      BY <1>1, <1>5
    <3>2. CASE kind = role
      <4>1. registry'["staging"][kind] = [registry["staging"][role] EXCEPT ![v] = image]
        BY <1>1, <3>1, <3>2
      <4>2. w # v
        BY <1>3, <1>7, <2>2, <3>2
      <4> QED BY <1>1, <2>2, <3>2, <4>1, <4>2
    <3>3. CASE kind # role
      BY <1>1, <2>2, <3>1, <3>3
    <3> QED BY <3>2, <3>3
  <2> QED BY <2>1, <2>2
<1> QED BY <1>6, <1>7

(* The two rules come to the same for an immutable head, but for the       *)
(* spellings that only one of them takes.                                  *)
Spells(spelling, server, agent) == spelling \in {server.canonical.spelling, agent.canonical.spelling}
DrawerFits(v, server, agent) ==
  /\ Consistent("server", v, server) /\ Consistent("agent", v, agent)
  /\ server.created # 0 /\ agent.created # 0
LEMMA RulesAgree ==
  ASSUME NEW v, HeadKind(v) = "immutable", NEW server \in ImageAnswer, NEW agent \in ImageAnswer
  PROVE  /\ PairFits(v, server, agent) /\ ~Spells("schemed", server, agent) => DrawerFits(v, server, agent)
         /\ /\ DrawerFits(v, server, agent)
            /\ ~Spells("cased", server, agent) /\ server.source # "primeAlike"
            => PairFits(v, server, agent)
<1>1. v.kind = "primeCommit"
  BY DEF HeadKind, None
<1>2. ExactPair(v, server, agent) <=> NamesItself("server", v, server) /\ NamesItself("agent", v, agent)
  BY <1>1 DEF ExactPair, LabelsPair, CommitHead
<1>3. ServerProvenance(v, server) <=> server.source = "prime" /\ server.oss # 0 /\ server.oss = v.commit
  BY <1>1 DEF ServerProvenance
<1>4. /\ Consistent("server", v, server) <=>
           /\ server.canonical.role = "server" /\ server.canonical.version = v
           /\ server.canonical.spelling # "schemed"
           /\ server.source \in {"prime", "primeAlike"} /\ server.oss # 0 /\ server.oss = v.commit
      /\ Consistent("agent", v, agent) <=>
           /\ agent.canonical.role = "agent" /\ agent.canonical.version = v
           /\ agent.canonical.spelling # "schemed"
  BY <1>1 DEF Consistent
<1> QED BY <1>2, <1>3, <1>4 DEF PairFits, DrawerFits, NamesItself, Spells

LEMMA LookupBegins == LookupInit => LookupInv
BY RegistryAssumption DEF LookupInit, LookupInv, RegistryType, PairsJudged, ReportsAgree

(* An inspection adds a pair it has judged.                                *)
LEMMA InspectKeeps ==
  ASSUME LookupInv, NEW v \in Names, InspectPair(v)
  PROVE  PairsJudged'
<1>1. PICK read \in Readings :
        checked' = checked \union
          {[pair |-> StagingCandidate(v, read["staging"]["server"][v], read["staging"]["agent"][v]), version |-> v,
            built |-> [server |-> read["staging"]["server"][v].created,
                       agent |-> IF read["staging"]["server"][v].status = "found"
                                 THEN read["staging"]["agent"][v].created ELSE 0]]}
  BY DEF InspectPair
<1>2. registry' = registry
  BY DEF InspectPair
<1>3. v \in StagingTags /\ HeadKind(v) = "immutable"
  BY DEF Names
<1> DEFINE server == read["staging"]["server"][v]
           agent == read["staging"]["agent"][v]
<1>4. /\ server \in ImageAnswer /\ agent \in ImageAnswer
      /\ server.status = "found" => server = registry["staging"]["server"][v]
      /\ agent.status = "found" => agent = registry["staging"]["agent"][v]
  BY <1>3, ReadingTells, RegistryAssumption DEF LookupInv, Roles, FailedLookup, Answer
<1>5. ASSUME StagingCandidate(v, server, agent).status \in Verdicts
      PROVE  Judged(v, StagingCandidate(v, server, agent).status, registry["staging"])
  <2>1. /\ server.status = "found" /\ agent.status = "found"
        /\ StagingCandidate(v, server, agent).status = "verified" <=> PairFits(v, server, agent)
    BY <1>4, <1>5, CandidateTells
  <2> QED BY <1>3, <1>4, <2>1 DEF Judged
<1>6. ASSUME NEW c \in checked', c.pair.status \in Verdicts
      PROVE  Judged(c.version, c.pair.status, registry["staging"])
  <2>1. CASE c \in checked
    BY <1>6, <2>1 DEF LookupInv, PairsJudged
  <2>2. CASE c.version = v /\ c.pair = StagingCandidate(v, server, agent)
    BY <1>5, <1>6, <2>2
  <2> QED BY <1>1, <2>1, <2>2
<1> QED BY <1>2, <1>6 DEF PairsJudged, Judged, StagingTags

(* A row that carries a verdict carries the one of a pair that was judged. *)
LEMMA ResponseTells ==
  ASSUME PairsJudged, NEW r \in Response, r.status \in Verdicts
  PROVE  Judged(r.version, r.status, registry["staging"])
<1>1. PICK g \in groups : \E v \in g.result.tags : r = RowOf(g.target, v)
  BY DEF Response
<1>2. PICK v : r = RowOf(g.target, v)
  BY <1>1
<1> DEFINE own == {c \in checked : c.version = v}
<1>3. CASE own = {}
  <2>1. r.status = IF PrimeHead(v) THEN "unverified" ELSE None
    BY <1>2, <1>3 DEF RowOf, Row
  <2> QED BY <2>1 DEF Verdicts, None
<1>4. CASE own # {}
  <2>1. PICK c \in own : c = CHOOSE x \in own : TRUE
    BY <1>4
  <2>2. r = Row(g.target, v, c.pair.status, Rank(c), IF c.pair.at # 0 THEN c.pair.at ELSE c.built[g.target[2]])
    BY <1>2, <1>4, <2>1 DEF RowOf
  <2>3. r.version = c.version /\ r.status = c.pair.status
    BY <2>1, <2>2 DEF Row
  <2> QED BY <2>1, <2>3 DEF PairsJudged
<1> QED BY <1>3, <1>4

(* What was judged is what the drawer reports.                             *)
LEMMA JudgedAgrees ==
  ASSUME RegistryType, NEW v, NEW status, Judged(v, status, registry["staging"]),
         NEW server, server = Answering("server", v), NEW agent, agent = Answering("agent", v)
  PROVE  /\ status = "verified" /\ ~Spells("schemed", server, agent) => DrawerFits(v, server, agent)
         /\ status = "invalid" /\ ~Spells("cased", server, agent) /\ server.source # "primeAlike" =>
              ~DrawerFits(v, server, agent)
<1>1. v \in StagingTags /\ HeadKind(v) = "immutable"
  BY DEF Judged
<1>2. server \in ImageAnswer /\ agent \in ImageAnswer
  BY <1>1, RegistryAssumption DEF RegistryType, Answering, Roles, HeldAnswer
<1>3. status = "verified" <=> PairFits(v, server, agent)
  BY DEF Judged, Answering
<1> QED BY <1>1, <1>2, <1>3, RulesAgree

LEMMA LookupStep == LookupInv /\ [LookupNext]_lookupVars => LookupInv'
<1> SUFFICES ASSUME LookupInv, [LookupNext]_lookupVars PROVE LookupInv'
  OBVIOUS
<1> USE DEF LookupInv
<1>1. ASSUME shown' = shown, shown.state = "searching"
      PROVE  (shown.state = "searching" => shown.rows = {})' /\ ReportsAgree'
  BY <1>1 DEF ReportsAgree
<1>2. ASSUME NEW t \in Targets(query), SearchTarget(t)
      PROVE  LookupInv'
  <2>1. UNCHANGED <<registry, checked, shown>> /\ shown.state = "searching"
    BY <1>2 DEF SearchTarget
  <2> QED BY <1>1, <2>1 DEF RegistryType, PairsJudged
<1>3. ASSUME NEW v \in Names, InspectPair(v)
      PROVE  LookupInv'
  <2>1. UNCHANGED <<registry, shown>> /\ shown.state = "searching"
    BY <1>3 DEF InspectPair, Verifying
  <2> QED BY <1>1, <1>3, <2>1, InspectKeeps DEF RegistryType
<1>4. CASE Finish
  <2>1. UNCHANGED <<registry, query, groups, checked>>
    BY <1>4 DEF Finish, Settle
  <2>2. RegistryType' /\ PairsJudged'
    BY <2>1 DEF RegistryType, PairsJudged
  <2>3. \/ shown' = [state |-> "failed", rows |-> {}]
        \/ shown' = [state |-> "done", rows |-> Response]
    BY <1>4 DEF Finish, Settle
  <2>4. shown'.state # "searching"
    BY <2>3
  <2>5. ASSUME NEW r \in shown'.rows, r.status \in Verdicts
        PROVE  Judged(r.version, r.status, registry'["staging"])
    BY <2>1, <2>3, <2>5, ResponseTells
  <2>6. ReportsAgree'
    <3>1. ASSUME NEW r \in shown'.rows, r.status \in Verdicts,
                 NEW server, server = Answering("server", r.version), NEW agent, agent = Answering("agent", r.version)
          PROVE  /\ r.status = "verified" /\ ~Spells("schemed", server, agent) => DrawerFits(r.version, server, agent)
                 /\ r.status = "invalid" /\ ~Spells("cased", server, agent) /\ server.source # "primeAlike" =>
                      ~DrawerFits(r.version, server, agent)
      <4>1. Judged(r.version, r.status, registry["staging"])
        BY <2>1, <2>5, <3>1
      <4> QED BY <3>1, <4>1, JudgedAgrees
    <3>2. \A role, v : Answering(role, v)' = Answering(role, v)
      BY <2>1 DEF Answering
    <3> QED BY <3>1, <3>2 DEF ReportsAgree, Verdicts, Spells, DrawerFits, Consistent
  <2> QED BY <2>2, <2>4, <2>6
<1>5. ASSUME NEW v \in Published, NEW role \in Roles, PublishDuring(v, role)
      PROVE  LookupInv'
  <2>1. UNCHANGED <<checked, shown>> /\ shown.state = "searching" /\ PublishImage(v, role)
    BY <1>5 DEF PublishDuring
  <2>2. /\ RegistryType'
        /\ \A kind \in Roles, w \in StagingTags :
             registry["staging"][kind][w].status = "found" =>
               registry'["staging"][kind][w] = registry["staging"][kind][w]
    BY <2>1, PublishKeeps, RegistryAssumption
  <2>3. ASSUME NEW c \in checked, c.pair.status \in Verdicts
        PROVE  Judged(c.version, c.pair.status, registry'["staging"])
    <3>1. Judged(c.version, c.pair.status, registry["staging"])
      BY <2>3 DEF PairsJudged
    <3> QED BY <2>2, <3>1 DEF Judged, Roles
  <2>4. PairsJudged'
    BY <2>1, <2>3 DEF PairsJudged, Judged
  <2> QED BY <1>1, <2>1, <2>2, <2>4
<1>6. CASE UNCHANGED lookupVars
  BY <1>6 DEF lookupVars, RegistryType, PairsJudged, ReportsAgree, Answering
<1> QED BY <1>2, <1>3, <1>4, <1>5, <1>6 DEF LookupNext

(* The ranking and the detail drawer, each with its own rules for labels,  *)
(* agree on every pair of every response whose labels are spelled as both  *)
(* of them take it, and each errs to one side alone on the others.         *)
THEOREM ReportsHold == LookupSpec => []ReportsAgree
<1>1. LookupInv => ReportsAgree
  BY DEF LookupInv
<1> QED BY <1>1, LookupBegins, LookupStep, PTL DEF LookupSpec
-----------------------------------------------------------------------------
(* The lists that a search returns, and the ranking that rests on them.    *)

(* What a registry held when the search began it goes on holding.          *)
Lasting ==
  \A place \in DOMAIN Registry, role \in Roles, v \in StagingTags :
    Found(Registry, place, role, v) => registry[place][role][v] = Registry[place][role][v]

(* A list is of a repository that was asked for.                           *)
GroupsKnown ==
  \A g \in groups :
    /\ g.target \in Targets(query) /\ g.result.tags \subseteq StagingTags
    /\ ~ExactTag(query) => g.result.tags \subseteq Range(TagOrder)

(* A verified pair is what staging holds now, and a pair that could be     *)
(* verified from the start was, unless a lookup failed.                    *)
Standing(v) == StagingCandidate(v, registry["staging"]["server"][v], registry["staging"]["agent"][v])
PairsStand ==
  /\ IsFiniteSet(checked)
  /\ checked # {} => Options(query).verify
  /\ \A c \in checked :
       /\ c.version \in StagingTags
       /\ c.pair.status = "verified" => c.pair = Standing(c.version)
       /\ Initially(c.version).status = "verified" => c.pair.status = "error" \/ c.pair = Initially(c.version)

SearchInv ==
  /\ LookupInv
  /\ query \in Queries
  /\ Lasting /\ GroupsKnown /\ GroupsAreHonest /\ PairsStand /\ RankingIsComplete

(* A target is a repository of a registry that is known.                   *)
LEMMA TargetTells ==
  ASSUME NEW q \in Queries, NEW t \in Targets(q)
  PROVE  t[1] \in DOMAIN Registry /\ t[2] \in Roles
<1> DEFINE registries == CASE q.registry # "all" -> {q.registry}
                           [] q.registry = "all" /\ Options(q).primeOnly -> {"staging"}
                           [] OTHER -> KnownRegistries
           roles == IF q.role = "all" THEN Roles ELSE {q.role}
<1>1. registries \subseteq DOMAIN Registry
  BY QueryAssumption, TagAssumption, RegistryAssumption
<1>2. roles \subseteq Roles
  BY QueryAssumption
<1>3. t \in registries \X roles
  BY DEF Targets
<1> HIDE DEF registries, roles
<1> QED BY <1>1, <1>2, <1>3

(* A list that a scan gives holds tags that are there and answer the       *)
(* request; all of them, when it is not marked as cut short.               *)
LEMMA ScanIsHonest ==
  ASSUME RegistryType, query \in Queries, NEW t \in Targets(query), NEW pages \in 0..MaxPages
  PROVE  LET group == ScanTags(query, t, Listed(t), pages)
         IN /\ \A v \in group.tags : v \in Range(TagOrder) /\ v \in StagingTags
                                     /\ Found(registry, t[1], t[2], v) /\ Matches(query, v)
            /\ ~group.truncated =>
                 \A v \in Range(TagOrder) :
                   Found(registry, t[1], t[2], v) /\ Matches(query, v) /\ Recent(query, t, v) => v \in group.tags
<1> DEFINE listed == Listed(t)
           read == Read(listed, pages)
           stops == Stops(query, {i \in read : Matches(query, TagOrder[i])})
           scanned == {i \in read : \A s \in stops : i <= s}
           broken == stops = {} /\ read # listed /\ Cardinality(read) < MaxTagScan
           found == {i \in scanned : Matches(query, TagOrder[i]) /\ Recent(query, t, TagOrder[i])}
           over == Options(query).full /\ Cardinality(found) > query.limit
           kept == {i \in found : over => Cardinality({j \in found : SortedBefore(j, i)}) < query.limit}
           group == ScanTags(query, t, listed, pages)
<1>1. group = [error |-> broken, truncated |-> scanned # listed \/ over, tags |-> TagsAt(kept)]
  BY DEF ScanTags, Group
<1>2. scanned \subseteq listed /\ listed \subseteq DOMAIN TagOrder
  BY DEF Read, FirstOf, Listed
<1>3. \A i \in DOMAIN TagOrder : TagOrder[i] \in StagingTags /\ TagOrder[i] \in Range(TagOrder)
  BY TagAssumption DEF Range
<1>4. \A i \in listed : Found(registry, t[1], t[2], TagOrder[i])
  <2> SUFFICES ASSUME NEW i \in listed PROVE Found(registry, t[1], t[2], TagOrder[i])
    OBVIOUS
  <2>1. t[1] \in DOMAIN Registry /\ t[2] \in Roles /\ TagOrder[i] \in StagingTags
    BY <1>2, <1>3, TargetTells
  <2>2. registry[t[1]][t[2]][TagOrder[i]] \in HeldAnswer
    BY <2>1 DEF RegistryType
  <2>3. registry[t[1]][t[2]][TagOrder[i]].status # "missing"
    BY DEF Listed
  <2> QED BY <2>2, <2>3 DEF HeldAnswer, ImageAnswer, Found
<1> HIDE DEF group, kept, broken, over
<1>0. group.truncated = (scanned # listed \/ over) /\ group.tags = TagsAt(kept)
  BY <1>1
<1> HIDE DEF scanned, listed
<1>5. ASSUME NEW v \in group.tags
      PROVE  v \in Range(TagOrder) /\ v \in StagingTags /\ Found(registry, t[1], t[2], v) /\ Matches(query, v)
  <2>1. PICK i \in kept : v = TagOrder[i]
    BY <1>0 DEF TagsAt
  <2>2. i \in listed /\ i \in DOMAIN TagOrder /\ Matches(query, TagOrder[i])
    BY <1>2 DEF kept
  <2> QED BY <2>1, <2>2, <1>3, <1>4
<1>6. ASSUME ~group.truncated, NEW v \in Range(TagOrder),
             Found(registry, t[1], t[2], v), Matches(query, v), Recent(query, t, v)
      PROVE  v \in group.tags
  <2>1. scanned = listed /\ ~over
    BY <1>0, <1>6
  <2>2. PICK i \in DOMAIN TagOrder : v = TagOrder[i]
    BY DEF Range
  <2>3. i \in listed
    BY <1>6, <2>2 DEF listed, Listed, Found
  <2>4. i \in kept
    BY <1>6, <2>1, <2>2, <2>3 DEF kept
  <2> QED BY <1>0, <2>2, <2>4 DEF TagsAt
<1> QED BY <1>5, <1>6 DEF group, listed
(* So does the list of a tag that is asked for by name, when its lookup    *)
(* worked.                                                                 *)
LEMMA ExactIsHonest ==
  ASSUME RegistryType, query \in Queries, ExactTag(query), NEW t \in Targets(query), NEW read \in Readings
  PROVE  LET group == ExactGroup(query, read, t)
         IN /\ \A v \in group.tags : v \in StagingTags /\ Found(registry, t[1], t[2], v) /\ Matches(query, v)
            /\ ~group.error =>
                 \A v \in Range(TagOrder) :
                   Found(registry, t[1], t[2], v) /\ Matches(query, v) /\ Recent(query, t, v) => v \in group.tags
<1> DEFINE answer == read[t[1]][t[2]][query.v].status
           group == ExactGroup(query, read, t)
<1>1. /\ group.error = (answer = "error")
      /\ group.tags = {v \in {query.v} : answer = "found" /\ Matches(query, v) /\ Recent(query, t, v)}
  BY DEF ExactGroup
<1>2. query.v \in StagingTags /\ query.form \in {"exact", "reference"}
  BY QueryAssumption DEF ExactTag
<1>3. read[t[1]][t[2]][query.v] \in {registry[t[1]][t[2]][query.v], FailedLookup}
  BY <1>2, TargetTells, ReadingTells
<1>4. FailedLookup.status = "error"
  BY DEF FailedLookup, Answer
<1> HIDE DEF group
<1>5. \A v : Matches(query, v) => v = query.v
  BY <1>2 DEF Matches, MatchesText
<1>6. ASSUME NEW v \in group.tags
      PROVE  v \in StagingTags /\ Found(registry, t[1], t[2], v) /\ Matches(query, v)
  BY <1>1, <1>2, <1>3, <1>4 DEF Found
<1>7. ASSUME ~group.error, NEW v \in Range(TagOrder),
             Found(registry, t[1], t[2], v), Matches(query, v), Recent(query, t, v)
      PROVE  v \in group.tags
  <2>1. v = query.v
    BY <1>5, <1>7
  <2>2. answer = "found"
    BY <1>1, <1>3, <1>4, <1>7, <2>1 DEF Found
  <2> QED BY <1>1, <1>7, <2>1, <2>2
<1> QED BY <1>6, <1>7 DEF group

(* A new list is honest when it is given.                                  *)
LEMMA SearchKeeps ==
  ASSUME SearchInv, NEW t \in Targets(query), SearchTarget(t)
  PROVE  GroupsKnown' /\ GroupsAreHonest'
<1> DEFINE Honest(group) ==
             /\ group.tags \subseteq StagingTags /\ (~ExactTag(query) => group.tags \subseteq Range(TagOrder))
             /\ \A v \in group.tags : Found(registry, t[1], t[2], v) /\ Matches(query, v)
             /\ ~group.error /\ ~group.truncated =>
                  \A v \in Range(TagOrder) :
                    Found(Registry, t[1], t[2], v) /\ Matches(query, v) /\ Recent(query, t, v) => v \in group.tags
<1>0. RegistryType /\ query \in Queries /\ t[1] \in DOMAIN Registry /\ t[2] \in Roles
  BY TargetTells DEF SearchInv, LookupInv
<1>1. \A v \in Range(TagOrder) : Found(Registry, t[1], t[2], v) => Found(registry, t[1], t[2], v)
  <2>1. \A v \in Range(TagOrder) : v \in StagingTags
    BY TagAssumption DEF Range
  <2> QED BY <1>0, <2>1 DEF SearchInv, Lasting, Found
<1>2. \E group : /\ groups' = groups \union {[target |-> t, result |-> group]}
                 /\ Honest(group)
  <2>1. CASE ExactTag(query)
    <3>1. PICK read \in Readings :
            \/ groups' = groups \union {[target |-> t, result |-> ExactGroup(query, read, t)]}
            \/ groups' = groups \union {[target |-> t, result |-> Undated(ExactGroup(query, read, t))]}
      BY <2>1 DEF SearchTarget
    <3> DEFINE group == ExactGroup(query, read, t)
    <3>2. Honest(group)
      BY <1>0, <1>1, <2>1, ExactIsHonest
    <3>3. Honest(Undated(group))
      <4>1. group = [error |-> group.error, truncated |-> group.truncated, tags |-> group.tags]
        BY DEF ExactGroup
      <4> HIDE DEF group
      <4>2. Undated(group).error /\ Undated(group).tags = {}
        BY <4>1 DEF Undated
      <4> QED BY <4>2
    <3> QED BY <3>1, <3>2, <3>3
  <2>2. CASE ~ExactTag(query)
    <3>1. PICK pages \in 0..MaxPages :
            \E group \in {ScanTags(query, t, Listed(t), pages)} :
              \/ groups' = groups \union {[target |-> t, result |-> group]}
              \/ groups' = groups \union {[target |-> t, result |-> Undated(group)]}
      BY <2>2 DEF SearchTarget
    <3> DEFINE group == ScanTags(query, t, Listed(t), pages)
    <3>2. \/ groups' = groups \union {[target |-> t, result |-> group]}
          \/ groups' = groups \union {[target |-> t, result |-> Undated(group)]}
      BY <3>1
    <3>3. Honest(group)
      BY <1>0, <1>1, ScanIsHonest
    <3>4. Honest(Undated(group))
      <4>1. group = [error |-> group.error, truncated |-> group.truncated, tags |-> group.tags]
        BY DEF ScanTags, Group
      <4> HIDE DEF group
      <4>2. Undated(group).error /\ Undated(group).tags = {}
        BY <4>1 DEF Undated
      <4> QED BY <4>2
    <3> QED BY <3>2, <3>3, <3>4
  <2> QED BY <2>1, <2>2
<1>3. PICK group : groups' = groups \union {[target |-> t, result |-> group]} /\ Honest(group)
  BY <1>2
<1>4. registry' = registry /\ query' = query
  BY DEF SearchTarget
<1>5. \A g \in groups' : g \in groups \/ (g.target = t /\ g.result = group)
  BY <1>3
<1>6. GroupsKnown'
  BY <1>3, <1>4, <1>5 DEF SearchInv, GroupsKnown, ExactTag, Targets
<1>7. GroupsAreHonest'
  <2> SUFFICES ASSUME NEW g \in groups'
               PROVE  /\ \A v \in g.result.tags : Found(registry, g.target[1], g.target[2], v) /\ Matches(query, v)
                      /\ ~g.result.error /\ ~g.result.truncated =>
                           \A v \in Range(TagOrder) :
                             Found(Registry, g.target[1], g.target[2], v) /\ Matches(query, v)
                               /\ Recent(query, g.target, v) => v \in g.result.tags
    BY <1>4 DEF GroupsAreHonest, Recent
  <2> QED BY <1>3, <1>5 DEF SearchInv, GroupsAreHonest
<1> QED BY <1>6, <1>7
(* A pair that staging held when the search began it still holds.          *)
LEMMA InitiallyStands ==
  ASSUME RegistryType, Lasting, NEW v \in StagingTags, Initially(v).status = "verified"
  PROVE  /\ Found(Registry, "staging", "server", v) /\ Found(Registry, "staging", "agent", v)
         /\ registry["staging"]["server"][v] = Registry["staging"]["server"][v]
         /\ registry["staging"]["agent"][v] = Registry["staging"]["agent"][v]
         /\ HeadKind(v) = "immutable" /\ v.kind = "primeCommit"
<1>1. /\ Registry["staging"]["server"][v] \in ImageAnswer /\ Registry["staging"]["agent"][v] \in ImageAnswer
  BY RegistryAssumption DEF Roles, HeldAnswer
<1>2. /\ Registry["staging"]["server"][v].status = "found" /\ Registry["staging"]["agent"][v].status = "found"
      /\ PairFits(v, Registry["staging"]["server"][v], Registry["staging"]["agent"][v])
  BY <1>1, CandidateTells DEF Initially, Verdicts
<1>3. v.kind = "primeCommit"
  BY <1>2 DEF PairFits, ServerProvenance
<1> QED BY <1>2, <1>3, RegistryAssumption DEF Lasting, Found, Roles, HeadKind

(* An inspection adds what staging holds, or a failure.                    *)
LEMMA InspectStands ==
  ASSUME SearchInv, NEW v \in Names, InspectPair(v)
  PROVE  PairsStand'
<1>1. PICK read \in Readings :
        checked' = checked \union
          {[pair |-> StagingCandidate(v, read["staging"]["server"][v], read["staging"]["agent"][v]), version |-> v,
            built |-> [server |-> read["staging"]["server"][v].created,
                       agent |-> IF read["staging"]["server"][v].status = "found"
                                 THEN read["staging"]["agent"][v].created ELSE 0]]}
  BY DEF InspectPair
<1>2. registry' = registry /\ query' = query /\ Options(query).verify
  BY DEF InspectPair, Verifying
<1>3. v \in StagingTags /\ "staging" \in DOMAIN Registry /\ RegistryType
  BY RegistryAssumption DEF Names, SearchInv, LookupInv
<1> DEFINE server == read["staging"]["server"][v]
           agent == read["staging"]["agent"][v]
           pair == StagingCandidate(v, server, agent)
<1>4. /\ server \in ImageAnswer /\ server \in {registry["staging"]["server"][v], FailedLookup}
      /\ agent \in ImageAnswer /\ agent \in {registry["staging"]["agent"][v], FailedLookup}
  BY <1>3, ReadingTells DEF Roles
<1>5. FailedLookup.status = "error"
  BY DEF FailedLookup, Answer
<1>6. pair.status = "verified" => pair = Standing(v)
  <2>1. pair.status = "verified" => server.status = "found" /\ agent.status = "found"
    BY <1>4, CandidateTells DEF Verdicts
  <2> QED BY <1>4, <1>5, <2>1 DEF Standing
<1>7. Initially(v).status = "verified" => pair.status = "error" \/ pair = Initially(v)
  <2> SUFFICES ASSUME Initially(v).status = "verified" PROVE pair.status = "error" \/ pair = Initially(v)
    OBVIOUS
  <2>1. /\ registry["staging"]["server"][v] = Registry["staging"]["server"][v]
        /\ registry["staging"]["agent"][v] = Registry["staging"]["agent"][v]
        /\ Registry["staging"]["server"][v].status = "found"
    BY <1>3, InitiallyStands DEF SearchInv, Found
  <2>2. CASE server = FailedLookup
    <3>1. pair = [version |-> v, status |-> server.status, at |-> 0]
      BY <1>5, <2>2 DEF StagingCandidate
    <3> QED BY <1>5, <2>2, <3>1
  <2>3. CASE server = Registry["staging"]["server"][v] /\ agent = FailedLookup
    <3>1. pair = [version |-> v, status |-> agent.status, at |-> 0]
      BY <1>5, <2>1, <2>3 DEF StagingCandidate
    <3> QED BY <1>5, <2>3, <3>1
  <2>4. CASE server = Registry["staging"]["server"][v] /\ agent = Registry["staging"]["agent"][v]
    BY <2>4 DEF Initially
  <2> QED BY <1>4, <2>1, <2>2, <2>3, <2>4
<1> HIDE DEF pair
<1>8. \A c \in checked' : c \in checked \/ (c.version = v /\ c.pair = pair)
  BY <1>1 DEF pair
<1>9. IsFiniteSet(checked')
  BY <1>1, FS_AddElement DEF SearchInv, PairsStand
<1> QED BY <1>2, <1>3, <1>6, <1>7, <1>8, <1>9 DEF SearchInv, PairsStand, Standing

(* A publication leaves every answer that something rests on.              *)
LEMMA PublishStands ==
  ASSUME SearchInv, NEW v \in Published, NEW role \in Roles, PublishDuring(v, role)
  PROVE  Lasting' /\ GroupsKnown' /\ GroupsAreHonest' /\ PairsStand'
<1>1. UNCHANGED <<query, groups, checked, shown>> /\ RegistryType /\ query \in Queries
  BY DEF PublishDuring, SearchInv, LookupInv
<1>2. /\ RegistryType'
      /\ \A place \in DOMAIN Registry, kind \in Roles, w \in StagingTags :
           registry[place][kind][w].status = "found" =>
             registry'[place][kind][w] = registry[place][kind][w]
  BY <1>1, PublishKeeps DEF PublishDuring
<1>3. \A place \in DOMAIN Registry, kind \in Roles, w \in StagingTags :
        Found(registry, place, kind, w) => Found(registry', place, kind, w)
  BY <1>2 DEF Found
<1>4. Lasting'
  <2> SUFFICES ASSUME NEW place \in DOMAIN Registry, NEW kind \in Roles, NEW w \in StagingTags,
                      Found(Registry, place, kind, w)
               PROVE  registry'[place][kind][w] = Registry[place][kind][w]
    BY DEF Lasting, StagingTags, Found, Roles
  <2>1. registry[place][kind][w] = Registry[place][kind][w]
    BY DEF SearchInv, Lasting
  <2> QED BY <1>2, <2>1 DEF Found
<1>5. GroupsKnown'
  BY <1>1 DEF SearchInv, GroupsKnown, ExactTag, Targets, StagingTags
<1>6. GroupsAreHonest'
  <2> SUFFICES ASSUME NEW g \in groups
               PROVE  /\ \A w \in g.result.tags : Found(registry', g.target[1], g.target[2], w) /\ Matches(query, w)
                      /\ ~g.result.error /\ ~g.result.truncated =>
                           \A w \in Range(TagOrder) :
                             Found(Registry, g.target[1], g.target[2], w) /\ Matches(query, w)
                               /\ Recent(query, g.target, w)' => w \in g.result.tags
    BY <1>1 DEF GroupsAreHonest
  <2>1. g.target[1] \in DOMAIN Registry /\ g.target[2] \in Roles /\ g.result.tags \subseteq StagingTags
    BY <1>1, TargetTells DEF SearchInv, GroupsKnown
  <2>2. \A w \in g.result.tags : Found(registry', g.target[1], g.target[2], w) /\ Matches(query, w)
    BY <1>3, <2>1 DEF SearchInv, GroupsAreHonest
  <2>3. ASSUME NEW w \in Range(TagOrder), Found(Registry, g.target[1], g.target[2], w),
               Recent(query, g.target, w)'
        PROVE  Recent(query, g.target, w)
    <3>1. w \in StagingTags
      BY TagAssumption DEF Range
    <3>2. registry'[g.target[1]][g.target[2]][w] = registry[g.target[1]][g.target[2]][w]
      BY <1>4, <2>1, <2>3, <3>1 DEF SearchInv, Lasting, StagingTags, Found, Roles
    <3> QED BY <1>1, <2>3, <3>2 DEF Recent
  <2> QED BY <2>2, <2>3 DEF SearchInv, GroupsAreHonest
<1>7. PairsStand'
  <2>1. ASSUME NEW c \in checked, c.pair.status = "verified"
        PROVE  Standing(c.version)' = Standing(c.version)
    <3>1. c.version \in StagingTags /\ Standing(c.version).status = "verified"
      BY <2>1 DEF SearchInv, PairsStand
    <3>2. registry["staging"]["server"][c.version] \in ImageAnswer /\ registry["staging"]["agent"][c.version] \in ImageAnswer
      BY <1>1, <3>1, RegistryAssumption DEF RegistryType, Roles, HeldAnswer
    <3>3. registry["staging"]["server"][c.version].status = "found" /\ registry["staging"]["agent"][c.version].status = "found"
      BY <3>1, <3>2, CandidateTells DEF Standing, Verdicts
    <3>4. /\ registry'["staging"]["server"][c.version] = registry["staging"]["server"][c.version]
          /\ registry'["staging"]["agent"][c.version] = registry["staging"]["agent"][c.version]
      BY <1>2, <3>1, <3>3, RegistryAssumption DEF Roles
    <3> QED BY <3>4 DEF Standing
  <2> QED BY <1>1, <2>1 DEF SearchInv, PairsStand, StagingTags, Initially
<1> QED BY <1>4, <1>5, <1>6, <1>7
(* What a finite set is measured by has a greatest value.                  *)
LEMMA GreatestOf ==
  ASSUME NEW S, IsFiniteSet(S), S # {}, NEW key \in [S -> Nat]
  PROVE  \E m \in S : \A n \in S : key[m] >= key[n]
<1> DEFINE Has(T) == \E m \in T : \A n \in T : key[m] >= key[n]
           without == {T \in SUBSET S : T # {} /\ ~Has(T)}
           sizes == {Cardinality(T) : T \in without}
<1>1. SUFFICES ASSUME ~Has(S) PROVE FALSE
  OBVIOUS
<1>2. \A T \in SUBSET S : IsFiniteSet(T) /\ Cardinality(T) \in Nat
  BY FS_Subset, FS_CardinalityType
<1>3. sizes \in SUBSET Nat /\ sizes # {}
  <2>1. S \in without
    BY <1>1
  <2>2. Cardinality(S) \in sizes
    BY <2>1
  <2>3. \A n \in sizes : n \in Nat
    BY <1>2
  <2> QED BY <2>2, <2>3
<1>4. PICK T \in without : \A U \in without : Cardinality(T) <= Cardinality(U)
  <2> HIDE DEF without
  <2>1. PICK n \in sizes : \A k \in sizes : n <= k
    BY <1>3, LeastExists
  <2> QED BY <2>1
<1>5. PICK x \in T : TRUE
  OBVIOUS
<1> DEFINE U == T \ {x}
<1>6. U \in SUBSET S /\ Cardinality(U) = Cardinality(T) - 1 /\ Cardinality(T) \in Nat
  BY <1>2, <1>5, FS_RemoveElement
<1>7. U # {}
  <2> SUFFICES ASSUME U = {} PROVE Has(T)
    BY <1>4
  <2>1. T = {x}
    BY <1>5
  <2>2. key[x] \in Nat
    BY <1>5
  <2> QED BY <2>1, <2>2
<1>8. Has(U)
  <2>0. ~(Cardinality(T) <= Cardinality(U))
    BY <1>6
  <2>1. U \notin without
    BY <1>4, <2>0, Zenon
  <2> QED BY <1>6, <1>7, <2>1
<1>9. PICK m \in U : \A n \in U : key[m] >= key[n]
  BY <1>8
<1>10. key[m] \in Nat /\ key[x] \in Nat /\ m \in T /\ \A n \in T : n = x \/ n \in U
  BY <1>5, <1>9
<1>11. CASE key[x] >= key[m]
  <2>1. \A n \in T : key[x] >= key[n]
    <3> SUFFICES ASSUME NEW n \in T PROVE key[x] >= key[n]
      OBVIOUS
    <3>1. key[n] \in Nat
      OBVIOUS
    <3> QED BY <1>9, <1>10, <1>11, <3>1
  <2> QED BY <1>4, <1>5, <2>1
<1>12. CASE key[m] >= key[x]
  <2>1. \A n \in T : key[m] >= key[n]
    BY <1>9, <1>10, <1>12
  <2> QED BY <1>4, <1>10, <2>1
<1> HIDE DEF U
<1> QED BY <1>10, <1>11, <1>12

LEMMA RangeIsFinite ==
  ASSUME NEW S, NEW s \in Seq(S)
  PROVE  IsFiniteSet(Range(s)) /\ Range(s) \subseteq S
<1>1. Len(s) \in Nat /\ DOMAIN s = 1..Len(s) /\ s \in [1..Len(s) -> S]
  BY LenProperties
<1>2. IsFiniteSet(DOMAIN s)
  BY <1>1, FS_Interval
<1>3. s \in Surjection(DOMAIN s, Range(s))
  BY <1>1 DEF Surjection, Range
<1> QED BY <1>1, <1>2, <1>3, FS_Surjection DEF Range

(* A tag that answers a verified request is of the patch that is verified, *)
(* unless the patch was looked for in its text.                            *)
LEMMA OptionsTell ==
  ASSUME NEW q \in Queries, NEW v, Options(q).verify, Matches(q, v), q.form # "barePatch"
  PROVE  Options(q).patch # NoPatch => SamePatch(v, Options(q).patch)
<1> DEFINE kind == PrimeHeadQuery(q)
           primeOnly == \/ q.form = "primeAlias" \/ kind # None
                        \/ q.headKind # "all" \/ q.primeHead = "only"
           ofLine == primeOnly /\ q.within.patch # 0
           bare == primeOnly /\ q.form = "barePatch"
           patch == CASE bare -> [line |-> q.v.line, patch |-> q.v.patch]
                      [] ~bare /\ ofLine -> q.within
                      [] ~bare /\ ~ofLine /\ kind # None -> [line |-> q.v.line, patch |-> q.v.patch]
                      [] OTHER -> NoPatch
<1>1. Options(q).patch = patch
  BY DEF Options
<1>2. MatchesText(q, v) /\ (q.within.line # 0 => v.line = q.within.line)
      /\ (q.within.patch # 0 => v.patch = q.within.patch)
  BY DEF Matches
<1>3. ~bare
  OBVIOUS
<1>4. CASE ~bare /\ ofLine
  <2>1. v.line = q.within.line /\ v.patch = q.within.patch
    BY <1>2, <1>4, QueryAssumption
  <2>2. patch = q.within
    BY <1>4
  <2> HIDE DEF patch
  <2> QED BY <1>1, <2>1, <2>2 DEF SamePatch
<1>5. CASE ~bare /\ ~ofLine /\ kind # None
  <2>1. q.form \in {"exact", "reference", "selector"}
    BY <1>5 DEF PrimeHeadQuery
  <2>2. SamePatch(v, q.v)
    BY <1>2, <2>1 DEF MatchesText, SamePatch
  <2>3. patch = [line |-> q.v.line, patch |-> q.v.patch]
    BY <1>5
  <2> HIDE DEF patch
  <2> QED BY <1>1, <2>2, <2>3 DEF SamePatch
<1>6. CASE ~bare /\ ~ofLine /\ kind = None
  <2>1. patch = NoPatch
    BY <1>6
  <2> QED BY <1>1, <2>1
<1> QED BY <1>3, <1>4, <1>5, <1>6

(* Every pair of the request's patch that could be verified from the start *)
(* is named by an authority.                                               *)
OfPatch(v) == Options(query).patch # NoPatch => SamePatch(v, Options(query).patch)
LEMMA InitiallyNamed ==
  ASSUME SearchInv, Options(query).verify, Authorities # {},
         NEW w \in Range(TagOrder), Matches(query, w), OfPatch(w), Initially(w).status = "verified"
  PROVE  w \in Names
<1>1. w \in StagingTags /\ query \in Queries
  BY TagAssumption DEF Range, SearchInv
<1>2. /\ Found(Registry, "staging", "server", w) /\ Found(Registry, "staging", "agent", w)
      /\ HeadKind(w) = "immutable"
  BY <1>1, InitiallyStands DEF SearchInv, LookupInv
<1>3. PICK g \in Authorities : TRUE
  OBVIOUS
<1>4. g \in groups /\ g.target[1] = "staging" /\ ~g.result.error /\ ~g.result.truncated
  BY <1>3 DEF Authorities
<1>5. g.target[2] \in Roles
  BY <1>1, <1>4, TargetTells DEF SearchInv, GroupsKnown
<1>6. Recent(query, g.target, w)
  BY DEF Recent
<1>7. w \in g.result.tags
  BY <1>2, <1>4, <1>5, <1>6 DEF SearchInv, GroupsAreHonest, Roles
<1> QED BY <1>1, <1>2, <1>3, <1>7 DEF Names, OfPatch
(* A verified pair was completed at some time.                             *)
LEMMA CompletedTells ==
  ASSUME NEW v, NEW server \in ImageAnswer, NEW agent \in ImageAnswer,
         StagingCandidate(v, server, agent).status = "verified"
  PROVE  StagingCandidate(v, server, agent).at \in Nat \ {0} /\ StagingCandidate(v, server, agent).version = v
<1>1. server.status = "found" /\ agent.status = "found" /\ PairFits(v, server, agent)
  BY CandidateTells DEF Verdicts
<1>2. StagingCandidate(v, server, agent)
        = [[version |-> v, status |-> "verified", at |-> 0] EXCEPT !.at = CompletedAt(server, agent)]
  BY <1>1 DEF StagingCandidate, PairFits
<1>3. server.created \in Nat \ {0} /\ agent.created \in Nat \ {0}
  BY <1>1 DEF PairFits, ImageAnswer
<1>4. \E m \in {server.created, agent.created} : \A n \in {server.created, agent.created} : m >= n
  BY <1>3
<1>5. CompletedAt(server, agent) \in {server.created, agent.created}
  BY <1>4, Zenon DEF CompletedAt, Max
<1> QED BY <1>2, <1>3, <1>5

(* What a selector is pinned to: a verified pair of its patch, and none was*)
(* completed later, when there is one and no lookup failed.                *)
Candidate(v, read) == StagingCandidate(v, read["server"][v], read["agent"][v])
OfSelector(v, selector) == v.kind = "primeCommit" /\ SamePatch(v, selector)
Pinned(pin, selector, listing, read) ==
  /\ pin # NoVer => pin \in listing /\ OfSelector(pin, selector) /\ Candidate(pin, read).status = "verified"
  /\ (\A v \in listing : OfSelector(v, selector) => Candidate(v, read).status # "error") =>
       \A v \in listing : OfSelector(v, selector) /\ Candidate(v, read).status = "verified" =>
         pin # NoVer /\ Candidate(pin, read).at >= Candidate(v, read).at
LEMMA BundleTells ==
  ASSUME NEW selector, NEW listing \in SUBSET StagingTags, NEW read,
         \A role \in Roles, v \in StagingTags : read[role][v] \in ImageAnswer,
         NEW pin, pin = Bundle(selector, listing, read, TRUE, TRUE)
  PROVE  Pinned(pin, selector, listing, read)
<1> DEFINE versions == {v \in listing : v.kind = "primeCommit" /\ SamePatch(v, selector)}
           checks == {StagingCandidate(v, read["server"][v], read["agent"][v]) : v \in versions}
           complete == {c \in checks : c.status = "verified"}
           First(c) == \A d \in complete \ {c} :
                         c.at > d.at \/ (c.at = d.at /\ TextAfter(c.version, d.version))
           verified == {v \in versions : Candidate(v, read).status = "verified"}
<1>1. \A v \in verified : /\ Candidate(v, read).at \in Nat \ {0} /\ Candidate(v, read).version = v
                          /\ v \in StagingTags /\ v.commit \in Nat
  BY CompletedTells, RegistryAssumption DEF Candidate, Roles, VersionRecord
<1>2. complete = {Candidate(v, read) : v \in verified}
  BY DEF Candidate
<1>3. pin = IF (\E c \in checks : c.status = "error") \/ complete = {} THEN NoVer
            ELSE (CHOOSE c \in complete : First(c)).version
  BY DEF Bundle
<1>4. (\E c \in checks : c.status = "error") <=>
        \E v \in listing : OfSelector(v, selector) /\ Candidate(v, read).status = "error"
  BY DEF Candidate, OfSelector
<1>5. \A v : v \in verified <=> v \in listing /\ OfSelector(v, selector) /\ Candidate(v, read).status = "verified"
  BY DEF OfSelector
<1>6. IsFiniteSet(verified)
  BY RegistryAssumption, FS_Subset
<1> HIDE DEF verified, checks
<1>7. ASSUME complete # {}
      PROVE  \E c \in complete : First(c)
  <2> DEFINE at == [v \in verified |-> Candidate(v, read).at]
  <2>1. verified # {} /\ at \in [verified -> Nat]
    BY <1>1, <1>2, <1>7
  <2>2. PICK m \in verified : \A n \in verified : at[m] >= at[n]
    <3> HIDE DEF at
    <3> QED BY <1>6, <2>1, GreatestOf
  <2> DEFINE last == {v \in verified : Candidate(v, read).at = Candidate(m, read).at}
             text == [v \in last |-> IF v.commit < 10 THEN 10 * v.commit ELSE v.commit]
  <2>3. last # {} /\ IsFiniteSet(last) /\ text \in [last -> Nat]
    BY <1>1, <1>6, <2>2, FS_Subset
  <2>4. PICK w \in last : \A n \in last : text[w] >= text[n]
    <3> HIDE DEF text, last
    <3> QED BY <2>3, GreatestOf
  <2>5. w \in verified /\ Candidate(w, read) \in complete
    BY <1>2, <2>4
  <2>6. ASSUME NEW d \in complete \ {Candidate(w, read)}
        PROVE  \/ Candidate(w, read).at > d.at
               \/ Candidate(w, read).at = d.at /\ TextAfter(Candidate(w, read).version, d.version)
    <3>1. PICK u \in verified : d = Candidate(u, read)
      BY <1>2, <2>6
    <3>2. Candidate(m, read).at >= Candidate(u, read).at /\ Candidate(w, read).at = Candidate(m, read).at
      BY <2>2, <2>4, <3>1
    <3>3. CASE Candidate(u, read).at = Candidate(w, read).at
      <4>1. u \in last /\ u # w
        BY <2>6, <3>1, <3>2, <3>3
      <4>2. ~TextAfter(u, w)
        <5>1. text[w] >= text[u]
          BY <2>4, <4>1
        <5>2. u.commit \in Nat /\ w.commit \in Nat
          BY <1>1
        <5> QED BY <2>4, <4>1, <5>1, <5>2 DEF TextAfter
      <4>3. TextAfter(w, u)
        <5>1. OfSelector(u, selector) /\ OfSelector(w, selector)
          BY <1>5, <2>5
        <5> QED BY <1>1, <2>5, <4>1, <4>2, <5>1, RegistryAssumption DEF OfSelector, SamePatch
      <4> QED BY <1>1, <2>5, <3>1, <3>3, <4>3
    <3>4. CASE Candidate(u, read).at # Candidate(w, read).at
      <4>1. Candidate(u, read).at \in Nat /\ Candidate(w, read).at \in Nat
        BY <1>1, <2>5
      <4> QED BY <3>1, <3>2, <3>4, <4>1
    <3> QED BY <3>3, <3>4
  <2> QED BY <2>5, <2>6
<1>8. ASSUME complete # {}, ~\E c \in checks : c.status = "error"
      PROVE  /\ pin \in verified
             /\ \A v \in verified : Candidate(pin, read).at >= Candidate(v, read).at
  <2> DEFINE c == CHOOSE x \in complete : First(x)
  <2>1. c \in complete /\ First(c)
    <3> HIDE DEF complete, First
    <3> QED BY <1>7, <1>8
  <2> HIDE DEF c
  <2>2. pin = c.version
    BY <1>3, <1>8 DEF c
  <2>3. pin \in verified /\ c = Candidate(pin, read)
    BY <1>1, <1>2, <2>1, <2>2
  <2>4. ASSUME NEW v \in verified
        PROVE  Candidate(pin, read).at >= Candidate(v, read).at
    <3>1. Candidate(v, read) \in complete
      BY <1>2
    <3>2. Candidate(v, read).at \in Nat /\ Candidate(pin, read).at \in Nat
      BY <1>1, <2>3
    <3>3. \A d \in complete : d = c \/ c.at > d.at \/ c.at = d.at
      <4> HIDE DEF complete
      <4> QED BY <2>1 DEF First
    <3> HIDE DEF complete, First
    <3>4. \/ Candidate(pin, read).at > Candidate(v, read).at
          \/ Candidate(pin, read).at = Candidate(v, read).at
      BY <2>3, <3>1, <3>3
    <3> HIDE DEF Candidate
    <3> DEFINE a == Candidate(pin, read).at
               b == Candidate(v, read).at
    <3>5. a \in Nat /\ b \in Nat /\ (a > b \/ a = b)
      BY <3>2, <3>4
    <3> HIDE DEF a, b
    <3>6. a >= b
      BY <3>5
    <3> QED BY <3>6 DEF a, b
  <2> QED BY <2>3, <2>4
<1>9. NoVer.kind # "primeCommit"
  BY DEF NoVer, Ver, None
<1> HIDE DEF complete
<1>10. ASSUME pin # NoVer
       PROVE  pin \in listing /\ OfSelector(pin, selector) /\ Candidate(pin, read).status = "verified"
  <2>1. ~(\E c \in checks : c.status = "error") /\ complete # {}
    BY <1>3, <1>10
  <2> QED BY <1>5, <1>8, <2>1
<1>11. ASSUME \A v \in listing : OfSelector(v, selector) => Candidate(v, read).status # "error",
              NEW v \in listing, OfSelector(v, selector), Candidate(v, read).status = "verified"
       PROVE  pin # NoVer /\ Candidate(pin, read).at >= Candidate(v, read).at
  <2>1. v \in verified /\ Candidate(v, read) \in complete
    BY <1>2, <1>5, <1>11
  <2>2. ~\E c \in checks : c.status = "error"
    BY <1>4, <1>11
  <2>3. pin \in verified /\ Candidate(pin, read).at >= Candidate(v, read).at
    BY <1>8, <2>1, <2>2
  <2> QED BY <1>5, <1>9, <2>3 DEF OfSelector
<1> QED BY <1>10, <1>11 DEF Pinned

(* A rank counts every pair of the request that could be verified from the *)
(* start and was completed later.                                          *)
NewerThan(at) ==
  {v \in Range(TagOrder) : Matches(query, v) /\ Initially(v).status = "verified" /\ OfPatch(v) /\ Initially(v).at > at}
LEMMA RankCounts ==
  ASSUME SearchInv, Options(query).verify, Authorities # {}, Names = {c.version : c \in checked},
         \A c \in checked : c.pair.status # "error",
         NEW c \in checked, c.pair.status = "verified"
  PROVE  /\ c.pair.at \in Nat \ {0}
         /\ Rank(c) \in Nat /\ Cardinality(NewerThan(c.pair.at)) \in Nat
         /\ Rank(c) > Cardinality(NewerThan(c.pair.at))
<1> DEFINE ahead == {d \in checked : d.pair.status = "verified" /\ d # c /\ Ahead(d, c)}
           newer == NewerThan(c.pair.at)
           named == {d.version : d \in ahead}
           name == [d \in ahead |-> d.version]
<1>1. c.version \in StagingTags /\ c.pair = Standing(c.version)
  BY DEF SearchInv, PairsStand
<1>2. c.pair.at \in Nat \ {0}
  <2>1. /\ registry["staging"]["server"][c.version] \in ImageAnswer
        /\ registry["staging"]["agent"][c.version] \in ImageAnswer
    BY <1>1, RegistryAssumption DEF SearchInv, LookupInv, RegistryType, Roles, HeldAnswer
  <2> QED BY <1>1, <2>1, CompletedTells DEF Standing
<1>3. Rank(c) = 1 + Cardinality(ahead)
  BY DEF Rank
<1>4. IsFiniteSet(ahead)
  BY FS_Subset DEF SearchInv, PairsStand
<1>5. newer \subseteq named
  <2> SUFFICES ASSUME NEW w \in newer PROVE \E d \in ahead : d.version = w
    OBVIOUS
  <2>1. /\ w \in Range(TagOrder) /\ Matches(query, w) /\ Initially(w).status = "verified"
        /\ OfPatch(w) /\ Initially(w).at > c.pair.at
    BY DEF NewerThan
  <2>2. w \in Names
    BY <2>1, InitiallyNamed
  <2>3. PICK d \in checked : d.version = w
    BY <2>2
  <2>4. d.pair = Initially(w)
    BY <2>1, <2>3 DEF SearchInv, PairsStand
  <2>5. Initially(w).at \in Nat
    <3>1. w \in StagingTags
      BY <2>1, TagAssumption DEF Range
    <3>2. Registry["staging"]["server"][w] \in ImageAnswer /\ Registry["staging"]["agent"][w] \in ImageAnswer
      BY <3>1, RegistryAssumption DEF Roles, HeldAnswer
    <3> QED BY <2>1, <3>2, CompletedTells DEF Initially
  <2>6. d # c
    BY <1>2, <2>1, <2>4, <2>5
  <2> QED BY <2>1, <2>3, <2>4, <2>6 DEF Ahead
<1>6. IsFiniteSet(named) /\ Cardinality(named) <= Cardinality(ahead)
  <2>1. name \in Surjection(ahead, named)
    BY DEF Surjection
  <2> HIDE DEF name, ahead, named
  <2> QED BY <1>4, <2>1, FS_Surjection
<1> HIDE DEF ahead, newer, named
<1>7. IsFiniteSet(newer) /\ Cardinality(newer) <= Cardinality(named)
  BY <1>5, <1>6, FS_Subset
<1>8. Cardinality(ahead) \in Nat /\ Cardinality(named) \in Nat /\ Cardinality(newer) \in Nat
  BY <1>4, <1>6, <1>7, FS_CardinalityType
<1> QED BY <1>2, <1>3, <1>6, <1>7, <1>8 DEF newer

(* A row with a rank is that of a verified pair.                           *)
LEMMA RankedTells ==
  ASSUME NEW r \in Response, r.rank # 0
  PROVE  \E g \in groups, c \in checked :
           /\ r.version \in g.result.tags /\ c.version = r.version /\ c.pair.status = "verified"
           /\ r.rank = Rank(c) /\ (c.pair.at # 0 => r.at = c.pair.at)
<1>1. PICK g \in groups : \E v \in g.result.tags : r = RowOf(g.target, v)
  BY DEF Response
<1>2. PICK v \in g.result.tags : r = RowOf(g.target, v)
  BY <1>1
<1> DEFINE own == {c \in checked : c.version = v}
<1>3. own # {}
  BY <1>2 DEF RowOf, Row
<1>4. PICK c \in own : c = CHOOSE x \in own : TRUE
  BY <1>3
<1>5. r = Row(g.target, v, c.pair.status, Rank(c), IF c.pair.at # 0 THEN c.pair.at ELSE c.built[g.target[2]])
  BY <1>2, <1>3, <1>4 DEF RowOf
<1>6. r.version = v /\ r.rank = Rank(c) /\ (c.pair.at # 0 => r.at = c.pair.at)
  BY <1>5 DEF Row
<1>7. c.pair.status = "verified"
  BY <1>6 DEF Rank
<1> QED BY <1>4, <1>6, <1>7

(* What a selector would be pinned to answers the request, as every ranked *)
(* row does.                                                               *)
LEMMA SelectorMatches ==
  ASSUME NEW q \in Queries, q.form = "selector", q.commit = 0, NEW v, NEW w,
         Matches(q, v), OfSelector(v, q.v), OfSelector(w, q.v)
  PROVE  Matches(q, w)
<1>1. HeadKind(v) = "immutable" /\ HeadKind(w) = "immutable"
  BY DEF OfSelector, HeadKind
<1>2. PrimeHead(w)
  BY <1>1 DEF PrimeHead, None
<1>3. MatchesText(q, w)
  BY <1>2 DEF MatchesText, OfSelector
<1>4. Options(q).primeOnly
  <2>1. PrimeHeadQuery(q) # None
    BY QueryAssumption DEF PrimeHeadQuery, HeadKind, None
  <2> QED BY <2>1 DEF Options
<1>5. w.line = v.line /\ w.patch = v.patch
  BY DEF OfSelector, SamePatch
<1> QED BY <1>1, <1>2, <1>3, <1>4, <1>5 DEF Matches
(* What is held is found or is missing, and so is what is judged by it.    *)
LEMMA HeldIsNoFailure ==
  ASSUME NEW v, NEW server \in HeldAnswer, NEW agent \in HeldAnswer
  PROVE  StagingCandidate(v, server, agent).status # "error"
<1>1. CASE server.status # "found"
  <2>1. StagingCandidate(v, server, agent) = [version |-> v, status |-> server.status, at |-> 0]
    BY <1>1 DEF StagingCandidate
  <2> QED BY <2>1 DEF HeldAnswer
<1>2. CASE server.status = "found" /\ agent.status # "found"
  <2>1. StagingCandidate(v, server, agent) = [version |-> v, status |-> agent.status, at |-> 0]
    BY <1>2 DEF StagingCandidate
  <2> QED BY <2>1 DEF HeldAnswer
<1>3. CASE server.status = "found" /\ agent.status = "found"
  <2>1. StagingCandidate(v, server, agent).status \in {"verified", "invalid"}
    BY <1>3 DEF StagingCandidate
  <2> QED BY <2>1
<1> QED BY <1>1, <1>2, <1>3

(* The first of a selector's ranking is as new as its pin.                 *)
LEMMA FirstIsPinned ==
  ASSUME SearchInv, query.form = "selector", query.commit = 0, registry = Registry,
         NEW c \in checked, c.pair.status = "verified", NEW g \in groups, c.version \in g.result.tags,
         c.version \in Names, c.pair.at \in Nat, Cardinality(NewerThan(c.pair.at)) = 0,
         NEW pin, pin = Bundle(query.v, Range(TagOrder), Registry["staging"], TRUE, TRUE)
  PROVE  pin # NoVer /\ Initially(pin).at = c.pair.at
<1> DEFINE read == Registry["staging"]
<1>1. Range(TagOrder) \in SUBSET StagingTags /\ IsFiniteSet(Range(TagOrder))
  BY TagAssumption, RangeIsFinite
<1>2. \A role \in Roles, v \in StagingTags : read[role][v] \in HeldAnswer /\ read[role][v] \in ImageAnswer
  BY RegistryAssumption DEF HeldAnswer
<1>3. \A v \in StagingTags : Candidate(v, read).status # "error"
  BY <1>2, HeldIsNoFailure DEF Candidate, Roles
<1>4. \A v : Candidate(v, read) = Initially(v)
  BY DEF Candidate, Initially
<1>5. c.version \in Range(TagOrder) /\ Matches(query, c.version) /\ OfSelector(c.version, query.v)
  <2>1. c.version \in Range(TagOrder)
    BY DEF SearchInv, GroupsKnown, ExactTag
  <2>2. Matches(query, c.version)
    BY DEF SearchInv, GroupsAreHonest
  <2>3. SamePatch(c.version, query.v)
    BY <2>2 DEF Matches, MatchesText
  <2>4. HeadKind(c.version) = "immutable"
    BY DEF Names
  <2> QED BY <2>1, <2>2, <2>3, <2>4 DEF OfSelector, HeadKind, None
<1>6. c.pair = Initially(c.version)
  BY DEF SearchInv, PairsStand, Standing, Initially
<1>7. /\ pin # NoVer => pin \in Range(TagOrder) /\ OfSelector(pin, query.v) /\ Candidate(pin, read).status = "verified"
      /\ pin # NoVer /\ Candidate(pin, read).at >= Candidate(c.version, read).at
  <2> DEFINE listing == Range(TagOrder)
             selector == query.v
  <2> HIDE DEF read, listing, selector
  <2>0. listing \in SUBSET StagingTags /\ c.version \in listing /\ OfSelector(c.version, selector)
    BY <1>1, <1>5 DEF listing, selector
  <2>1. pin = Bundle(selector, listing, read, TRUE, TRUE)
    BY DEF read, listing, selector
  <2>2. Candidate(c.version, read).status = "verified"
    BY <1>4, <1>6
  <2>3. \A role \in Roles, v \in StagingTags : read[role][v] \in ImageAnswer
    BY <1>2
  <2>4. /\ pin # NoVer => pin \in listing /\ OfSelector(pin, selector) /\ Candidate(pin, read).status = "verified"
        /\ (\A v \in listing : OfSelector(v, selector) => Candidate(v, read).status # "error") =>
             \A v \in listing : OfSelector(v, selector) /\ Candidate(v, read).status = "verified" =>
               pin # NoVer /\ Candidate(pin, read).at >= Candidate(v, read).at
    BY <2>0, <2>1, <2>3, BundleTells DEF Pinned
  <2>5. \A v \in listing : OfSelector(v, selector) => Candidate(v, read).status # "error"
    BY <1>3, <2>0
  <2> QED BY <2>0, <2>2, <2>4, <2>5 DEF listing, selector
<1>8. Initially(pin).at >= c.pair.at /\ Initially(pin).status = "verified" /\ pin \in StagingTags
  BY <1>1, <1>4, <1>6, <1>7
<1>9. Initially(pin).at \in Nat
  BY <1>2, <1>8, CompletedTells DEF Initially, Roles
<1>10. Matches(query, pin) /\ OfPatch(pin)
  <2>1. Matches(query, pin)
    BY <1>5, <1>7, SelectorMatches DEF SearchInv
  <2>2. query \in Queries /\ Options(query).verify
    BY DEF SearchInv, PairsStand
  <2> QED BY <2>1, <2>2, OptionsTell DEF OfPatch
<1>11. NewerThan(c.pair.at) = {}
  <2>1. IsFiniteSet(NewerThan(c.pair.at))
    BY <1>1, FS_Subset DEF NewerThan
  <2> QED BY <2>1, FS_EmptySet
<1>12. ~(Initially(pin).at > c.pair.at)
  BY <1>7, <1>8, <1>10, <1>11 DEF NewerThan
<1> DEFINE a == Initially(pin).at
           b == c.pair.at
<1>13. a \in Nat /\ b \in Nat /\ a >= b /\ ~(a > b)
  BY <1>8, <1>9, <1>12
<1> HIDE DEF a, b
<1>14. a = b
  BY <1>13
<1> QED BY <1>7, <1>14 DEF a, b

(* The ranking is complete when it is given.                               *)
LEMMA FinishRanks ==
  ASSUME SearchInv, Finish
  PROVE  RankingIsComplete'
<1>1. UNCHANGED <<registry, query, groups, checked>>
  BY DEF Finish, Settle
<1>2. ASSUME NEW r \in shown'.rows, r.rank # 0
      PROVE  /\ r.rank > Cardinality(NewerThan(r.at))
             /\ query.form = "selector" /\ query.commit = 0 /\ registry = Registry /\ r.rank = 1 =>
                  LET pin == Bundle(query.v, Range(TagOrder), Registry["staging"], TRUE, TRUE)
                  IN pin # NoVer /\ Initially(pin).at = r.at
  <2>1. shown' \in {[state |-> "failed", rows |-> {}], [state |-> "done", rows |-> Response]}
    BY DEF Finish, Settle
  <2>2. shown' = [state |-> "done", rows |-> Response] /\ r \in Response
    BY <1>2, <2>1
  <2>3. PICK g \in groups, c \in checked :
           /\ r.version \in g.result.tags /\ c.version = r.version /\ c.pair.status = "verified"
           /\ r.rank = Rank(c) /\ (c.pair.at # 0 => r.at = c.pair.at)
    BY <1>2, <2>2, RankedTells
  <2>4. Options(query).verify
    BY <2>3 DEF SearchInv, PairsStand
  <2>5. /\ Authorities # {} /\ Names = {d.version : d \in checked}
        /\ ~\E d \in checked : d.pair.status = "error"
    <3>1. shown'.state = "done"
      BY <2>2
    <3>2. Succeeded # {} /\ Authorities # {}
      BY <2>4, <3>1 DEF Finish, Settle
    <3>3. Names = {d.version : d \in checked}
      BY <2>4, <3>2 DEF Finish
    <3>4. IF \E d \in checked : d.pair.status = "error" THEN Settle("failed", {}) ELSE Settle("done", Response)
      BY <2>4, <3>2 DEF Finish
    <3>5. ~Settle("failed", {})
      BY <3>1 DEF Settle
    <3> QED BY <3>2, <3>3, <3>4, <3>5
  <2>6. /\ c.pair.at \in Nat \ {0}
        /\ Rank(c) \in Nat /\ Cardinality(NewerThan(c.pair.at)) \in Nat
        /\ Rank(c) > Cardinality(NewerThan(c.pair.at))
    BY <2>3, <2>4, <2>5, RankCounts
  <2>7. r.at = c.pair.at
    BY <2>3, <2>6
  <2>8. ASSUME query.form = "selector", query.commit = 0, registry = Registry, r.rank = 1,
               NEW pin, pin = Bundle(query.v, Range(TagOrder), Registry["staging"], TRUE, TRUE)
        PROVE  pin # NoVer /\ Initially(pin).at = r.at
    <3>1. Cardinality(NewerThan(c.pair.at)) = 0
      BY <2>3, <2>6, <2>8
    <3>2. c.version \in Names
      BY <2>5
    <3> QED BY <2>3, <2>6, <2>7, <2>8, <3>1, <3>2, FirstIsPinned
  <2> QED BY <2>3, <2>6, <2>7, <2>8
<1>3. \A at : NewerThan(at) = {v \in Range(TagOrder) : /\ Matches(query, v) /\ Initially(v).status = "verified"
                                                       /\ Options(query).patch # NoPatch =>
                                                            SamePatch(v, Options(query).patch)
                                                       /\ Initially(v).at > at}
  BY DEF NewerThan, OfPatch
<1> QED BY <1>1, <1>2, <1>3 DEF RankingIsComplete, Ranked, StagingTags, Initially

LEMMA SearchBegins == LookupInit => SearchInv
<1> SUFFICES ASSUME LookupInit PROVE SearchInv
  OBVIOUS
<1>1. LookupInv
  BY LookupBegins
<1>2. IsFiniteSet(checked) /\ checked = {} /\ groups = {} /\ shown.rows = {}
  BY FS_EmptySet DEF LookupInit
<1> QED BY <1>1, <1>2 DEF LookupInit, SearchInv, Lasting, GroupsKnown, GroupsAreHonest, PairsStand,
                         RankingIsComplete, Ranked

LEMMA SearchStep == SearchInv /\ [LookupNext]_lookupVars => SearchInv'
<1> SUFFICES ASSUME SearchInv, [LookupNext]_lookupVars PROVE SearchInv'
  OBVIOUS
<1>0. LookupInv'
  BY LookupStep DEF SearchInv
<1>1. ASSUME shown' = shown, shown.state = "searching"
      PROVE  RankingIsComplete'
  BY <1>1 DEF SearchInv, LookupInv, RankingIsComplete, Ranked
<1>2. ASSUME UNCHANGED <<registry, query>>
      PROVE  Lasting' /\ (query \in Queries)'
  BY <1>2 DEF SearchInv, Lasting
<1>3. ASSUME UNCHANGED <<registry, query, groups>>
      PROVE  GroupsKnown' /\ GroupsAreHonest'
  BY <1>3 DEF SearchInv, GroupsKnown, GroupsAreHonest, ExactTag, Targets, Recent
<1>4. ASSUME UNCHANGED <<registry, query, checked>>
      PROVE  PairsStand'
  BY <1>4 DEF SearchInv, PairsStand, Standing
<1>5. ASSUME NEW t \in Targets(query), SearchTarget(t)
      PROVE  SearchInv'
  <2>1. UNCHANGED <<registry, query, checked, shown>> /\ shown.state = "searching"
    BY <1>5 DEF SearchTarget
  <2> QED BY <1>0, <1>1, <1>2, <1>4, <1>5, <2>1, SearchKeeps DEF SearchInv
<1>6. ASSUME NEW v \in Names, InspectPair(v)
      PROVE  SearchInv'
  <2>1. UNCHANGED <<registry, query, groups, shown>> /\ shown.state = "searching"
    BY <1>6 DEF InspectPair, Verifying
  <2> QED BY <1>0, <1>1, <1>2, <1>3, <1>6, <2>1, InspectStands DEF SearchInv
<1>7. CASE Finish
  <2>1. UNCHANGED <<registry, query, groups, checked>>
    BY <1>7 DEF Finish, Settle
  <2> QED BY <1>0, <1>2, <1>3, <1>4, <1>7, <2>1, FinishRanks DEF SearchInv
<1>8. ASSUME NEW v \in Published, NEW role \in Roles, PublishDuring(v, role)
      PROVE  SearchInv'
  <2>1. UNCHANGED <<query, groups, checked, shown>> /\ shown.state = "searching"
    BY <1>8 DEF PublishDuring
  <2>2. Lasting' /\ GroupsKnown' /\ GroupsAreHonest' /\ PairsStand'
    BY <1>8, PublishStands
  <2> QED BY <1>0, <1>1, <2>1, <2>2 DEF SearchInv
<1>9. CASE UNCHANGED lookupVars
  <2>1. UNCHANGED <<registry, query, groups, checked, shown>>
    BY <1>9 DEF lookupVars
  <2>2. RankingIsComplete'
    BY <2>1 DEF SearchInv, RankingIsComplete, Ranked
  <2> QED BY <1>0, <1>2, <1>3, <1>4, <2>1, <2>2 DEF SearchInv
<1> QED BY <1>5, <1>6, <1>7, <1>8, <1>9 DEF LookupNext

(* A list that is not marked has every tag that was there when the search  *)
(* began and answers it, whatever is published or fails meanwhile.         *)
THEOREM GroupsHold == LookupSpec => []GroupsAreHonest
<1>1. SearchInv => GroupsAreHonest
  BY DEF SearchInv
<1> QED BY <1>1, SearchBegins, SearchStep, PTL DEF LookupSpec

(* No ranked response leaves out a newer pair that could be verified from  *)
(* the start, and its first is what the planner would pin.                 *)
THEOREM RankingHolds == LookupSpec => []RankingIsComplete
<1>1. SearchInv => RankingIsComplete
  BY DEF SearchInv
<1> QED BY <1>1, SearchBegins, SearchStep, PTL DEF LookupSpec
-----------------------------------------------------------------------------
(* The planner's charts.                                                   *)

ChartRows == Seq([version : Charted, app : Charted])

(* Of a finite set of versions there is a newest.                          *)
LEMMA NewestTells ==
  ASSUME NEW S \in SUBSET VersionRecord, IsFiniteSet(S)
  PROVE  (S = {} => Newest(S) = NoVer) /\ (S # {} => Newest(S) \in S)
<1> SUFFICES ASSUME S # {} PROVE Newest(S) \in S
  BY DEF Newest
<1> DEFINE line == [v \in S |-> v.line]
<1>1. line \in [S -> Nat] /\ \A v \in S : v.line \in Nat /\ v.patch \in Nat
  BY DEF VersionRecord
<1>2. PICK m \in S : \A n \in S : line[m] >= line[n]
  <2> HIDE DEF line
  <2> QED BY <1>1, GreatestOf
<1> DEFINE last == {v \in S : v.line = m.line}
           patch == [v \in last |-> v.patch]
<1>3. last # {} /\ IsFiniteSet(last) /\ patch \in [last -> Nat]
  BY <1>1, FS_Subset
<1>4. PICK w \in last : \A n \in last : patch[w] >= patch[n]
  <2> HIDE DEF patch, last
  <2> QED BY <1>3, GreatestOf
<1>5. ~\E u \in S : ReleaseLess(w, u)
  <2> SUFFICES ASSUME NEW u \in S, ReleaseLess(w, u) PROVE FALSE
    OBVIOUS
  <2>1. w.line = m.line /\ m.line >= u.line
    BY <1>2, <1>4
  <2>2. u.line = m.line /\ w.patch < u.patch
    BY <1>1, <1>4, <2>1 DEF ReleaseLess
  <2>3. w.patch >= u.patch
    BY <1>4, <2>2
  <2> QED BY <1>1, <1>4, <2>2, <2>3
<1>6. w \in S
  BY <1>4
<1> HIDE DEF last
<1> QED BY <1>5, <1>6 DEF Newest

LEMMA RowsTell ==
  ASSUME ask \in Asks, NEW s, NEW repo \in ChartRepos
  PROVE  /\ ask.charts[repo] \in ChartRows /\ Rows(s, ask, repo) \in ChartRows
         /\ Rows(s, ask, repo) \in {<<>>, ask.charts[repo]}
         /\ ask.down = {} /\ s.failed = {} => Rows(s, ask, repo) = ask.charts[repo]
<1>1. ask.charts[repo] \in ChartRows
  BY AskAssumption DEF ChartRows
<1>2. <<>> \in ChartRows
  BY DEF ChartRows
<1> QED BY <1>1, <1>2 DEF Rows, RepoFails

(* The releases of a chart's rows.                                         *)
LEMMA ReleasesTell ==
  ASSUME NEW rows \in ChartRows
  PROVE  /\ Releases(rows) \in SUBSET VersionRecord /\ IsFiniteSet(Releases(rows))
         /\ \A v \in Releases(rows) : v.kind = "release"
         /\ \A v \in Versions(rows) : v \in Charted /\ v # NoVer
         /\ \A i \in DOMAIN rows : rows[i].version \in Charted /\ rows[i].app \in Charted
<1> DEFINE version == [i \in DOMAIN rows |-> rows[i].version]
<1>1. Len(rows) \in Nat /\ DOMAIN rows = 1..Len(rows) /\ rows \in [1..Len(rows) -> [version : Charted, app : Charted]]
  BY LenProperties DEF ChartRows
<1>2. \A i \in DOMAIN rows : rows[i].version \in Charted /\ rows[i].app \in Charted
  BY <1>1
<1>3. IsFiniteSet(DOMAIN rows)
  BY <1>1, FS_Interval
<1>4. version \in Surjection(DOMAIN rows, Versions(rows))
  BY DEF Surjection, Versions
<1>5. IsFiniteSet(Versions(rows))
  <2> HIDE DEF version
  <2> QED BY <1>3, <1>4, FS_Surjection
<1>6. IsFiniteSet(Releases(rows))
  BY <1>5, FS_Subset DEF Releases
<1>7. \A v \in Versions(rows) : v \in Charted
  BY <1>2 DEF Versions
<1>8. \A v \in Charted : v \in VersionRecord /\ v # NoVer
  BY DEF Charted, NoVer, Ver
<1> QED BY <1>2, <1>6, <1>7, <1>8 DEF Releases

LEMMA LatestTells ==
  ASSUME NEW rows \in ChartRows, NEW line
  PROVE  /\ LatestRelease(rows) # NoVer => LatestRelease(rows).kind = "release"
         /\ LatestMinorRelease(rows, line) # NoVer <=> \E v \in Releases(rows) : v.line = line
         /\ LatestMinorRelease(rows, line) # NoVer =>
              LatestMinorRelease(rows, line).kind = "release" /\ LatestMinorRelease(rows, line).line = line
<1> DEFINE minor == {v \in Releases(rows) : v.line = line}
<1>1. /\ Releases(rows) \in SUBSET VersionRecord /\ IsFiniteSet(Releases(rows))
      /\ \A v \in Releases(rows) : v.kind = "release"
  BY ReleasesTell
<1>2. minor \in SUBSET VersionRecord /\ IsFiniteSet(minor)
  BY <1>1, FS_Subset
<1>3. NoVer.kind # "release"
  BY DEF NoVer, Ver, None
<1>4. LatestRelease(rows) # NoVer => LatestRelease(rows) \in Releases(rows)
  BY <1>1, NewestTells DEF LatestRelease
<1>5. (minor = {} => LatestMinorRelease(rows, line) = NoVer) /\ (minor # {} => LatestMinorRelease(rows, line) \in minor)
  <2> HIDE DEF minor
  <2>1. (minor = {} => Newest(minor) = NoVer) /\ (minor # {} => Newest(minor) \in minor)
    BY <1>2, NewestTells
  <2> QED BY <2>1 DEF minor, LatestMinorRelease
<1> QED BY <1>1, <1>3, <1>4, <1>5

(* The release that compatibility is looked up with.                       *)
LEMMA BaselineTells ==
  ASSUME ask \in Asks, NEW s, NEW line \in Nat
  PROVE  LET b == Baseline(s, ask, line)
         IN b # NoVer =>
              /\ b.kind = "release" /\ b.line \in {line - 1, line}
              /\ b.line # line => \A r \in ReleaseRepos : LatestMinorRelease(Rows(s, ask, r), line) = NoVer
<1> DEFINE all == UNION {Releases(Rows(s, ask, r)) : r \in ReleaseRepos}
           of(l) == {v \in all : v.line = l}
<1>1. \A r \in ReleaseRepos : Rows(s, ask, r) \in ChartRows
  BY RowsTell DEF ChartRepos
<1>2. \A r \in ReleaseRepos : /\ Releases(Rows(s, ask, r)) \in SUBSET VersionRecord /\ IsFiniteSet(Releases(Rows(s, ask, r)))
                              /\ \A v \in Releases(Rows(s, ask, r)) : v.kind = "release"
  BY <1>1, ReleasesTell
<1> DEFINE first == Releases(Rows(s, ask, "latest"))
           second == Releases(Rows(s, ask, "prime"))
<1>3. /\ first \in SUBSET VersionRecord /\ IsFiniteSet(first) /\ \A v \in first : v.kind = "release"
      /\ second \in SUBSET VersionRecord /\ IsFiniteSet(second) /\ \A v \in second : v.kind = "release"
  BY <1>2 DEF ReleaseRepos
<1>a. all = first \union second
  BY DEF ReleaseRepos
<1>4. all \in SUBSET VersionRecord /\ IsFiniteSet(all) /\ \A v \in all : v.kind = "release"
  <2> HIDE DEF first, second, all
  <2>1. IsFiniteSet(first \union second)
    BY <1>3, FS_Union
  <2> QED BY <1>3, <1>a, <2>1
<1>5. NoVer.kind # "release"
  BY DEF NoVer, Ver, None
<1>6. ASSUME NEW l
      PROVE  /\ ReleasedBaseline(s, ask, l) = NoVer <=> of(l) = {}
             /\ of(l) # {} => ReleasedBaseline(s, ask, l).kind = "release" /\ ReleasedBaseline(s, ask, l).line = l
  <2>1. of(l) \in SUBSET VersionRecord /\ IsFiniteSet(of(l))
    BY <1>4, FS_Subset
  <2>2. ReleasedBaseline(s, ask, l) = Newest(of(l))
    BY DEF ReleasedBaseline
  <2>3. \A v \in of(l) : v.kind = "release" /\ v.line = l
    BY <1>4
  <2> HIDE DEF of
  <2>4. (of(l) = {} => Newest(of(l)) = NoVer) /\ (of(l) # {} => Newest(of(l)) \in of(l))
    BY <2>1, NewestTells
  <2> QED BY <1>5, <2>2, <2>3, <2>4
<1>7. ASSUME of(line) = {}, NEW r \in ReleaseRepos
      PROVE  LatestMinorRelease(Rows(s, ask, r), line) = NoVer
  <2>1. ~\E v \in Releases(Rows(s, ask, r)) : v.line = line
    BY <1>7
  <2> QED BY <1>1, <2>1, LatestTells
<1> HIDE DEF of
<1>8. \/ /\ Baseline(s, ask, line) = ReleasedBaseline(s, ask, line)
         /\ line = 0 \/ ReleasedBaseline(s, ask, line) # NoVer
      \/ Baseline(s, ask, line) = ReleasedBaseline(s, ask, line - 1) /\ ReleasedBaseline(s, ask, line) = NoVer
  BY DEF Baseline
<1> QED BY <1>6, <1>7, <1>8
(* The repositories that a request's charts are looked for in.             *)
LEMMA SourcesTell ==
  ASSUME NEW distro, NEW build
  PROVE  /\ Sources(distro, build) \in Seq(ChartRepos)
         /\ build = "head" => "latest" \in Range(Sources(distro, build))
<1> DEFINE community == CASE build = "alpha" -> <<"optimusAlpha", "optimusLatest", "alpha", "latest">>
                          [] build \in {"rc", "rcs"} -> <<"optimusLatest", "latest">>
                          [] OTHER -> <<"latest", "optimusLatest">>
           s == Sources(distro, build)
<1>1. /\ <<"optimusAlpha", "optimusLatest", "alpha", "latest">> \in Seq(ChartRepos)
      /\ <<"optimusLatest", "latest">> \in Seq(ChartRepos) /\ <<"latest", "optimusLatest">> \in Seq(ChartRepos)
      /\ <<"prime">> \in Seq(ChartRepos) /\ <<"prime", "latest", "optimusLatest">> \in Seq(ChartRepos)
      /\ <<"prime", "optimusLatest", "latest">> \in Seq(ChartRepos)
  BY DEF ChartRepos, ReleaseRepos
<1>2. community \in Seq(ChartRepos)
  BY <1>1
<1>3. s \in {<<"prime", "latest", "optimusLatest">>, <<"prime">>, community, community \o <<"prime">>,
             <<"prime", "optimusLatest", "latest">>, <<"prime">> \o community}
  BY DEF Sources
<1>4. s \in Seq(ChartRepos)
  <2> HIDE DEF community, s
  <2>1. community \o <<"prime">> \in Seq(ChartRepos) /\ <<"prime">> \o community \in Seq(ChartRepos)
    BY <1>1, <1>2, ConcatProperties
  <2> QED BY <1>1, <1>2, <1>3, <2>1
<1>5. ASSUME build = "head" PROVE "latest" \in Range(s)
  <2>1. community = <<"latest", "optimusLatest">>
    BY <1>5
  <2>2. s \in {<<"prime", "latest", "optimusLatest">>, <<"latest", "optimusLatest">>,
               <<"latest", "optimusLatest">> \o <<"prime">>, <<"prime">> \o <<"latest", "optimusLatest">>}
    BY <1>5, <2>1 DEF Sources
  <2>3. \/ 1 \in DOMAIN s /\ s[1] = "latest"
        \/ 2 \in DOMAIN s /\ s[2] = "latest"
    <3>1. CASE s = <<"prime", "latest", "optimusLatest">>
      <4> HIDE DEF s
      <4> QED BY <3>1
    <3>2. CASE s = <<"latest", "optimusLatest">>
      <4> HIDE DEF s
      <4> QED BY <3>2
    <3>3. CASE s = <<"latest", "optimusLatest">> \o <<"prime">>
      <4> HIDE DEF s
      <4> QED BY <3>3
    <3>4. CASE s = <<"prime">> \o <<"latest", "optimusLatest">>
      <4> HIDE DEF s
      <4> QED BY <3>4
    <3> HIDE DEF s
    <3> QED BY <2>2, <3>1, <3>2, <3>3, <3>4
  <2> HIDE DEF s
  <2> QED BY <2>3 DEF Range
<1> HIDE DEF s
<1> QED BY <1>4, <1>5 DEF s

(* The search of all charts finds the version where it is, or finds none.  *)
CarriedBy(row, v) == v \in {row.version, row.app}

LEMMA GlobalTells ==
  ASSUME ask \in Asks, NEW repos \in Seq(ChartRepos), NEW want
  PROVE  LET g == GlobalMatch(ask, repos, want)
         IN /\ g # NoChart =>
                 \E repo \in Range(repos) : \E i \in DOMAIN ask.charts[repo] :
                   /\ CarriedBy(ask.charts[repo][i], want)
                   /\ g = [repo |-> repo, version |-> ask.charts[repo][i].version, baseline |-> NoVer]
            /\ g = NoChart /\ "all" \notin ask.down =>
                 \A repo \in Range(repos) : \A i \in DOMAIN ask.charts[repo] : ~CarriedBy(ask.charts[repo][i], want)
<1> DEFINE rows(r) == ask.charts[r]
           Hits(r) == {i \in DOMAIN rows(r) : want \in {rows(r)[i].version, rows(r)[i].app}}
           found == {k \in DOMAIN repos : Hits(repos[k]) # {}}
           first == Min(found)
           repo == repos[first]
           hit == Min(Hits(repo))
           g == GlobalMatch(ask, repos, want)
<1>1. g = IF "all" \in ask.down \/ found = {} THEN NoChart
          ELSE [NoChart EXCEPT !.repo = repo, !.version = rows(repo)[hit].version]
  BY DEF GlobalMatch
<1>2. DOMAIN repos = 1..Len(repos) /\ Len(repos) \in Nat /\ \A k \in DOMAIN repos : repos[k] \in ChartRepos
  BY LenProperties
<1>3. \A r \in ChartRepos : /\ ask.charts[r] \in ChartRows
                            /\ DOMAIN ask.charts[r] = 1..Len(ask.charts[r]) /\ Len(ask.charts[r]) \in Nat
                            /\ \A i \in DOMAIN ask.charts[r] : ask.charts[r][i].version \in Charted
  <2> SUFFICES ASSUME NEW r \in ChartRepos
               PROVE  /\ ask.charts[r] \in ChartRows
                      /\ DOMAIN ask.charts[r] = 1..Len(ask.charts[r]) /\ Len(ask.charts[r]) \in Nat
                      /\ \A i \in DOMAIN ask.charts[r] : ask.charts[r][i].version \in Charted
    OBVIOUS
  <2>1. ask.charts[r] \in ChartRows
    BY AskAssumption DEF ChartRows
  <2>2. DOMAIN ask.charts[r] = 1..Len(ask.charts[r]) /\ Len(ask.charts[r]) \in Nat
    BY <2>1, LenProperties DEF ChartRows
  <2> QED BY <2>1, <2>2, ReleasesTell
<1>4. \A r \in ChartRepos : Hits(r) \in SUBSET Nat /\ Hits(r) \subseteq DOMAIN ask.charts[r]
  BY <1>3
<1>5. found \in SUBSET Nat
  BY <1>2
<1>6. ASSUME NEW S \in SUBSET Nat, S # {} PROVE Min(S) \in S
  BY <1>6, LeastExists DEF Min
<1>7. ASSUME found # {}, "all" \notin ask.down
      PROVE  /\ repo \in Range(repos) /\ hit \in DOMAIN ask.charts[repo] /\ CarriedBy(ask.charts[repo][hit], want)
             /\ ask.charts[repo][hit].version \in Charted
             /\ g = [repo |-> repo, version |-> ask.charts[repo][hit].version, baseline |-> NoVer]
  <2>1. first \in found
    <3> HIDE DEF found
    <3> QED BY <1>5, <1>6, <1>7
  <2>2. first \in DOMAIN repos /\ repo \in ChartRepos /\ Hits(repo) # {}
    BY <1>2, <2>1
  <2>3. Hits(repo) \in SUBSET Nat
    BY <1>4, <2>2
  <2>4. hit \in Hits(repo)
    <3> HIDE DEF Hits
    <3> QED BY <1>6, <2>2, <2>3
  <2>5. g = [repo |-> repo, version |-> ask.charts[repo][hit].version, baseline |-> NoVer]
    <3>1. g = [NoChart EXCEPT !.repo = repo, !.version = rows(repo)[hit].version]
      BY <1>1, <1>7
    <3> HIDE DEF g, repo, hit
    <3> QED BY <3>1 DEF NoChart
  <2>6. hit \in DOMAIN ask.charts[repo] /\ want \in {ask.charts[repo][hit].version, ask.charts[repo][hit].app}
    BY <2>4
  <2>7. repo \in Range(repos)
    BY <2>2 DEF Range
  <2> HIDE DEF repo, hit, g
  <2> QED BY <1>3, <2>2, <2>5, <2>6, <2>7 DEF CarriedBy
<1>8. \A v \in Charted : v # NoVer
  BY DEF Charted, NoVer, Ver
<1>9. ASSUME found # {}, "all" \notin ask.down PROVE g # NoChart
  <2> HIDE DEF g, repo, hit
  <2> QED BY <1>7, <1>8, <1>9 DEF NoChart
<1>10. ASSUME found = {}, NEW r \in Range(repos), NEW i \in DOMAIN ask.charts[r], CarriedBy(ask.charts[r][i], want)
       PROVE  FALSE
  <2>1. PICK k \in DOMAIN repos : r = repos[k]
    BY DEF Range
  <2>2. i \in Hits(r)
    BY <1>10 DEF CarriedBy
  <2> QED BY <1>10, <2>1, <2>2
<1>11. g # NoChart => found # {} /\ "all" \notin ask.down
  <2> HIDE DEF repo, hit, found
  <2> QED BY <1>1
<1>12. g # NoChart =>
         \E r \in Range(repos) : \E i \in DOMAIN ask.charts[r] :
           CarriedBy(ask.charts[r][i], want) /\ g = [repo |-> r, version |-> ask.charts[r][i].version, baseline |-> NoVer]
  <2> HIDE DEF g, found, repo, hit
  <2> QED BY <1>7, <1>11
<1>13. g = NoChart /\ "all" \notin ask.down =>
         \A r \in Range(repos) : \A i \in DOMAIN ask.charts[r] : ~CarriedBy(ask.charts[r][i], want)
  <2> HIDE DEF g
  <2> QED BY <1>9, <1>10
<1> HIDE DEF g
<1> QED BY <1>12, <1>13 DEF g
(* The best of the offers is one of them, and of the lowest rank.          *)
LEMMA BestTells ==
  ASSUME NEW repos, NEW offers, offers # {}, \A x \in offers : x[1] \in Nat /\ x[2].rank \in Nat
  PROVE  \E x \in offers :
           /\ Best(repos, offers) = [repo |-> repos[x[1]], version |-> x[2].version, baseline |-> x[2].baseline]
           /\ \A y \in offers : x[2].rank <= y[2].rank
<1> DEFINE Order(x) == \A y \in offers : x[2].rank < y[2].rank \/ (x[2].rank = y[2].rank /\ x[1] <= y[1])
           ranks == {x[2].rank : x \in offers}
<1>1. PICK m \in ranks : \A n \in ranks : m <= n
  <2>1. ranks \in SUBSET Nat /\ ranks # {}
    OBVIOUS
  <2> HIDE DEF ranks
  <2> QED BY <2>1, LeastExists
<1> DEFINE lowest == {x \in offers : x[2].rank = m}
           places == {x[1] : x \in lowest}
<1>2. PICK p \in places : \A n \in places : p <= n
  <2>1. places \in SUBSET Nat /\ places # {}
    BY <1>1
  <2> HIDE DEF places
  <2> QED BY <2>1, LeastExists
<1>3. PICK x \in offers : x[2].rank = m /\ x[1] = p
  BY <1>2
<1>4. Order(x)
  <2> SUFFICES ASSUME NEW y \in offers
               PROVE  x[2].rank < y[2].rank \/ (x[2].rank = y[2].rank /\ x[1] <= y[1])
    OBVIOUS
  <2>1. m <= y[2].rank /\ m \in Nat /\ y[2].rank \in Nat
    BY <1>1
  <2>2. CASE y[2].rank = m
    <3>1. p <= y[1]
      BY <1>2, <2>2
    <3> QED BY <1>3, <2>2, <3>1
  <2>3. CASE y[2].rank # m
    BY <1>3, <2>1, <2>3
  <2> QED BY <2>2, <2>3
<1> DEFINE best == CHOOSE z \in offers : Order(z)
<1>5. best \in offers /\ Order(best)
  <2> HIDE DEF Order
  <2> QED BY <1>4
<1>6. Best(repos, offers) = [repo |-> repos[best[1]], version |-> best[2].version, baseline |-> best[2].baseline]
  BY DEF Best
<1>7. \A y \in offers : best[2].rank <= y[2].rank
  <2> SUFFICES ASSUME NEW y \in offers PROVE best[2].rank <= y[2].rank
    OBVIOUS
  <2>1. best[2].rank < y[2].rank \/ best[2].rank = y[2].rank
    BY <1>5
  <2> HIDE DEF best
  <2> QED BY <1>5, <2>1
<1> HIDE DEF best
<1> QED BY <1>5, <1>6, <1>7

(* What a repository may offer.                                            *)
LEMMA OffersTell ==
  ASSUME NEW s, NEW repo, NEW want, NEW build, NEW line
  PROVE  LET rows == Rows(s, ask, repo)
             base == Baseline(s, ask, line)
             minor == LatestMinorRelease(rows, line)
             offers == Offers(s, ask, repo, want, build, line)
         IN /\ \A o \in offers :
                 \/ /\ o.rank = 0 /\ o.version = want /\ want \in Versions(rows)
                    /\ o.baseline = want \/ (o.baseline = base /\ base # NoVer)
                 \/ o.rank = 1 /\ build # "release" /\ o.version = minor /\ minor # NoVer /\ o.baseline = Or(base, minor)
                 \/ o.rank = 2 /\ build # "release" /\ o.version = base /\ base \in Versions(rows) /\ o.baseline = base
            /\ build # "release" /\ minor # NoVer => \E o \in offers : o.rank = 1
<1> DEFINE rows == Rows(s, ask, repo)
           base == Baseline(s, ask, line)
           minor == LatestMinorRelease(rows, line)
           offers == Offers(s, ask, repo, want, build, line)
           Offer(rank, version, baseline) == [rank |-> rank, version |-> version, baseline |-> baseline]
           own == IF build = "release" THEN want ELSE Or(base, want)
<1>1. offers = {o \in {Offer(0, want, own)} : want \in Versions(rows)}
                 \union {o \in {Offer(1, minor, Or(base, minor))} : build # "release" /\ minor # NoVer}
                 \union {o \in {Offer(2, base, base)} : build # "release" /\ base \in Versions(rows)}
  BY DEF Offers
<1>2. own = want \/ (own = base /\ base # NoVer)
  BY DEF Or
<1> HIDE DEF rows, base, minor, offers, own
<1>3. ASSUME NEW o \in offers
      PROVE  \/ /\ o.rank = 0 /\ o.version = want /\ want \in Versions(rows)
                /\ o.baseline = want \/ (o.baseline = base /\ base # NoVer)
             \/ o.rank = 1 /\ build # "release" /\ o.version = minor /\ minor # NoVer /\ o.baseline = Or(base, minor)
             \/ o.rank = 2 /\ build # "release" /\ o.version = base /\ base \in Versions(rows) /\ o.baseline = base
  <2>1. \/ o = Offer(0, want, own) /\ want \in Versions(rows)
        \/ o = Offer(1, minor, Or(base, minor)) /\ build # "release" /\ minor # NoVer
        \/ o = Offer(2, base, base) /\ build # "release" /\ base \in Versions(rows)
    BY <1>1
  <2> QED BY <1>2, <2>1
<1>4. ASSUME build # "release", minor # NoVer PROVE \E o \in offers : o.rank = 1
  <2>1. Offer(1, minor, Or(base, minor)) \in offers
    BY <1>1, <1>4
  <2> QED BY <2>1
<1> QED BY <1>3, <1>4 DEF rows, base, minor, offers
(* What PlanFitsRequest says of the chart `c' of the version `want' that is*)
(* looked for in `repos'.                                                  *)
OwnRow(c, want) ==
  \E i \in DOMAIN ask.charts[c.repo] :
    ask.charts[c.repo][i].version = c.version /\ CarriedBy(ask.charts[c.repo][i], want)
NearLine(v, want) == v.line \in {want.line - 1, want.line}
ChartFits(c, want, repos) ==
  /\ c.repo \in Range(repos) /\ c.baseline \in VersionRecord
  /\ OwnRow(c, want) \/ c.version.kind = "release"
  /\ want.kind # "head" =>
       /\ ~OwnRow(c, want) /\ "all" \notin ask.down => \A r \in Range(repos) : ~HasRow(r, want)
       /\ ~OwnRow(c, want) => NearLine(c.version, want)
       /\ c.baseline = want \/ (c.baseline.kind = "release" /\ NearLine(c.baseline, want))
       /\ ~OwnRow(c, want) /\ ask.down = {} /\ want.line \notin {c.version.line, 0} =>
            \A r \in Range(repos) \union ReleaseRepos : ~HasRelease(r, want.line)

(* A version of a chart's rows is one that the index carries.              *)
LEMMA RowIsOwn ==
  ASSUME ask \in Asks, NEW s, NEW repo \in ChartRepos, NEW v \in Versions(Rows(s, ask, repo)),
         NEW c, c.repo = repo, c.version = v
  PROVE  OwnRow(c, v)
<1>1. Rows(s, ask, repo) \in {<<>>, ask.charts[repo]}
  BY RowsTell
<1>2. Versions(<<>>) = {}
  BY DEF Versions
<1>3. v \in Versions(ask.charts[repo])
  BY <1>1, <1>2
<1>4. PICK i \in DOMAIN ask.charts[repo] : ask.charts[repo][i].version = v
  BY <1>3 DEF Versions
<1> QED BY <1>4 DEF OwnRow, CarriedBy

(* The baseline, where there is one, is a release in the registries' terms.*)
LEMMA BaselineIsVersion ==
  ASSUME ask \in Asks, NEW s, NEW line \in Nat
  PROVE  Baseline(s, ask, line) \in VersionRecord
<1> DEFINE first == Releases(Rows(s, ask, "latest"))
           second == Releases(Rows(s, ask, "prime"))
           all == UNION {Releases(Rows(s, ask, r)) : r \in ReleaseRepos}
<1>1. Rows(s, ask, "latest") \in ChartRows /\ Rows(s, ask, "prime") \in ChartRows
  BY RowsTell DEF ChartRepos, ReleaseRepos
<1>2. first \in SUBSET VersionRecord /\ IsFiniteSet(first) /\ second \in SUBSET VersionRecord /\ IsFiniteSet(second)
  BY <1>1, ReleasesTell
<1>3. all = first \union second
  BY DEF ReleaseRepos
<1>4. all \in SUBSET VersionRecord /\ IsFiniteSet(all)
  <2> HIDE DEF first, second, all
  <2> QED BY <1>2, <1>3, FS_Union
<1>5. NoVer \in VersionRecord
  BY DEF NoVer, Ver, VersionRecord, VersionKinds
<1>6. ASSUME NEW l PROVE ReleasedBaseline(s, ask, l) \in VersionRecord
  <2> DEFINE of == {v \in all : v.line = l}
  <2>1. of \in SUBSET VersionRecord /\ IsFiniteSet(of)
    BY <1>4, FS_Subset
  <2>2. ReleasedBaseline(s, ask, l) = Newest(of)
    BY DEF ReleasedBaseline
  <2> HIDE DEF of
  <2>3. Newest(of) \in of \union {NoVer}
    BY <2>1, NewestTells
  <2> QED BY <1>5, <2>1, <2>2, <2>3
<1> QED BY <1>6 DEF Baseline

LEMMA MinorIsVersion ==
  ASSUME NEW rows \in ChartRows, NEW line
  PROVE  LatestMinorRelease(rows, line) \in VersionRecord /\ LatestRelease(rows) \in VersionRecord
<1> DEFINE minor == {v \in Releases(rows) : v.line = line}
<1>1. Releases(rows) \in SUBSET VersionRecord /\ IsFiniteSet(Releases(rows))
  BY ReleasesTell
<1>2. minor \in SUBSET VersionRecord /\ IsFiniteSet(minor)
  BY <1>1, FS_Subset
<1>3. NoVer \in VersionRecord
  BY DEF NoVer, Ver, VersionRecord, VersionKinds
<1>4. LatestRelease(rows) \in VersionRecord
  BY <1>1, <1>3, NewestTells DEF LatestRelease
<1>5. Newest(minor) \in VersionRecord
  <2> HIDE DEF minor
  <2>1. Newest(minor) \in minor \union {NoVer}
    BY <1>2, NewestTells
  <2> QED BY <1>2, <1>3, <2>1
<1> QED BY <1>4, <1>5 DEF LatestMinorRelease

(* The plain head takes the newest release of the community's charts.      *)
LEMMA PlainFits ==
  ASSUME ask \in Asks, NEW s, NEW want, want.kind = "head", NEW line, NEW distro,
         NEW repos, repos = Sources(distro, "head"), NEW c, c = Chart(s, ask, repos, want, "head", line), c # NoChart
  PROVE  ChartFits(c, want, repos)
<1> DEFINE newest == LatestRelease(Rows(s, ask, "latest"))
<1>1. Rows(s, ask, "latest") \in ChartRows
  BY RowsTell DEF ChartRepos, ReleaseRepos
<1>2. c = [repo |-> "latest", version |-> newest, baseline |-> newest] /\ newest # NoVer
  BY DEF Chart
<1>3. newest.kind = "release" /\ newest \in VersionRecord
  BY <1>1, <1>2, LatestTells, MinorIsVersion
<1>4. "latest" \in Range(repos)
  BY SourcesTell
<1> HIDE DEF newest
<1> QED BY <1>2, <1>3, <1>4 DEF ChartFits

(* The version was found in a search of all charts.                        *)
LEMMA HitFits ==
  ASSUME ask \in Asks, NEW s, NEW want \in VersionRecord, NEW build, NEW repos \in Seq(ChartRepos),
         GlobalMatch(ask, repos, want) # NoChart,
         NEW c, c = [GlobalMatch(ask, repos, want) EXCEPT !.baseline =
                       IF build = "release" THEN want ELSE Or(Baseline(s, ask, want.line), want)]
  PROVE  ChartFits(c, want, repos)
<1> DEFINE base == Baseline(s, ask, want.line)
<1>1. want.line \in Nat
  BY DEF VersionRecord
<1>2. PICK repo \in Range(repos) : \E i \in DOMAIN ask.charts[repo] :
        /\ CarriedBy(ask.charts[repo][i], want)
        /\ GlobalMatch(ask, repos, want) = [repo |-> repo, version |-> ask.charts[repo][i].version, baseline |-> NoVer]
  BY GlobalTells
<1>3. PICK i \in DOMAIN ask.charts[repo] :
        /\ CarriedBy(ask.charts[repo][i], want)
        /\ GlobalMatch(ask, repos, want) = [repo |-> repo, version |-> ask.charts[repo][i].version, baseline |-> NoVer]
  BY <1>2
<1>4. c.repo = repo /\ c.version = ask.charts[repo][i].version
      /\ c.baseline = IF build = "release" THEN want ELSE Or(base, want)
  <2> HIDE DEF base
  <2>1. c = [[repo |-> repo, version |-> ask.charts[repo][i].version, baseline |-> NoVer] EXCEPT !.baseline =
               IF build = "release" THEN want ELSE Or(base, want)]
    BY <1>3 DEF base
  <2> QED BY <2>1
<1>5. base \in VersionRecord /\ (base # NoVer => base.kind = "release" /\ NearLine(base, want))
  BY <1>1, BaselineIsVersion, BaselineTells DEF NearLine
<1>6. c.baseline = want \/ (c.baseline = base /\ base # NoVer)
  BY <1>4 DEF Or
<1>7. OwnRow(c, want)
  BY <1>3, <1>4 DEF OwnRow
<1> HIDE DEF base
<1> QED BY <1>2, <1>4, <1>5, <1>6, <1>7 DEF ChartFits
(* The best offer, when no search of all charts found the version.         *)
LEMMA OfferFits ==
  ASSUME ask \in Asks, NEW s, s.failed \subseteq ask.down, NEW want \in VersionRecord, NEW build,
         NEW repos \in Seq(ChartRepos), GlobalMatch(ask, repos, want) = NoChart,
         NEW c, c = BestOffer(s, ask, repos, want, build, want.line), c # NoChart
  PROVE  ChartFits(c, want, repos)
<1> DEFINE line == want.line
           base == Baseline(s, ask, line)
           of(k) == Offers(s, ask, repos[k], want, build, line)
           offers == UNION {{<<k, o>> : o \in of(k)} : k \in DOMAIN repos}
           minor(k) == LatestMinorRelease(Rows(s, ask, repos[k]), line)
           rows(k) == Rows(s, ask, repos[k])
<1>1. line \in Nat
  BY DEF VersionRecord
<1>2. DOMAIN repos \subseteq Nat /\ (\A k \in DOMAIN repos : repos[k] \in ChartRepos /\ repos[k] \in Range(repos))
  BY LenProperties DEF Range
<1>3. \A k \in DOMAIN repos : rows(k) \in ChartRows
  BY <1>2, RowsTell
<1>4. \A k \in DOMAIN repos : \A o \in of(k) :
        \/ /\ o.rank = 0 /\ o.version = want /\ want \in Versions(rows(k))
           /\ o.baseline = want \/ (o.baseline = base /\ base # NoVer)
        \/ o.rank = 1 /\ build # "release" /\ o.version = minor(k) /\ minor(k) # NoVer /\ o.baseline = Or(base, minor(k))
        \/ o.rank = 2 /\ build # "release" /\ o.version = base /\ base \in Versions(rows(k)) /\ o.baseline = base
  BY OffersTell
<1>5. \A k \in DOMAIN repos : build # "release" /\ minor(k) # NoVer => \E o \in of(k) : o.rank = 1
  BY OffersTell
<1>6. c = Best(repos, offers) /\ offers # {}
  <2>1. c = Best(repos, offers)
    BY DEF BestOffer
  <2> HIDE DEF offers
  <2> QED BY <2>1 DEF Best
<1>7. \A x \in offers : x[1] \in DOMAIN repos /\ x[2] \in of(x[1])
  <2> HIDE DEF of
  <2> QED OBVIOUS
<1>8. \A k \in DOMAIN repos : \A o \in of(k) : <<k, o>> \in offers
  <2> HIDE DEF of
  <2> QED OBVIOUS
<1> HIDE DEF of, offers, minor, rows, base
<1>9. \A x \in offers : x[1] \in Nat /\ x[2].rank \in Nat
  BY <1>2, <1>4, <1>7
<1>10. PICK x \in offers : /\ c = [repo |-> repos[x[1]], version |-> x[2].version, baseline |-> x[2].baseline]
                           /\ \A y \in offers : x[2].rank <= y[2].rank
  <2>1. \E x \in offers :
          /\ Best(repos, offers) = [repo |-> repos[x[1]], version |-> x[2].version, baseline |-> x[2].baseline]
          /\ \A y \in offers : x[2].rank <= y[2].rank
    BY <1>6, <1>9, BestTells
  <2> QED BY <1>6, <2>1
<1> DEFINE k == x[1]
           o == x[2]
<1>11. k \in DOMAIN repos /\ o \in of(k) /\ c.repo = repos[k] /\ c.version = o.version /\ c.baseline = o.baseline
  BY <1>7, <1>10
<1>12. \A n \in DOMAIN repos : \A p \in of(n) : o.rank <= p.rank
  <2> SUFFICES ASSUME NEW n \in DOMAIN repos, NEW p \in of(n) PROVE o.rank <= p.rank
    OBVIOUS
  <2>1. <<n, p>> \in offers
    BY <1>8
  <2> QED BY <1>10, <2>1
<1> HIDE DEF k, o
<1>13. c.repo \in Range(repos)
  BY <1>2, <1>11
<1>14. /\ base \in VersionRecord
       /\ base # NoVer => base.kind = "release" /\ base.line \in {line - 1, line}
       /\ base # NoVer /\ base.line # line => \A r \in ReleaseRepos : LatestMinorRelease(Rows(s, ask, r), line) = NoVer
  BY <1>1, BaselineIsVersion, BaselineTells DEF base
<1>15. /\ minor(k) \in VersionRecord
       /\ minor(k) # NoVer => minor(k).kind = "release" /\ minor(k).line = line
  <2>1. rows(k) \in ChartRows /\ minor(k) = LatestMinorRelease(rows(k), line)
    BY <1>3, <1>11 DEF minor, rows
  <2> QED BY <2>1, LatestTells, MinorIsVersion
<1>16. "all" \notin ask.down => \A r \in Range(repos) : ~HasRow(r, want)
  BY GlobalTells DEF HasRow, CarriedBy
<1>17. CASE o.rank = 0
  <2>1. c.version = want /\ want \in Versions(rows(k)) /\ (c.baseline = want \/ (c.baseline = base /\ base # NoVer))
    BY <1>4, <1>11, <1>17
  <2>2. OwnRow(c, want)
    BY <1>2, <1>11, <2>1, RowIsOwn DEF rows
  <2> QED BY <1>13, <1>14, <2>1, <2>2 DEF ChartFits, NearLine
<1>18. CASE o.rank = 1
  <2>1. c.version = minor(k) /\ minor(k) # NoVer /\ c.baseline = Or(base, minor(k))
    BY <1>4, <1>11, <1>18
  <2>2. c.baseline = minor(k) \/ (c.baseline = base /\ base # NoVer)
    BY <2>1 DEF Or
  <2>3. c.version.kind = "release" /\ NearLine(c.version, want) /\ c.version.line = want.line
    BY <1>15, <2>1 DEF NearLine
  <2>4. c.baseline \in VersionRecord /\ c.baseline.kind = "release" /\ NearLine(c.baseline, want)
    BY <1>14, <1>15, <2>1, <2>2 DEF NearLine
  <2> QED BY <1>13, <1>16, <2>3, <2>4 DEF ChartFits
<1>19. CASE o.rank = 2
  <2>1. build # "release" /\ c.version = base /\ base \in Versions(rows(k)) /\ c.baseline = base
    BY <1>4, <1>11, <1>19
  <2>2. base # NoVer
    BY <1>3, <1>11, <2>1, ReleasesTell
  <2>3. ASSUME ask.down = {}, want.line # c.version.line, NEW r \in Range(repos) \union ReleaseRepos
        PROVE  ~HasRelease(r, want.line)
    <3>1. s.failed = {}
      BY <2>3
    <3>2. CASE r \in ReleaseRepos
      <4>1. LatestMinorRelease(Rows(s, ask, r), line) = NoVer
        BY <1>14, <2>1, <2>2, <2>3, <3>2
      <4>2. Rows(s, ask, r) = ask.charts[r]
        BY <2>3, <3>1, <3>2, RowsTell DEF ChartRepos
      <4> QED BY <4>1, <4>2 DEF HasRelease
    <3>3. CASE r \in Range(repos)
      <4>1. PICK n \in DOMAIN repos : r = repos[n]
        BY <3>3 DEF Range
      <4>2. minor(n) = NoVer
        <5> SUFFICES ASSUME minor(n) # NoVer PROVE FALSE
          OBVIOUS
        <5>1. PICK p \in of(n) : p.rank = 1
          BY <1>5, <2>1
        <5>2. o.rank <= 1
          BY <1>12, <5>1
        <5> QED BY <1>19, <5>2
      <4>3. Rows(s, ask, r) = ask.charts[r]
        BY <1>2, <2>3, <3>1, <4>1, RowsTell
      <4> QED BY <4>1, <4>2, <4>3 DEF HasRelease, minor
    <3> QED BY <2>3, <3>2, <3>3
  <2>4. c.version.kind = "release" /\ NearLine(c.version, want) /\ c.baseline \in VersionRecord
        /\ c.baseline.kind = "release" /\ NearLine(c.baseline, want)
    BY <1>14, <2>1, <2>2 DEF NearLine
  <2>5. ask.down = {} /\ want.line \notin {c.version.line, 0} =>
          \A r \in Range(repos) \union ReleaseRepos : ~HasRelease(r, want.line)
    BY <2>3
  <2> QED BY <1>13, <1>16, <2>4, <2>5 DEF ChartFits
<1> QED BY <1>4, <1>11, <1>17, <1>18, <1>19

(* The chart of a plan fits what is asked.                                 *)
LEMMA ChartTells ==
  ASSUME ask \in Asks, NEW s, s.failed \subseteq ask.down, NEW want \in VersionRecord, NEW build, NEW distro,
         NEW c, c = Chart(s, ask, Sources(distro, build), want, build, want.line), c # NoChart
  PROVE  ChartFits(c, want, Sources(distro, build))
<1> DEFINE repos == Sources(distro, build)
<1>1. repos \in Seq(ChartRepos)
  BY SourcesTell
<1>2. CASE build = "head" /\ want.kind = "head"
  BY <1>2, PlainFits
<1>3. CASE ~(build = "head" /\ want.kind = "head")
  <2> HIDE DEF repos
  <2>1. c = IF GlobalMatch(ask, repos, want) = NoChart THEN BestOffer(s, ask, repos, want, build, want.line)
            ELSE [GlobalMatch(ask, repos, want) EXCEPT !.baseline =
                    IF build = "release" THEN want ELSE Or(Baseline(s, ask, want.line), want)]
    BY <1>3 DEF Chart, repos
  <2>2. CASE GlobalMatch(ask, repos, want) = NoChart
    <3>1. ChartFits(c, want, repos)
      BY <1>1, <2>1, <2>2, OfferFits
    <3> QED BY <3>1 DEF repos
  <2>3. CASE GlobalMatch(ask, repos, want) # NoChart
    <3>1. ChartFits(c, want, repos)
      BY <1>1, <2>1, <2>3, HitFits
    <3> QED BY <3>1 DEF repos
  <2> QED BY <2>2, <2>3
<1> QED BY <1>2, <1>3
(* The page of the support matrix is of the baseline's line or before it.  *)
LEMMA FallbackTells ==
  ASSUME NEW listed \in SUBSET VersionRecord, IsFiniteSet(listed), NEW want \in VersionRecord,
         MatrixFallback(want, listed) # NoVer
  PROVE  MatrixFallback(want, listed) \in listed /\ MatrixFallback(want, listed).line <= want.line
<1> DEFINE same == {v \in listed \ {want} : v.line = want.line}
           Nearer(v, w) == Distance(v, want) < Distance(w, want)
                             \/ (Distance(v, want) = Distance(w, want) /\ v.patch < w.patch)
           before == {v \in listed : v.line < want.line}
           chosen == CHOOSE v \in same : ~\E w \in same : Nearer(w, v)
<1>1. MatrixFallback(want, listed) = IF same # {} THEN chosen ELSE Newest(before)
  BY DEF MatrixFallback
<1>2. \A v \in VersionRecord : v.line \in Nat /\ v.patch \in Nat /\ Distance(v, want) \in Nat
  BY DEF VersionRecord, Distance
<1>3. ASSUME same # {} PROVE chosen \in same
  <2> DEFINE distances == {Distance(v, want) : v \in same}
  <2>1. PICK m \in distances : \A n \in distances : m <= n
    <3>1. distances \in SUBSET Nat /\ distances # {}
      BY <1>2, <1>3
    <3> HIDE DEF distances
    <3> QED BY <3>1, LeastExists
  <2> DEFINE near == {v \in same : Distance(v, want) = m}
             patches == {v.patch : v \in near}
  <2>2. PICK p \in patches : \A n \in patches : p <= n
    <3>1. patches \in SUBSET Nat /\ patches # {}
      BY <1>2, <2>1
    <3> HIDE DEF patches
    <3> QED BY <3>1, LeastExists
  <2>3. PICK v \in same : Distance(v, want) = m /\ v.patch = p
    BY <2>2
  <2>4. ~\E w \in same : Nearer(w, v)
    <3> SUFFICES ASSUME NEW w \in same, Nearer(w, v) PROVE FALSE
      OBVIOUS
    <3>1. m <= Distance(w, want) /\ Distance(w, want) \in Nat /\ w.patch \in Nat /\ m \in Nat /\ p \in Nat
      BY <1>2, <2>1, <2>3
    <3>2. CASE Distance(w, want) = m
      <4>1. w.patch \in patches
        BY <3>2
      <4>2. p <= w.patch
        BY <2>2, <4>1
      <4> QED BY <2>3, <3>1, <3>2, <4>2
    <3>3. CASE Distance(w, want) # m
      BY <2>3, <3>1, <3>3
    <3> QED BY <3>2, <3>3
  <2> HIDE DEF Nearer, same
  <2> QED BY <2>3, <2>4
<1>4. \A v \in same : v \in listed /\ v.line <= want.line
  BY <1>2
<1>5. ASSUME same = {} PROVE Newest(before) \in before
  <2>1. before \in SUBSET VersionRecord /\ IsFiniteSet(before)
    BY FS_Subset
  <2>2. Newest(before) # NoVer
    BY <1>1, <1>5
  <2> HIDE DEF before
  <2> QED BY <2>1, <2>2, NewestTells
<1>6. \A v \in before : v \in listed /\ v.line <= want.line
  BY <1>2
<1> HIDE DEF same, chosen, before
<1> QED BY <1>1, <1>3, <1>4, <1>5, <1>6

LEMMA MatrixTells ==
  ASSUME ask \in Asks, NEW want \in VersionRecord
  PROVE  \E w \in ask.matrix.listed \union {want} :
           w.line <= want.line /\ HighestRKE2(ask.matrix, want) \in {ask.matrix.range[w], ask.matrix.remembered[w]}
<1> DEFINE page == MatrixPage(ask.matrix, want)
           other == MatrixFallback(want, ask.matrix.listed)
<1>1. ask.matrix.listed \in SUBSET VersionRecord /\ IsFiniteSet(ask.matrix.listed)
  BY AskAssumption
<1>2. want.line \in Nat
  BY DEF VersionRecord
<1>3. page \in {want, NoVer} \/ (page = other /\ other # NoVer)
  <2> HIDE DEF other
  <2> QED BY DEF MatrixPage, other
<1>4. page # NoVer => page \in ask.matrix.listed \union {want} /\ page.line <= want.line
  <2> HIDE DEF page, other
  <2>1. other # NoVer => other \in ask.matrix.listed /\ other.line <= want.line
    BY <1>1, FallbackTells DEF other
  <2> QED BY <1>2, <1>3, <2>1
<1>5. HighestRKE2(ask.matrix, want) =
        IF page # NoVer /\ ask.matrix.range[page] # 0 THEN ask.matrix.range[page]
        ELSE ask.matrix.remembered[IF page # NoVer THEN page ELSE want]
  BY DEF HighestRKE2, Or
<1> HIDE DEF page
<1>6. CASE page # NoVer
  BY <1>4, <1>5, <1>6
<1>7. CASE page = NoVer
  BY <1>2, <1>5, <1>7
<1> QED BY <1>6, <1>7
-----------------------------------------------------------------------------
(* The planner's images.                                                   *)

(* A pair that is there, with labels that fit.                             *)
Paired(pair) ==
  /\ pair.registry \in DOMAIN Registry /\ pair.version \in StagingTags
  /\ Found(registry, pair.registry, "server", pair.version) /\ Found(registry, pair.registry, "agent", pair.version)
  /\ ExactPair(pair.version, registry[pair.registry]["server"][pair.version], registry[pair.registry]["agent"][pair.version])
StagingPair(v) == [registry |-> "staging", version |-> v]
PinsHold ==
  \A p \in pins :
    /\ Paired(StagingPair(p.got)) /\ OfSelector(p.got, p.want)
    /\ \A q \in pins : q.want = p.want => q.got = p.got

(* What a reading finds is there.                                          *)
LEMMA FoundTells ==
  ASSUME RegistryType, NEW read \in Readings,
         NEW place \in DOMAIN Registry, NEW role \in Roles, NEW v \in StagingTags, Found(read, place, role, v)
  PROVE  Found(registry, place, role, v) /\ read[place][role][v] = registry[place][role][v]
<1>1. read[place][role][v] \in {registry[place][role][v], FailedLookup}
  BY ReadingTells
<1>2. FailedLookup.status = "error"
  BY DEF FailedLookup, Answer
<1> QED BY <1>1, <1>2 DEF Found

(* A reading names the tags that the registry has.                         *)
LEMMA ListedIsKnown ==
  ASSUME RegistryType, NEW read \in Readings
  PROVE  DOMAIN read["staging"]["server"] \subseteq StagingTags
<1>1. /\ "staging" \in DOMAIN registry /\ registry["staging"] \in [Roles -> [StagingTags -> HeldAnswer]]
      /\ registry["staging"]["server"] \in [StagingTags -> HeldAnswer]
  BY RegistryAssumption DEF RegistryType, Roles
<1>2. CASE read = registry
  BY <1>1, <1>2
<1>3. ASSUME NEW r \in DOMAIN registry, NEW failed \in Roles,
             read = [registry EXCEPT ![r][failed] = [w \in DOMAIN @ |-> FailedLookup]]
      PROVE  DOMAIN read["staging"]["server"] \subseteq StagingTags
  <2>1. CASE r = "staging" /\ failed = "server"
    <3>1. read["staging"]["server"] = [w \in DOMAIN registry["staging"]["server"] |-> FailedLookup]
      BY <1>1, <1>3, <2>1 DEF Roles
    <3> QED BY <1>1, <3>1
  <2>2. CASE ~(r = "staging" /\ failed = "server")
    <3>1. read["staging"]["server"] = registry["staging"]["server"]
      BY <1>1, <1>3, <2>2 DEF Roles
    <3> QED BY <1>1, <3>1
  <2> QED BY <2>1, <2>2
<1> QED BY <1>2, <1>3 DEF Readings

(* A pair of the chosen registries.                                        *)
LEMMA PreferredTells ==
  ASSUME RegistryType, NEW read \in Readings, NEW v \in StagingTags, NEW registries \in Seq(DOMAIN Registry),
         NEW pair, pair = PreferredPair(v, registries, read), pair # NoPair
  PROVE  /\ Paired(pair) /\ pair.registry \in Range(registries) /\ pair.version = v
         /\ v.kind = "primeCommit" => ServerProvenance(v, registry[pair.registry]["server"][v])
<1> DEFINE Incomplete(r) == \/ read[r]["server"][v].status = "missing"
                            \/ read[r]["server"][v].status = "found" /\ read[r]["agent"][v].status = "missing"
           left == {i \in DOMAIN registries : ~Incomplete(registries[i])}
           first == Min(left)
           r == registries[first]
           server == read[r]["server"][v]
           agent == read[r]["agent"][v]
<1>1. pair = IF left = {} THEN NoPair
             ELSE IF /\ server.status = "found" /\ agent.status = "found"
                     /\ ExactPair(v, server, agent)
                     /\ v.kind = "primeCommit" => ServerProvenance(v, server)
                  THEN [registry |-> r, version |-> v]
                  ELSE NoPair
  BY DEF PreferredPair
<1>2. left \in SUBSET Nat /\ left \subseteq DOMAIN registries
  BY LenProperties
<1>3. left # {}
  <2> HIDE DEF left, r, server, agent
  <2> QED BY <1>1
<1>4. first \in left
  <2> HIDE DEF left
  <2> QED BY <1>2, <1>3, LeastExists DEF Min
<1>5. first \in DOMAIN registries /\ r \in DOMAIN Registry /\ r \in Range(registries)
  <2>1. first \in DOMAIN registries
    BY <1>2, <1>4
  <2> HIDE DEF first
  <2> QED BY <2>1, LenProperties DEF Range
<1>6. /\ pair = [registry |-> r, version |-> v] /\ server.status = "found" /\ agent.status = "found"
      /\ ExactPair(v, server, agent) /\ (v.kind = "primeCommit" => ServerProvenance(v, server))
  <2> HIDE DEF left, r, server, agent
  <2> QED BY <1>1, <1>3
<1> HIDE DEF r, left, first
<1>7. server = registry[r]["server"][v] /\ agent = registry[r]["agent"][v]
  BY <1>5, <1>6, FoundTells DEF Found, Roles
<1> QED BY <1>5, <1>6, <1>7 DEF Paired, Found

(* A patch selector's pair is one of staging, of that patch, and the same  *)
(* as before.                                                              *)
LEMMA PinTells ==
  ASSUME RegistryType, PinsHold, NEW read \in Readings, NEW i, Own(Asked[i], {"patchHead"}),
         NEW pair, pair = PairFor(i, read), pair # NoPair
  PROVE  /\ pair = StagingPair(pair.version) /\ Paired(pair) /\ OfSelector(pair.version, Asked[i].version)
         /\ \A p \in pins : p.want = Asked[i].version => p.got = pair.version
<1> DEFINE v == Asked[i].version
           kept == {p \in pins : p.want = v}
           at == read["staging"]
           listed == {w \in DOMAIN at["server"] : at["server"][w].status # "missing"}
           pin == IF kept # {} THEN (CHOOSE p \in kept : TRUE).got ELSE Bundle(v, listed, at, TRUE, TRUE)
<1>1. pair = [registry |-> "staging", version |-> pin] /\ pin # NoVer
  <2>1. pair = IF pin = NoVer THEN NoPair ELSE [registry |-> "staging", version |-> pin]
    BY DEF PairFor
  <2> HIDE DEF pin
  <2> QED BY <2>1
<1>2. CASE kept # {}
  <2>1. PICK p \in pins : p.want = v /\ pin = p.got
    BY <1>2
  <2> HIDE DEF pin
  <2> QED BY <1>1, <2>1 DEF PinsHold, StagingPair
<1>3. CASE kept = {}
  <2>1. listed \in SUBSET StagingTags
    BY ListedIsKnown
  <2>2. \A role \in Roles, w \in StagingTags : at[role][w] \in ImageAnswer
    BY ReadingTells, RegistryAssumption
  <2>3. pin = Bundle(v, listed, at, TRUE, TRUE)
    BY <1>3
  <2>4. pin \in listed /\ OfSelector(pin, v) /\ Candidate(pin, at).status = "verified"
    <3> HIDE DEF pin, listed, at, v
    <3>1. Pinned(pin, v, listed, at)
      BY <2>1, <2>2, <2>3, BundleTells
    <3> QED BY <1>1, <3>1 DEF Pinned
  <2>5. pin \in StagingTags
    BY <2>1, <2>4
  <2> HIDE DEF pin, listed
  <2>6. at["server"][pin] \in ImageAnswer /\ at["agent"][pin] \in ImageAnswer
    BY <2>2, <2>5 DEF Roles
  <2>7. /\ at["server"][pin].status = "found" /\ at["agent"][pin].status = "found"
        /\ PairFits(pin, at["server"][pin], at["agent"][pin])
    <3> HIDE DEF at
    <3> QED BY <2>4, <2>6, CandidateTells DEF Candidate, Verdicts
  <2>8. at["server"][pin] = registry["staging"]["server"][pin] /\ at["agent"][pin] = registry["staging"]["agent"][pin]
    BY <2>5, <2>7, FoundTells, RegistryAssumption DEF Found, Roles
  <2>9. Paired(StagingPair(pin))
    <3> HIDE DEF at
    <3> QED BY <2>5, <2>7, <2>8, RegistryAssumption DEF Paired, StagingPair, Found, PairFits
  <2> QED BY <1>1, <1>3, <2>4, <2>9 DEF StagingPair
<1> QED BY <1>2, <1>3
(* What the configuration asks for, one request for each HA.               *)
LEMMA AskedTells ==
  ASSUME ask \in Asks, NEW i \in 1..Len(Asked)
  PROVE  /\ Asked[i] \in Request /\ Asked[i].version \in StagingTags /\ Asked[i].version \in VersionRecord
         /\ Asked[i].custom => Asked[i].registry \in DOMAIN Registry
         /\ Acceptable => Overrides(ask)[i] \in AgentImage
         /\ Len(Asked) \in Nat
<1>1. /\ ask.list \in Seq(Request) /\ ask.single \in Seq(Request) /\ Len(ask.single) <= 1 /\ ask.total \in Nat
      /\ \A x \in Range(ask.list) \union Range(ask.single) : x.custom => x.registry # None
      /\ ask.agents \in Seq(AgentImage)
  BY AskAssumption
<1>2. \/ Asked = ask.list /\ Len(ask.list) = ask.total
      \/ Asked = ask.single /\ ask.total = 1
      \/ Asked = <<>>
  BY DEF Asked, PerHA
<1>3. Len(<<>>) = 0
  OBVIOUS
<1>4. /\ Asked \in {ask.list, ask.single} /\ Asked \in Seq(Request) /\ i \in DOMAIN Asked
      /\ Len(Asked) \in Nat /\ i \in Nat /\ i <= ask.total /\ Len(ask.single) \in Nat
  BY <1>1, <1>2, <1>3, LenProperties
<1>5. Asked[i] \in Request /\ Asked[i] \in Range(ask.list) \union Range(ask.single)
  BY <1>4, LenProperties DEF Range
<1>6. ASSUME Acceptable PROVE Overrides(ask)[i] \in AgentImage
  <2>1. i \in 1..ask.total
    BY <1>4
  <2>2. CASE ask.agents = <<>>
    BY <2>1, <2>2 DEF Overrides, AgentImage
  <2>3. CASE ask.agents # <<>>
    <3>1. Overrides(ask) = ask.agents /\ Len(ask.agents) = ask.total
      BY <1>6, <2>3 DEF Overrides, Acceptable
    <3>2. i \in DOMAIN ask.agents
      BY <1>1, <2>1, <3>1, LenProperties
    <3> QED BY <1>1, <3>1, <3>2, LenProperties
  <2> QED BY <2>2, <2>3
<1> QED BY <1>1, <1>4, <1>5, <1>6, RegistryAssumption DEF Request

(* The version that a chart is looked for with is of the requested line.   *)
LEMMA WantTells ==
  ASSUME NEW a \in Request, Classified(a), NEW pair,
         pair.version = NoVer \/ (pair.version \in VersionRecord /\ pair.version.line = a.version.line),
         NEW want, want = IF a.custom THEN Hint(a.version) ELSE Or(pair.version, a.version)
  PROVE  want \in VersionRecord /\ want.line = Line(a)
<1>1. a.version \in VersionRecord /\ a.custom \in BOOLEAN
  BY RegistryAssumption DEF Request
<1>2. Hint(a.version) \in VersionRecord
  <2>1. a.version.line \in Nat
    BY <1>1 DEF VersionRecord
  <2>2. Ver("lineHead", a.version.line, 0, 0) \in VersionRecord /\ Ver("head", 0, 0, 0) \in VersionRecord
    BY <2>1 DEF Ver, VersionRecord, VersionKinds
  <2> QED BY <1>1, <2>2 DEF Hint
<1>3. CASE a.custom
  BY <1>2, <1>3 DEF Line
<1>4. CASE ~a.custom
  <2>1. a.version.kind \in KnownKinds
    BY <1>4 DEF Classified
  <2>2. Hint(a.version) = a.version
    BY <2>1 DEF Hint, KnownKinds, HeadKinds
  <2> QED BY <1>1, <1>4, <2>2 DEF Line, Or
<1> QED BY <1>3, <1>4

(* Images name registries and tags that there are.                         *)
ImagesTyped(im) ==
  /\ im = Images(im.server, im.tag, im.agent)
  /\ im.server \in {None} \union DOMAIN Registry /\ im.tag \in {NoVer} \union StagingTags /\ im.agent \in AgentImage
PairImages(pair) == Images(pair.registry, pair.version, Agent(pair.registry, pair.version))
OnePair(im) == im.server # None /\ im.agent = Agent(im.server, im.tag)
ImagesThere(im, repo) ==
  /\ im.agent # NoAgent => Found(registry, im.agent.registry, "agent", im.agent.tag)
  /\ im.server # None /\ im.tag # NoVer => Found(registry, im.server, "server", im.tag)
  /\ im.server = None /\ im.tag # NoVer /\ repo # "prime" => Found(registry, "docker", "server", im.tag)

LEMMA ImagesOf ==
  ASSUME NEW server \in {None} \union DOMAIN Registry, NEW tag \in {NoVer} \union StagingTags, NEW agent \in AgentImage
  PROVE  ImagesTyped(Images(server, tag, agent))
BY DEF ImagesTyped, Images

LEMMA AgentOf ==
  ASSUME NEW place \in DOMAIN Registry, NEW tag \in StagingTags
  PROVE  Agent(place, tag) \in AgentImage /\ NoAgent \in AgentImage
BY DEF Agent, AgentImage

LEMMA AskTells ==
  {"staging", "docker", "prime"} \subseteq DOMAIN Registry /\ None \notin DOMAIN Registry
BY AskAssumption

LEMMA CommitHeadTells ==
  ASSUME NEW read, NEW v \in StagingTags, NEW im, im = CommitHeadImages(read, v)
  PROVE  ImagesTyped(im) /\ (im # NoImages => OnePair(im))
<1> DEFINE registries == <<"staging">> \o (IF v.kind = "primeCommit" THEN <<>> ELSE <<"docker", "prime">>)
           both == {i \in DOMAIN registries : \A role \in {"server", "agent"} : Found(read, registries[i], role, v)}
           first == Min(both)
           r == registries[first]
<1>1. im = IF both = {} THEN NoImages ELSE Images(r, v, Agent(r, v))
  BY DEF CommitHeadImages
<1>2. ImagesTyped(NoImages)
  BY ImagesOf DEF NoImages, AgentImage
<1>3. ASSUME both # {} PROVE r \in DOMAIN Registry /\ r # None
  <2>1. registries \in Seq(DOMAIN Registry)
    <3>1. /\ <<"staging">> \in Seq(DOMAIN Registry) /\ <<"docker", "prime">> \in Seq(DOMAIN Registry)
          /\ <<>> \in Seq(DOMAIN Registry)
      BY AskTells
    <3> QED BY <3>1, ConcatProperties
  <2> HIDE DEF registries
  <2>2. both \in SUBSET Nat /\ both \subseteq DOMAIN registries
    BY <2>1, LenProperties
  <2>3. first \in DOMAIN registries
    <3> HIDE DEF both
    <3>1. first \in both
      BY <1>3, <2>2, LeastExists DEF Min
    <3> QED BY <2>2, <3>1
  <2> HIDE DEF first
  <2> QED BY <2>1, <2>3, LenProperties, AskTells
<1> HIDE DEF both, r
<1>4. CASE both # {}
  <2>1. im = Images(r, v, Agent(r, v))
    BY <1>1, <1>4
  <2> QED BY <1>3, <1>4, <2>1, ImagesOf, AgentOf DEF OnePair, Images
<1> QED BY <1>1, <1>2, <1>4
LEMMA ChosenTyped ==
  ASSUME NEW read, NEW a \in Request, a.custom => a.registry \in DOMAIN Registry, NEW override \in AgentImage,
         NEW build, NEW distro, NEW im, im = ChosenImages(read, a, override, build, distro)
  PROVE  ImagesTyped(im)
<1> DEFINE v == a.version
           default == IF a.custom THEN Images(a.registry, v, Agent(a.registry, v)) ELSE ImageSettings(v, build, distro)
<1>1. v \in StagingTags
  BY DEF Request
<1>2. ImagesTyped(default)
  <2>1. "prime" \in DOMAIN Registry /\ "staging" \in DOMAIN Registry
    BY AskTells
  <2>2. CASE a.custom
    BY <1>1, <2>2, ImagesOf, AgentOf
  <2>3. CASE ~a.custom
    <3>1. /\ ImagesTyped(Images("prime", NoVer, NoAgent)) /\ ImagesTyped(Images("prime", v, NoAgent))
          /\ ImagesTyped(Images("staging", v, Agent("staging", v))) /\ ImagesTyped(NoImages)
          /\ ImagesTyped(Images(None, v, NoAgent))
      BY <1>1, <2>1, ImagesOf, AgentOf DEF NoImages
    <3> QED BY <2>3, <3>1 DEF ImageSettings
  <2> QED BY <2>2, <2>3
<1> HIDE DEF default
<1>3. ImagesTyped([default EXCEPT !.agent = override])
  <2>1. [default EXCEPT !.agent = override] = Images(default.server, default.tag, override)
    BY <1>2 DEF ImagesTyped, Images
  <2> QED BY <1>2, <2>1, ImagesOf DEF ImagesTyped
<1>4. ImagesTyped(CommitHeadImages(read, v))
  BY <1>1, CommitHeadTells
<1>5. im \in {CommitHeadImages(read, v), [default EXCEPT !.agent = override], default}
  <2>1. im = CASE Own(a, {"commitHead", "primeCommit"}) -> CommitHeadImages(read, v)
               [] ~Own(a, {"commitHead", "primeCommit"}) /\ override # NoAgent -> [default EXCEPT !.agent = override]
               [] OTHER -> default
    BY DEF ChosenImages, default
  <2> QED BY <2>1
<1> QED BY <1>2, <1>3, <1>4, <1>5

LEMMA ForChartTyped ==
  ASSUME NEW read, NEW a, NEW chart, NEW build, NEW im, ImagesTyped(im),
         NEW made, made = ImagesForChart(read, a, chart, build, im)
  PROVE  ImagesTyped(made)
<1>1. made \in {Images(None, im.tag, NoAgent), NoImages, [im EXCEPT !.server = "prime"], im}
  BY DEF ImagesForChart
<1>2. NoVer \in {NoVer} \union StagingTags /\ NoAgent \in AgentImage /\ "prime" \in DOMAIN Registry
  BY AskTells DEF AgentImage
<1>3. [im EXCEPT !.server = "prime"] = Images("prime", im.tag, im.agent)
  BY DEF ImagesTyped, Images
<1>4. ImagesTyped(Images(None, im.tag, NoAgent)) /\ ImagesTyped(NoImages) /\ ImagesTyped(Images("prime", im.tag, im.agent))
  BY <1>2, ImagesOf DEF ImagesTyped, NoImages
<1> QED BY <1>1, <1>3, <1>4

(* Images that a reading found valid are there.                            *)
LEMMA ValidThere ==
  ASSUME RegistryType, NEW read \in Readings, NEW im, ImagesTyped(im), ValidImages(read, im), NEW repo
  PROVE  ImagesThere(im, repo)
<1>1. /\ im.server \in {None} \union DOMAIN Registry /\ im.tag \in {NoVer} \union StagingTags /\ im.agent \in AgentImage
  BY DEF ImagesTyped
<1>2. ASSUME im.agent # NoAgent PROVE Found(registry, im.agent.registry, "agent", im.agent.tag)
  <2>1. im.agent.registry \in DOMAIN Registry /\ im.agent.tag \in StagingTags
    BY <1>1, <1>2 DEF AgentImage
  <2>2. Found(read, im.agent.registry, "agent", im.agent.tag)
    BY <1>2 DEF ValidImages
  <2> QED BY <2>1, <2>2, FoundTells DEF Roles
<1>3. ASSUME im.tag # NoVer
      PROVE  Found(registry, IF im.server = None THEN "docker" ELSE im.server, "server", im.tag)
  <2> DEFINE place == IF im.server = None THEN "docker" ELSE im.server
  <2>1. place \in DOMAIN Registry /\ im.tag \in StagingTags
    BY <1>1, <1>3, AskTells
  <2>2. Found(read, place, "server", im.tag)
    BY <1>3 DEF ValidImages
  <2> HIDE DEF place
  <2>3. Found(registry, place, "server", im.tag)
    BY <2>1, <2>2, FoundTells DEF Roles
  <2> QED BY <2>3 DEF place
<1> QED BY <1>2, <1>3 DEF ImagesThere

LEMMA PairThere ==
  ASSUME NEW pair, Paired(pair), NEW repo
  PROVE  /\ ImagesThere(PairImages(pair), repo) /\ OnePair(PairImages(pair))
         /\ PairImages(pair).server = pair.registry /\ PairImages(pair).tag = pair.version
         /\ pair # NoPair
<1>1. /\ PairImages(pair).server = pair.registry /\ PairImages(pair).tag = pair.version
      /\ PairImages(pair).agent = Agent(pair.registry, pair.version)
      /\ PairImages(pair).agent.registry = pair.registry /\ PairImages(pair).agent.tag = pair.version
  BY DEF PairImages, Images, Agent
<1>2. pair.registry # None
  BY AskTells DEF Paired
<1>3. NoPair.registry = None
  BY DEF NoPair
<1> QED BY <1>1, <1>2, <1>3 DEF ImagesThere, OnePair, Paired

(* A custom image, and the agent beside it, were seen both.                *)
LEMMA CustomThere ==
  ASSUME RegistryType, NEW read \in Readings, NEW a \in Request, a.custom, a.registry \in DOMAIN Registry,
         NEW override \in AgentImage, NEW chart, NEW distro,
         NEW im, im = ImagesForChart(read, a, chart, "head", ChosenImages(read, a, override, "head", distro)),
         ExplicitPair(a.version, read[im.server]["server"][im.tag], read[im.agent.registry]["agent"][im.agent.tag]),
         NEW repo
  PROVE  ImagesThere(im, repo)
<1> DEFINE v == a.version
           default == Images(a.registry, v, Agent(a.registry, v))
<1>1. ~Own(a, {"commitHead", "primeCommit"})
  BY DEF Own
<1>2. ChosenImages(read, a, override, "head", distro)
        = IF override # NoAgent THEN [default EXCEPT !.agent = override] ELSE default
  BY <1>1 DEF ChosenImages
<1>3. im = IF override # NoAgent THEN [default EXCEPT !.agent = override] ELSE default
  <2> DEFINE chosen == ChosenImages(read, a, override, "head", distro)
  <2>1. im = chosen
    <3> HIDE DEF chosen
    <3>1. im = ImagesForChart(read, a, chart, "head", chosen)
      BY DEF chosen
    <3> QED BY <3>1 DEF ImagesForChart, TagOnly
  <2> QED BY <1>2, <2>1
<1>4. v \in StagingTags
  BY DEF Request
<1>5. /\ im.server = a.registry /\ im.tag = v
      /\ im.agent = (IF override # NoAgent THEN override ELSE Agent(a.registry, v))
  BY <1>3 DEF Images
<1>6. im.agent \in AgentImage /\ im.agent # NoAgent
  <2>1. Agent(a.registry, v) # NoAgent
    BY AskTells DEF Agent, NoAgent
  <2> QED BY <1>4, <1>5, <2>1, AgentOf
<1>7. im.agent.registry \in DOMAIN Registry /\ im.agent.tag \in StagingTags
  BY <1>6 DEF AgentImage
<1>8. Found(read, im.server, "server", im.tag) /\ Found(read, im.agent.registry, "agent", im.agent.tag)
  BY DEF ExplicitPair, Found
<1>9. Found(registry, im.server, "server", im.tag) /\ Found(registry, im.agent.registry, "agent", im.agent.tag)
  BY <1>4, <1>5, <1>7, <1>8, FoundTells DEF Roles
<1> QED BY <1>5, <1>9, AskTells DEF ImagesThere

(* The head of one commit is taken from one registry, where its chart does *)
(* not carry it.                                                           *)
LEMMA CommitHeadPaired ==
  ASSUME NEW read, NEW a \in Request, Own(a, {"commitHead"}), CommitHeadImages(read, a.version) # NoImages,
         NEW override, NEW chart, NEW distro,
         NEW im, im = ImagesForChart(read, a, chart, "head", ChosenImages(read, a, override, "head", distro))
  PROVE  chart.version = a.version \/ OnePair(im)
<1> DEFINE chosen == CommitHeadImages(read, a.version)
<1>1. a.version \in StagingTags /\ ~a.custom /\ a.version.kind = "commitHead"
  BY DEF Request, Own
<1>2. OnePair(chosen)
  BY <1>1, CommitHeadTells
<1>3. ChosenImages(read, a, override, "head", distro) = chosen
  BY <1>1 DEF ChosenImages, Own
<1> HIDE DEF chosen
<1>4. ~TagOnly(a, "head", chart.repo)
  BY <1>1 DEF TagOnly
<1>5. chart.version = a.version \/ im = chosen
  BY <1>1, <1>3, <1>4 DEF ImagesForChart
<1> QED BY <1>2, <1>5
-----------------------------------------------------------------------------
(* The plans of one resolution.                                            *)

(* What was checked before the charts: the pair of an HA is its version's, *)
(* from a registry that was to be asked.                                   *)
EarlyFits(i, pair) ==
  LET a == Asked[i]
  IN /\ CheckedFirst(i, a)
     /\ EarlyRegistries(a) # <<>> => pair # NoPair
     /\ pair # NoPair => Paired(pair) /\ pair.version = a.version /\ pair.registry \in Range(EarlyRegistries(a))
EarlyHolds == \A i \in DOMAIN early : EarlyFits(i, early[i])

(* What the two properties say of one plan.                                *)
PlanFits(i, p) ==
  /\ ChartFits(p.chart, p.want, Sources(EffectiveDistro(ask.distro, Asked[i]), BuildType(Asked[i])))
  /\ ~ask.hosted =>
       \E w \in ask.matrix.listed \union {p.chart.baseline} :
         w.line <= p.chart.baseline.line /\ p.rke2 \in {ask.matrix.range[w], ask.matrix.remembered[w]}
HeadIsPaired(a, im) ==
  /\ OnePair(im) /\ im.server = "staging"
  /\ im.tag.kind = "primeCommit" /\ SamePatch(im.tag, a.version)
  /\ LabelsPair(im.tag, registry["staging"]["server"][im.tag], registry["staging"]["agent"][im.tag])
ImagesFit(i, p) ==
  LET a == Asked[i]
      im == p.images
  IN /\ ImagesTyped(im) /\ ImagesThere(im, p.chart.repo)
     /\ Own(a, {"patchHead", "primeCommit"}) => HeadIsPaired(a, im)
     /\ Own(a, {"commitHead"}) => p.chart.version = a.version \/ OnePair(im)
     /\ ask.preferred # <<>> /\ ~a.custom /\ a.version.kind \notin {"patchHead"} =>
          OnePair(im) /\ im.tag = a.version /\ im.server \in Range(ask.preferred)
     /\ im.agent # NoAgent /\ p.chart.repo = "prime" => p.helm.flags.clear \/ im.agent.registry = "prime"
Pins(i, p) ==
  Own(Asked[i], {"patchHead"}) =>
    \E pin \in pins : pin.want = Asked[i].version /\ p.images = PairImages(StagingPair(pin.got))

PlannerInv ==
  /\ RegistryType /\ ask \in Asks
  /\ session = [loaded |-> session.loaded, failed |-> session.failed] /\ session.failed \subseteq ask.down
  /\ early \in Seq(Range(early)) /\ plans \in Seq(Range(plans))
  /\ EarlyHolds /\ PinsHold
  /\ \A i \in DOMAIN plans : PlanFits(i, plans[i]) /\ ImagesFit(i, plans[i]) /\ Pins(i, plans[i])

Grown(s, e, t) ==
  /\ t \in Seq(Range(t)) /\ DOMAIN t = DOMAIN s \union {Len(s) + 1} /\ Len(s) + 1 \notin DOMAIN s
  /\ t[Len(s) + 1] = e /\ \A i \in DOMAIN s : t[i] = s[i]
LEMMA AppendTells ==
  ASSUME NEW s, s \in Seq(Range(s)), NEW e, NEW t, t = Append(s, e)
  PROVE  Grown(s, e, t)
<1> DEFINE S == Range(s) \union {e}
<1>1. s \in Seq(S) /\ e \in S
  <2>1. Len(s) \in Nat /\ s \in [1..Len(s) -> Range(s)] /\ DOMAIN s = 1..Len(s)
    BY LenProperties
  <2> QED BY <2>1, LenProperties
<1> HIDE DEF S
<1>2. /\ t \in Seq(S) /\ Len(t) = Len(s) + 1 /\ Len(s) \in Nat /\ DOMAIN s = 1..Len(s) /\ DOMAIN t = 1..Len(t)
      /\ t[Len(s) + 1] = e /\ \A i \in 1..Len(s) : t[i] = s[i]
  BY <1>1, AppendProperties, LenProperties
<1>3. t \in Seq(Range(t))
  <2>1. \A i \in 1..Len(t) : t[i] \in Range(t)
    BY <1>2 DEF Range
  <2>2. t \in [1..Len(t) -> Range(t)]
    BY <1>2, <2>1, LenProperties
  <2>3. Len(t) \in Nat
    BY <1>2
  <2> DEFINE R == Range(t)
             n == Len(t)
  <2>4. Seq(R) = UNION {[1..k -> R] : k \in Nat}
    BY SeqDef
  <2>5. t \in [1..n -> R] /\ n \in Nat
    BY <2>2, <2>3
  <2> HIDE DEF R, n
  <2>6. t \in UNION {[1..k -> R] : k \in Nat}
    BY <2>5
  <2>7. t \in Seq(R)
    BY <2>4, <2>6, Zenon
  <2> QED BY <2>7 DEF R
<1> QED BY <1>2, <1>3 DEF Grown

(* A plan and its parts.                                                   *)
LEMMA PlanParts ==
  ASSUME NEW i, NEW read, NEW plan, plan = PlanFor(i, read), NEW p, p = WithHelm(plan)
  PROVE  LET a == Asked[i]
             pair == PairFor(i, read)
             build == BuildType(a)
             distro == EffectiveDistro(ask.distro, a)
             want == IF a.custom THEN Hint(a.version) ELSE Or(pair.version, a.version)
         IN /\ plan.pair = pair /\ p.pair = pair /\ p.want = want /\ plan.chart = p.chart /\ plan.images = p.images
            /\ p.chart = Chart(IF want.kind = "head" THEN session ELSE Loaded(session), ask,
                               Sources(distro, build), want, build, Line(a))
            /\ p.images = IF pair # NoPair THEN PairImages(pair)
                          ELSE ImagesForChart(read, a, p.chart, build,
                                 ChosenImages(read, a, Overrides(ask)[i], build, ResolvedDistro(distro, build)))
            /\ p.rke2 = IF ask.hosted THEN 0 ELSE HighestRKE2(ask.matrix, p.chart.baseline)
            /\ p.helm.flags.clear <=> /\ p.chart.repo = "prime" /\ p.images.agent # NoAgent
                                      /\ p.images.agent.registry # "prime"
<1> DEFINE a == Asked[i]
           pair == PairFor(i, read)
           build == BuildType(a)
           distro == EffectiveDistro(ask.distro, a)
           want == IF a.custom THEN Hint(a.version) ELSE Or(pair.version, a.version)
           chart == Chart(IF want.kind = "head" THEN session ELSE Loaded(session), ask,
                          Sources(distro, build), want, build, Line(a))
           images == IF pair # NoPair THEN PairImages(pair)
                     ELSE ImagesForChart(read, a, chart, build,
                            ChosenImages(read, a, Overrides(ask)[i], build, ResolvedDistro(distro, build)))
           rke2 == IF ask.hosted THEN 0 ELSE HighestRKE2(ask.matrix, chart.baseline)
<1>1. plan = [chart |-> chart, want |-> want, pair |-> pair, helm |-> None, images |-> images, rke2 |-> rke2]
  BY DEF PlanFor, PlanForPair, PlanForChart, PairImages
<1> HIDE DEF pair, want, chart, images, rke2
<1> DEFINE helm == HelmOperation("install", chart.repo, chart.version, images, HasImageFields(ask, chart), ask.servers)
<1>2. p = [chart |-> chart, want |-> want, pair |-> pair, helm |-> helm, images |-> images, rke2 |-> rke2]
  BY <1>1 DEF WithHelm
<1>3. helm.flags.clear <=> chart.repo = "prime" /\ images.agent # NoAgent /\ images.agent.registry # "prime"
  BY DEF HelmOperation, HelmFlags
<1> HIDE DEF helm
<1>4. /\ plan.pair = pair /\ plan.chart = chart /\ plan.images = images
      /\ p.pair = pair /\ p.want = want /\ p.chart = chart /\ p.images = images /\ p.rke2 = rke2 /\ p.helm = helm
  BY <1>1, <1>2
<1> QED BY <1>3, <1>4 DEF pair, want, chart, images, rke2
(* The pair that a plan takes.                                             *)
LEMMA PairForTells ==
  ASSUME PlannerInv, NEW i \in DOMAIN early, i \in 1..Len(Asked), NEW read \in Readings,
         NEW pair, pair = PairFor(i, read), NEW a, a = Asked[i]
  PROVE  /\ pair # NoPair => Paired(pair)
         /\ pair.version = NoVer \/ (pair.version \in VersionRecord /\ pair.version.line = a.version.line)
         /\ Own(a, {"patchHead"}) /\ pair # NoPair =>
              /\ pair = StagingPair(pair.version) /\ OfSelector(pair.version, a.version)
              /\ \A p \in pins : p.want = a.version => p.got = pair.version
         /\ ~Own(a, {"patchHead"}) =>
              /\ pair # NoPair => pair.version = a.version /\ pair.registry \in Range(EarlyRegistries(a))
              /\ EarlyRegistries(a) # <<>> => pair # NoPair
<1>1. RegistryType /\ ask \in Asks /\ PinsHold /\ EarlyHolds
  BY DEF PlannerInv
<1>2. a.version \in StagingTags /\ a.version \in VersionRecord
  BY <1>1, AskedTells
<1>3. NoPair.version = NoVer
  BY DEF NoPair
<1>4. CASE Own(a, {"patchHead"})
  <2>1. CASE pair = NoPair
    BY <1>3, <1>4, <2>1
  <2>2. CASE pair # NoPair
    <3>1. /\ pair = StagingPair(pair.version) /\ Paired(pair) /\ OfSelector(pair.version, a.version)
          /\ \A p \in pins : p.want = a.version => p.got = pair.version
      BY <1>1, <1>4, <2>2, PinTells
    <3>2. pair.version \in VersionRecord /\ pair.version.line = a.version.line
      BY <3>1, RegistryAssumption DEF Paired, OfSelector, SamePatch
    <3> QED BY <1>4, <3>1, <3>2
  <2> QED BY <2>1, <2>2
<1>5. CASE ~Own(a, {"patchHead"})
  <2>1. pair = early[i]
    BY <1>5 DEF PairFor
  <2>2. /\ EarlyRegistries(a) # <<>> => pair # NoPair
        /\ pair # NoPair => Paired(pair) /\ pair.version = a.version /\ pair.registry \in Range(EarlyRegistries(a))
    BY <1>1, <2>1 DEF EarlyHolds, EarlyFits
  <2> QED BY <1>2, <1>3, <1>5, <2>2
<1> QED BY <1>4, <1>5

(* A plan that is made fits its request.                                   *)
LEMMA PlanIsFit ==
  ASSUME PlannerInv, NEW i \in DOMAIN early, i \in 1..Len(Asked), NEW read \in Readings,
         NEW plan, plan = PlanFor(i, read), SoundPlan(i, read, plan), NEW p, p = WithHelm(plan)
  PROVE  PlanFits(i, p)
<1> DEFINE a == Asked[i]
           pair == PairFor(i, read)
           build == BuildType(a)
           distro == EffectiveDistro(ask.distro, a)
           want == IF a.custom THEN Hint(a.version) ELSE Or(pair.version, a.version)
           s == IF want.kind = "head" THEN session ELSE Loaded(session)
           c == p.chart
<1>1. ask \in Asks /\ session = [loaded |-> session.loaded, failed |-> session.failed]
      /\ session.failed \subseteq ask.down /\ CheckedFirst(i, a)
  BY DEF PlannerInv, EarlyHolds, EarlyFits
<1>2. a \in Request
  BY <1>1, AskedTells
<1>3. pair.version = NoVer \/ (pair.version \in VersionRecord /\ pair.version.line = a.version.line)
  BY PairForTells
<1>4. p.want = want /\ plan.chart = c /\ c = Chart(s, ask, Sources(distro, build), want, build, Line(a))
      /\ p.rke2 = IF ask.hosted THEN 0 ELSE HighestRKE2(ask.matrix, c.baseline)
  BY PlanParts
<1>5. c # NoChart
  BY <1>4 DEF SoundPlan
<1>6. Classified(a)
  BY <1>1 DEF CheckedFirst
<1>7. s.failed \subseteq ask.down
  <2>1. Loaded(session).failed = session.failed
    BY <1>1 DEF Loaded
  <2> QED BY <1>1, <2>1
<1> HIDE DEF a, pair, s, c
<1>8. want \in VersionRecord /\ want.line = Line(a)
  BY <1>2, <1>3, <1>6, WantTells
<1> HIDE DEF want, build, distro
<1>9. ChartFits(c, want, Sources(distro, build))
  <2>1. c = Chart(s, ask, Sources(distro, build), want, build, want.line)
    BY <1>4, <1>8
  <2> QED BY <1>1, <1>5, <1>7, <1>8, <2>1, ChartTells
<1>10. c.baseline \in VersionRecord
  BY <1>9 DEF ChartFits
<1>11. ~ask.hosted =>
         \E w \in ask.matrix.listed \union {c.baseline} :
           w.line <= c.baseline.line /\ p.rke2 \in {ask.matrix.range[w], ask.matrix.remembered[w]}
  <2> SUFFICES ASSUME ~ask.hosted
               PROVE  \E w \in ask.matrix.listed \union {c.baseline} :
                        w.line <= c.baseline.line /\ p.rke2 \in {ask.matrix.range[w], ask.matrix.remembered[w]}
    OBVIOUS
  <2>1. p.rke2 = HighestRKE2(ask.matrix, c.baseline)
    BY <1>4
  <2> QED BY <1>1, <1>10, <2>1, MatrixTells
<1> QED BY <1>4, <1>9, <1>11 DEF PlanFits, a, c, build, distro

(* The images of a plan that is made were seen.                            *)
LEMMA HeadIsStaged ==
  ASSUME NEW pair, Paired(pair), pair.registry = "staging", pair.version.kind = "primeCommit",
         NEW a, SamePatch(pair.version, a.version)
  PROVE  HeadIsPaired(a, PairImages(pair))
<1>1. /\ OnePair(PairImages(pair)) /\ PairImages(pair).server = "staging" /\ PairImages(pair).tag = pair.version
  BY PairThere
<1>2. LabelsPair(pair.version, registry["staging"]["server"][pair.version], registry["staging"]["agent"][pair.version])
  BY DEF Paired, ExactPair, CommitHead
<1> QED BY <1>1, <1>2 DEF HeadIsPaired

LEMMA PlanImagesFit ==
  ASSUME PlannerInv, Acceptable, NEW i \in DOMAIN early, i \in 1..Len(Asked), NEW read \in Readings,
         NEW plan, plan = PlanFor(i, read), SoundPlan(i, read, plan), NEW p, p = WithHelm(plan)
  PROVE  ImagesFit(i, p)
<1> DEFINE a == Asked[i]
           pair == PairFor(i, read)
           im == p.images
           build == BuildType(a)
           distro == ResolvedDistro(EffectiveDistro(ask.distro, a), build)
           override == Overrides(ask)[i]
<1>1. RegistryType /\ ask \in Asks /\ CheckedFirst(i, a)
  BY DEF PlannerInv, EarlyHolds, EarlyFits
<1>2. a \in Request /\ (a.custom => a.registry \in DOMAIN Registry) /\ override \in AgentImage /\ a.custom \in BOOLEAN
  BY <1>1, AskedTells DEF Request
<1>3. /\ pair # NoPair => Paired(pair)
      /\ Own(a, {"patchHead"}) /\ pair # NoPair =>
           pair = StagingPair(pair.version) /\ OfSelector(pair.version, a.version)
      /\ ~Own(a, {"patchHead"}) =>
           /\ pair # NoPair => pair.version = a.version /\ pair.registry \in Range(EarlyRegistries(a))
           /\ EarlyRegistries(a) # <<>> => pair # NoPair
  BY PairForTells
<1>4. /\ plan.pair = pair /\ plan.chart = p.chart /\ plan.images = im
      /\ im = IF pair # NoPair THEN PairImages(pair)
              ELSE ImagesForChart(read, a, p.chart, build, ChosenImages(read, a, override, build, distro))
      /\ p.helm.flags.clear <=> p.chart.repo = "prime" /\ im.agent # NoAgent /\ im.agent.registry # "prime"
  BY PlanParts
<1>5. /\ Own(a, {"patchHead"}) => pair # NoPair
      /\ Own(a, {"commitHead"}) /\ pair = NoPair => CommitHeadImages(read, a.version) # NoImages
      /\ a.custom => ExplicitPair(a.version, read[im.server]["server"][im.tag],
                                  read[im.agent.registry]["agent"][im.agent.tag])
      /\ ~a.custom /\ pair = NoPair => ValidImages(read, im)
  BY <1>4 DEF SoundPlan
<1>6. /\ a.custom => build = "head"
      /\ Own(a, {"commitHead"}) => build = "head"
  BY DEF BuildType, Own, HeadKinds
<1>c. /\ Own(a, {"primeCommit"}) => EarlyRegistries(a) = <<"staging">>
      /\ ~a.custom /\ a.version.kind \notin {"primeCommit", "patchHead"} => EarlyRegistries(a) = ask.preferred
      /\ Own(a, {"primeCommit"}) /\ ask.preferred # <<>> => "staging" \in Range(ask.preferred)
  BY <1>1 DEF EarlyRegistries, CheckedFirst, Own, Contains, Range
<1> HIDE DEF a, pair, im, build, distro, override
<1>7. ImagesTyped(im) /\ ImagesThere(im, p.chart.repo)
  <2>1. CASE pair # NoPair
    <3>1. ImagesTyped(PairImages(pair))
      BY <1>3, <2>1, ImagesOf, AgentOf DEF Paired, PairImages
    <3> QED BY <1>3, <1>4, <2>1, <3>1, PairThere
  <2>2. CASE pair = NoPair
    <3> DEFINE chosen == ChosenImages(read, a, override, build, distro)
    <3>1. ImagesTyped(chosen)
      BY <1>2, ChosenTyped
    <3>2. ImagesTyped(im)
      <4> HIDE DEF chosen
      <4>1. im = ImagesForChart(read, a, p.chart, build, chosen)
        BY <1>4, <2>2 DEF chosen
      <4> QED BY <3>1, <4>1, ForChartTyped
    <3>3. CASE a.custom
      <4>1. im = ImagesForChart(read, a, p.chart, "head", ChosenImages(read, a, override, "head", distro))
        BY <1>4, <1>6, <2>2, <3>3
      <4> QED BY <1>1, <1>2, <1>5, <3>2, <3>3, <4>1, CustomThere
    <3>4. CASE ~a.custom
      BY <1>1, <1>5, <2>2, <3>2, <3>4, ValidThere
    <3> QED BY <3>3, <3>4
  <2> QED BY <2>1, <2>2
<1>8. ASSUME Own(a, {"patchHead", "primeCommit"}) PROVE HeadIsPaired(a, im)
  <2>1. CASE Own(a, {"patchHead"})
    <3>1. pair.registry = "staging"
      BY <1>3, <1>5, <2>1 DEF StagingPair
    <3> QED BY <1>3, <1>4, <1>5, <2>1, <3>1, HeadIsStaged DEF OfSelector
  <2>2. CASE Own(a, {"primeCommit"})
    <3>1. ~Own(a, {"patchHead"}) /\ a.version.kind = "primeCommit"
      BY <2>2 DEF Own
    <3>2. EarlyRegistries(a) = <<"staging">>
      BY <1>c, <2>2
    <3>3. pair # NoPair /\ pair.version = a.version /\ pair.registry = "staging"
      <4>1. Range(<<"staging">>) = {"staging"} /\ <<"staging">> # <<>>
        BY DEF Range
      <4> QED BY <1>3, <3>1, <3>2, <4>1
    <3> QED BY <1>3, <1>4, <3>1, <3>3, HeadIsStaged DEF SamePatch
  <2> QED BY <1>8, <2>1, <2>2 DEF Own
<1>9. ASSUME Own(a, {"commitHead"}) PROVE p.chart.version = a.version \/ OnePair(im)
  <2>1. CASE pair # NoPair
    BY <1>3, <1>4, <2>1, PairThere
  <2>2. CASE pair = NoPair
    <3>1. im = ImagesForChart(read, a, p.chart, "head", ChosenImages(read, a, override, "head", distro))
      BY <1>4, <1>6, <1>9, <2>2
    <3> QED BY <1>2, <1>5, <1>9, <2>2, <3>1, CommitHeadPaired
  <2> QED BY <2>1, <2>2
<1>10. ASSUME ask.preferred # <<>>, ~a.custom, a.version.kind \notin {"patchHead"}
       PROVE  OnePair(im) /\ im.tag = a.version /\ im.server \in Range(ask.preferred)
  <2>1. ~Own(a, {"patchHead"})
    BY <1>10 DEF Own
  <2>2. CASE a.version.kind = "primeCommit"
    <3>1. Own(a, {"primeCommit"})
      BY <1>10, <2>2 DEF Own
    <3>2. EarlyRegistries(a) = <<"staging">> /\ "staging" \in Range(ask.preferred)
      BY <1>10, <1>c, <3>1
    <3>3. pair # NoPair /\ pair.version = a.version /\ pair.registry = "staging"
      <4>1. Range(<<"staging">>) = {"staging"} /\ <<"staging">> # <<>>
        BY DEF Range
      <4> QED BY <1>3, <2>1, <3>2, <4>1
    <3> QED BY <1>3, <1>4, <3>2, <3>3, PairThere
  <2>3. CASE a.version.kind # "primeCommit"
    <3>1. EarlyRegistries(a) = ask.preferred
      BY <1>10, <1>c, <2>3
    <3> QED BY <1>3, <1>4, <1>10, <2>1, <3>1, PairThere
  <2> QED BY <2>2, <2>3
<1>11. im.agent # NoAgent /\ p.chart.repo = "prime" => p.helm.flags.clear \/ im.agent.registry = "prime"
  BY <1>4
<1> QED BY <1>7, <1>8, <1>9, <1>10, <1>11 DEF ImagesFit, a, im
(* What was found stays, and with it all that was said of it.              *)
FoundStays ==
  \A place \in DOMAIN Registry, kind \in Roles, w \in StagingTags :
    registry[place][kind][w].status = "found" => registry'[place][kind][w] = registry[place][kind][w]

LEMMA PairedStays ==
  ASSUME FoundStays, NEW pair, Paired(pair)
  PROVE  Paired(pair)'
BY DEF FoundStays, Paired, Found, Roles

LEMMA ImageStays ==
  ASSUME FoundStays, NEW im, ImagesTyped(im), NEW repo, ImagesThere(im, repo)
  PROVE  ImagesThere(im, repo)'
<1>1. /\ im.server \in {None} \union DOMAIN Registry /\ im.tag \in {NoVer} \union StagingTags /\ im.agent \in AgentImage
  BY DEF ImagesTyped
<1>2. ASSUME NEW place \in DOMAIN Registry, NEW kind \in Roles, NEW w \in StagingTags, Found(registry, place, kind, w)
      PROVE  Found(registry', place, kind, w)
  BY <1>2 DEF FoundStays, Found
<1>3. im.agent # NoAgent => im.agent.registry \in DOMAIN Registry /\ im.agent.tag \in StagingTags
  BY <1>1 DEF AgentImage
<1>4. im.agent # NoAgent => Found(registry', im.agent.registry, "agent", im.agent.tag)
  BY <1>2, <1>3 DEF ImagesThere, Roles
<1>5. im.server # None /\ im.tag # NoVer => Found(registry', im.server, "server", im.tag)
  BY <1>1, <1>2 DEF ImagesThere, Roles
<1>6. im.server = None /\ im.tag # NoVer /\ repo # "prime" => Found(registry', "docker", "server", im.tag)
  BY <1>1, <1>2, AskTells DEF ImagesThere, Roles
<1> QED BY <1>4, <1>5, <1>6 DEF ImagesThere

LEMMA HeadStays ==
  ASSUME FoundStays, NEW a, NEW im, ImagesTyped(im), NEW repo, ImagesThere(im, repo), HeadIsPaired(a, im)
  PROVE  HeadIsPaired(a, im)'
<1>1. im.server = "staging" /\ im.agent = Agent("staging", im.tag) /\ im.server # None /\ im.tag # NoVer
  BY DEF HeadIsPaired, OnePair, NoVer, Ver, None
<1>2. im.tag \in StagingTags
  BY <1>1 DEF ImagesTyped
<1>3. im.agent # NoAgent /\ im.agent.registry = "staging" /\ im.agent.tag = im.tag
  BY <1>1, AskTells DEF Agent, NoAgent
<1>4. Found(registry, "staging", "server", im.tag) /\ Found(registry, "staging", "agent", im.tag)
  BY <1>1, <1>3 DEF ImagesThere
<1>5. /\ registry'["staging"]["server"][im.tag] = registry["staging"]["server"][im.tag]
      /\ registry'["staging"]["agent"][im.tag] = registry["staging"]["agent"][im.tag]
  BY <1>2, <1>4, AskTells DEF FoundStays, Found, Roles
<1> QED BY <1>5 DEF HeadIsPaired

LEMMA FitStays ==
  ASSUME FoundStays, ask' = ask, NEW i, NEW p, ImagesFit(i, p)
  PROVE  ImagesFit(i, p)'
<1>1. Asked' = Asked
  BY DEF Asked
<1>2. ImagesTyped(p.images) /\ ImagesThere(p.images, p.chart.repo)
  BY DEF ImagesFit
<1>3. ImagesThere(p.images, p.chart.repo)'
  BY <1>2, ImageStays
<1>4. HeadIsPaired(Asked[i], p.images) => HeadIsPaired(Asked[i], p.images)'
  <2> DEFINE a == Asked[i]
  <2> SUFFICES ASSUME HeadIsPaired(a, p.images) PROVE HeadIsPaired(a, p.images)'
    BY <1>1
  <2> QED BY <1>1, <1>2, HeadStays
<1> QED BY <1>1, <1>2, <1>3, <1>4 DEF ImagesFit

LEMMA ChartStays ==
  ASSUME ask' = ask, NEW c, NEW want, NEW repos, ChartFits(c, want, repos)
  PROVE  ChartFits(c, want, repos)'
<1>1. OwnRow(c, want)' <=> OwnRow(c, want)
  BY DEF OwnRow
<1>2. ASSUME NEW r PROVE HasRow(r, want)' <=> HasRow(r, want)
  BY DEF HasRow
<1>3. ASSUME NEW r PROVE HasRelease(r, want.line)' <=> HasRelease(r, want.line)
  BY DEF HasRelease
<1> QED BY <1>1, <1>2, <1>3 DEF ChartFits

LEMMA PlanStays ==
  ASSUME ask' = ask, NEW i, NEW p, PlanFits(i, p)
  PROVE  PlanFits(i, p)'
<1> DEFINE repos == Sources(EffectiveDistro(ask.distro, Asked[i]), BuildType(Asked[i]))
<1>1. repos' = repos
  BY DEF Asked
<1>2. ChartFits(p.chart, p.want, repos)'
  <2>1. ChartFits(p.chart, p.want, repos)
    BY DEF PlanFits
  <2> HIDE DEF repos
  <2> QED BY <1>1, <2>1, ChartStays
<1> QED BY <1>2 DEF PlanFits

LEMMA EarlyStays ==
  ASSUME FoundStays, ask' = ask, NEW i, NEW pair, EarlyFits(i, pair)
  PROVE  EarlyFits(i, pair)'
<1>1. Paired(pair) => Paired(pair)'
  BY PairedStays
<1> QED BY <1>1 DEF EarlyFits, CheckedFirst, EarlyRegistries, Asked

LEMMA PinsStay ==
  ASSUME FoundStays, PinsHold, pins' = pins
  PROVE  PinsHold'
<1>1. \A p \in pins : Paired(StagingPair(p.got))'
  BY PairedStays DEF PinsHold
<1> QED BY <1>1 DEF PinsHold

(* A step that neither checks nor plans.                                   *)
LEMMA OthersStay ==
  ASSUME PlannerInv, FoundStays, RegistryType', UNCHANGED <<ask, session, early, pins, plans>>
  PROVE  PlannerInv'
<1>1. ASSUME NEW i \in DOMAIN early PROVE EarlyFits(i, early[i])'
  BY EarlyStays DEF PlannerInv, EarlyHolds
<1>2. ASSUME NEW i \in DOMAIN plans PROVE PlanFits(i, plans[i])'
  BY PlanStays DEF PlannerInv
<1>3. ASSUME NEW i \in DOMAIN plans PROVE ImagesFit(i, plans[i])'
  BY FitStays DEF PlannerInv
<1>4. ASSUME NEW i \in DOMAIN plans PROVE Pins(i, plans[i])'
  BY DEF PlannerInv, Pins, Asked
<1>5. PinsHold'
  BY PinsStay DEF PlannerInv
<1> QED BY <1>1, <1>2, <1>3, <1>4, <1>5 DEF PlannerInv, EarlyHolds
LEMMA AskedCount ==
  ASSUME ask \in Asks
  PROVE  Len(Asked) \in Nat
<1>1. ask.list \in Seq(Request) /\ ask.single \in Seq(Request)
  BY AskAssumption
<1>2. Asked \in {ask.list, ask.single, <<>>}
  BY DEF Asked, PerHA
<1>3. Len(<<>>) \in Nat
  OBVIOUS
<1> QED BY <1>1, <1>2, <1>3, LenProperties

LEMMA EarlyIsFit ==
  ASSUME RegistryType, ask \in Asks, NEW i \in 1..Len(Asked), NEW read \in Readings,
         CheckedFirst(i, Asked[i]),
         NEW pair, pair = PreferredPair(Asked[i].version, EarlyRegistries(Asked[i]), read),
         EarlyRegistries(Asked[i]) # <<>> => pair # NoPair
  PROVE  EarlyFits(i, pair)
<1> DEFINE a == Asked[i]
           registries == EarlyRegistries(a)
<1>1. a.version \in StagingTags
  BY AskedTells
<1>2. registries \in Seq(DOMAIN Registry)
  <2>1. <<"staging">> \in Seq(DOMAIN Registry) /\ <<>> \in Seq(DOMAIN Registry) /\ ask.preferred \in Seq(DOMAIN Registry)
    BY AskTells, AskAssumption
  <2> QED BY <2>1 DEF EarlyRegistries
<1> HIDE DEF registries
<1>3. ASSUME pair # NoPair PROVE Paired(pair) /\ pair.registry \in Range(registries) /\ pair.version = a.version
  <2>1. pair = PreferredPair(a.version, registries, read)
    BY DEF registries
  <2> HIDE DEF a
  <2> QED BY <1>1, <1>2, <1>3, <2>1, PreferredTells
<1> QED BY <1>3 DEF EarlyFits, registries

LEMMA EarlyGrows ==
  ASSUME PlannerInv, NEW i, i = Len(early) + 1, NEW pair, EarlyFits(i, pair), early' = Append(early, pair),
         UNCHANGED <<ask, registry, session, pins, plans>>
  PROVE  PlannerInv'
<1>1. FoundStays
  BY DEF FoundStays
<1>2. early \in Seq(Range(early))
  BY DEF PlannerInv
<1>3. /\ early' \in Seq(Range(early')) /\ DOMAIN early' = DOMAIN early \union {i}
      /\ early'[i] = pair /\ \A n \in DOMAIN early : early'[n] = early[n]
  <2>1. Grown(early, pair, early')
    BY <1>2, AppendTells
  <2> QED BY <2>1 DEF Grown
<1>4. EarlyHolds'
  <2> SUFFICES ASSUME NEW n \in DOMAIN early' PROVE EarlyFits(n, early[n])'
    BY DEF EarlyHolds
  <2>1. CASE n = i
    <3>1. EarlyFits(i, pair)'
      BY <1>1, EarlyStays
    <3> QED BY <1>3, <2>1, <3>1
  <2>2. CASE n \in DOMAIN early
    <3> DEFINE old == early[n]
    <3>1. EarlyFits(n, old)
      BY <2>2 DEF PlannerInv, EarlyHolds
    <3>2. (early[n])' = old
      BY <1>3, <2>2
    <3> QED BY <1>1, <3>1, <3>2, EarlyStays
  <2> QED BY <1>3, <2>1, <2>2
<1>5. ASSUME NEW n \in DOMAIN plans PROVE (PlanFits(n, plans[n]) /\ ImagesFit(n, plans[n]) /\ Pins(n, plans[n]))'
  <2>1. PlanFits(n, plans[n])'
    BY PlanStays DEF PlannerInv
  <2>2. ImagesFit(n, plans[n])'
    BY <1>1, FitStays DEF PlannerInv
  <2>3. Pins(n, plans[n])'
    BY DEF PlannerInv, Pins, Asked
  <2> QED BY <2>1, <2>2, <2>3
<1>6. PinsHold'
  BY <1>1, PinsStay DEF PlannerInv
<1>7. RegistryType'
  BY DEF PlannerInv, RegistryType
<1> QED BY <1>3, <1>4, <1>5, <1>6, <1>7 DEF PlannerInv

LEMMA CheckKeeps ==
  ASSUME PlannerInv, CheckNext
  PROVE  PlannerInv'
<1> DEFINE i == Len(early) + 1
           a == Asked[i]
<1>1. RegistryType /\ ask \in Asks /\ early \in Seq(Range(early)) /\ i <= Len(Asked)
  BY DEF PlannerInv, CheckNext
<1>2. i \in 1..Len(Asked)
  <2>1. Len(early) \in Nat
    BY <1>1, LenProperties
  <2>2. Len(Asked) \in Nat
    BY <1>1, AskedCount
  <2> QED BY <1>1, <2>1, <2>2
<1>3. CASE Fail
  <2>1. FoundStays /\ RegistryType'
    BY <1>1, <1>3 DEF Fail, FoundStays, RegistryType
  <2> QED BY <1>3, <2>1, OthersStay DEF Fail
<1>4. CASE ~Fail
  <2>1. PICK read \in Readings :
          LET pair == PreferredPair(a.version, EarlyRegistries(a), read)
          IN /\ CheckedFirst(i, a) /\ (EarlyRegistries(a) # <<>> => pair # NoPair)
             /\ early' = Append(early, pair) /\ UNCHANGED <<ask, registry, session, pins, plans, outcome>>
    BY <1>4 DEF CheckNext
  <2> DEFINE pair == PreferredPair(a.version, EarlyRegistries(a), read)
  <2>2. EarlyFits(i, pair)
    BY <1>1, <1>2, <2>1, EarlyIsFit
  <2>3. early' = Append(early, pair) /\ UNCHANGED <<ask, registry, session, pins, plans>>
    BY <2>1
  <2> HIDE DEF pair
  <2> QED BY <2>2, <2>3, EarlyGrows
<1> QED BY <1>3, <1>4
LEMMA PlanGrows ==
  ASSUME PlannerInv, NEW i, i = Len(plans) + 1, NEW p, PlanFits(i, p), ImagesFit(i, p), Pins(i, p)',
         plans' = Append(plans, p), UNCHANGED <<ask, registry, early>>,
         session' = [loaded |-> session'.loaded, failed |-> session'.failed], session'.failed \subseteq ask.down,
         PinsHold', pins \subseteq pins'
  PROVE  PlannerInv'
<1>1. FoundStays
  BY DEF FoundStays
<1>2. plans \in Seq(Range(plans))
  BY DEF PlannerInv
<1>3. /\ plans' \in Seq(Range(plans')) /\ DOMAIN plans' = DOMAIN plans \union {i}
      /\ plans'[i] = p /\ \A n \in DOMAIN plans : plans'[n] = plans[n]
  <2>1. Grown(plans, p, plans')
    BY <1>2, AppendTells
  <2> QED BY <2>1 DEF Grown
<1>4. ASSUME NEW n \in DOMAIN plans' PROVE (PlanFits(n, plans[n]) /\ ImagesFit(n, plans[n]) /\ Pins(n, plans[n]))'
  <2>1. CASE n = i
    <3>1. PlanFits(i, p)' /\ ImagesFit(i, p)'
      BY <1>1, PlanStays, FitStays
    <3>2. (plans[n])' = p
      BY <1>3, <2>1
    <3> QED BY <2>1, <3>1, <3>2
  <2>2. CASE n \in DOMAIN plans
    <3> DEFINE old == plans[n]
    <3>1. PlanFits(n, old) /\ ImagesFit(n, old) /\ Pins(n, old)
      BY <2>2 DEF PlannerInv
    <3>2. (plans[n])' = old
      BY <1>3, <2>2
    <3> HIDE DEF old
    <3>3. PlanFits(n, plans[n])'
      <4>1. PlanFits(n, plans[n])
        BY <3>1 DEF old
      <4> QED BY <3>2, <4>1, PlanStays DEF old
    <3>4. ImagesFit(n, plans[n])'
      <4>1. ImagesFit(n, plans[n])
        BY <3>1 DEF old
      <4> QED BY <1>1, <3>2, <4>1, FitStays DEF old
    <3>5. Pins(n, plans[n])'
      <4>1. Pins(n, plans[n])
        BY <3>1 DEF old
      <4>2. plans'[n] = plans[n]
        BY <1>3, <2>2
      <4> QED BY <4>1, <4>2 DEF Pins, Asked
    <3> QED BY <3>3, <3>4, <3>5
  <2> QED BY <1>3, <2>1, <2>2
<1>5. EarlyHolds'
  <2>1. ASSUME NEW n \in DOMAIN early PROVE EarlyFits(n, early[n])'
    BY <1>1, EarlyStays DEF PlannerInv, EarlyHolds
  <2> QED BY <2>1 DEF EarlyHolds
<1>6. RegistryType'
  BY DEF PlannerInv, RegistryType
<1> QED BY <1>3, <1>4, <1>5, <1>6 DEF PlannerInv

LEMMA PinsGrow ==
  ASSUME PinsHold, FoundStays, NEW v, NEW g, Paired(StagingPair(g)), OfSelector(g, v), \A p \in pins : p.want = v => p.got = g,
         pins' = pins \union {[want |-> v, got |-> g]}
  PROVE  PinsHold'
<1>1. ASSUME NEW p \in pins PROVE Paired(StagingPair(p.got))'
  <2> DEFINE pair == StagingPair(p.got)
  <2> HIDE DEF pair
  <2>1. Paired(pair)
    BY DEF PinsHold, pair
  <2>2. Paired(pair)'
    BY <2>1, PairedStays
  <2> QED BY <2>2 DEF pair
<1>2. Paired(StagingPair(g))'
  <2> DEFINE pair == StagingPair(g)
  <2> HIDE DEF pair
  <2>1. Paired(pair)'
    BY PairedStays DEF pair
  <2> QED BY <2>1 DEF pair
<1> DEFINE new == [want |-> v, got |-> g]
<1>3. new.want = v /\ new.got = g
  OBVIOUS
<1> HIDE DEF new
<1>4. pins' = pins \union {new}
  BY DEF new
<1>5. ASSUME NEW p \in pins'
      PROVE  /\ Paired(StagingPair(p.got))' /\ OfSelector(p.got, p.want)
             /\ \A q \in pins' : q.want = p.want => q.got = p.got
  <2>1. CASE p \in pins
    BY <1>1, <1>3, <1>4, <2>1 DEF PinsHold
  <2>2. CASE p = new
    BY <1>2, <1>3, <1>4, <2>2
  <2> QED BY <1>4, <2>1, <2>2
<1> QED BY <1>5 DEF PinsHold

LEMMA PlanKeeps ==
  ASSUME PlannerInv, PlanNext
  PROVE  PlannerInv'
<1> DEFINE i == Len(plans) + 1
           a == Asked[i]
<1>1. /\ RegistryType /\ ask \in Asks /\ early \in Seq(Range(early)) /\ plans \in Seq(Range(plans))
      /\ session = [loaded |-> session.loaded, failed |-> session.failed] /\ session.failed \subseteq ask.down
      /\ Acceptable /\ Len(early) = Len(Asked) /\ i <= Len(Asked) /\ PinsHold
  BY DEF PlannerInv, PlanNext
<1>2. i \in 1..Len(Asked) /\ i \in DOMAIN early
  <2>1. Len(plans) \in Nat /\ Len(early) \in Nat /\ DOMAIN early = 1..Len(early)
    BY <1>1, LenProperties
  <2> QED BY <1>1, <2>1
<1>3. CASE Fail
  <2>1. FoundStays /\ RegistryType'
    BY <1>1, <1>3 DEF Fail, FoundStays, RegistryType
  <2> QED BY <1>3, <2>1, OthersStay DEF Fail
<1>4. CASE ~Fail
  <2> DEFINE plain == BuildType(a) = "head" /\ Hint(a.version).kind = "head"
             searched == IF plain THEN {"latest"}
                         ELSE Range(Sources(EffectiveDistro(ask.distro, a), BuildType(a))) \union ReleaseRepos
  <2>0. PICK read \in Readings :
          LET plan == PlanFor(i, read)
          IN /\ SoundPlan(i, read, plan)
             /\ plans' = Append(plans, WithHelm(plan))
             /\ pins' = IF Own(a, {"patchHead"})
                        THEN pins \union {[want |-> a.version, got |-> plan.pair.version]} ELSE pins
             /\ session' = Searched(IF plain THEN session ELSE Loaded(session), ask, searched)
             /\ UNCHANGED <<ask, registry, early>>
    BY <1>4 DEF PlanNext
  <2> DEFINE made == PlanFor(i, read)
  <2>1. PICK plan :
          /\ plan = made
          /\ SoundPlan(i, read, plan)
          /\ plans' = Append(plans, WithHelm(plan))
          /\ pins' = IF Own(a, {"patchHead"})
                     THEN pins \union {[want |-> a.version, got |-> plan.pair.version]} ELSE pins
          /\ session' = Searched(IF plain THEN session ELSE Loaded(session), ask, searched)
          /\ UNCHANGED <<ask, registry, early>>
    BY <2>0
  <2> DEFINE p == WithHelm(plan)
             pair == PairFor(i, read)
  <2>2. plan = PlanFor(i, read)
    BY <2>1
  <2>3. PlanFits(i, p) /\ ImagesFit(i, p)
    BY <1>1, <1>2, <2>1, <2>2, PlanIsFit, PlanImagesFit
  <2>4. /\ plan.pair = pair /\ p.pair = pair
        /\ pair # NoPair => p.images = PairImages(pair)
    BY <2>2, PlanParts
  <2>5. Own(a, {"patchHead"}) => pair # NoPair
    BY <2>1, <2>4 DEF SoundPlan
  <2>6. Own(a, {"patchHead"}) =>
          /\ pair = StagingPair(pair.version) /\ Paired(pair) /\ OfSelector(pair.version, a.version)
          /\ \A pin \in pins : pin.want = a.version => pin.got = pair.version
    BY <1>2, <2>5, PairForTells
  <2>7. FoundStays /\ ask' = ask /\ Asked' = Asked
    BY <2>1 DEF FoundStays, Asked
  <2>8. session' = [loaded |-> session'.loaded, failed |-> session'.failed] /\ session'.failed \subseteq ask.down
    <3> DEFINE s == IF plain THEN session ELSE Loaded(session)
    <3>1. s = [loaded |-> s.loaded, failed |-> s.failed] /\ s.failed \subseteq ask.down
      BY <1>1 DEF Loaded
    <3> HIDE DEF s, searched
    <3>2. session' = [s EXCEPT !.failed = s.failed \union {r \in searched : RepoFails(s, ask, r)}]
      BY <2>1 DEF Searched, s
    <3>3. {r \in searched : RepoFails(s, ask, r)} \subseteq ask.down
      BY <3>1 DEF RepoFails
    <3>4. session' = [loaded |-> s.loaded, failed |-> s.failed \union {r \in searched : RepoFails(s, ask, r)}]
      BY <3>1, <3>2
    <3> QED BY <3>1, <3>3, <3>4
  <2> DEFINE v == a.version
             g == pair.version
             rigid == Own(a, {"patchHead"})
  <2>9. pins' = IF rigid THEN pins \union {[want |-> v, got |-> g]} ELSE pins
    BY <2>1, <2>4
  <2>10. rigid => /\ Paired(StagingPair(g)) /\ OfSelector(g, v) /\ \A pin \in pins : pin.want = v => pin.got = g
                  /\ p.images = PairImages(StagingPair(g))
    BY <2>4, <2>5, <2>6
  <2>11. plans' = Append(plans, p) /\ UNCHANGED <<ask, registry, early>>
    BY <2>1
  <2>12. i = Len(plans) + 1 /\ a = Asked[i]
    OBVIOUS
  <2> HIDE DEF p, v, g, rigid, pair
  <2>13. PinsHold'
    <3>1. CASE rigid
      BY <1>1, <2>7, <2>9, <2>10, <3>1, PinsGrow
    <3>2. CASE ~rigid
      BY <1>1, <2>7, <2>9, <3>2, PinsStay
    <3> QED BY <3>1, <3>2
  <2>14. pins \subseteq pins'
    BY <2>9
  <2>15. \E n, q : /\ n = i /\ q = p /\ Pins(n, q)'
    <3>1. ASSUME NEW n, NEW q, n = i, q = p PROVE Pins(n, q)'
      <4>1. Asked[n] = a
        BY <3>1
      <4>2. CASE Own(a, {"patchHead"})
        <5>1. [want |-> v, got |-> g] \in pins' /\ q.images = PairImages(StagingPair(g)) /\ v = Asked[n].version
          BY <2>9, <2>10, <3>1, <4>1, <4>2 DEF rigid, v
        <5>2. [want |-> v, got |-> g].want = v /\ [want |-> v, got |-> g].got = g
          OBVIOUS
        <5> QED BY <2>7, <5>1, <5>2 DEF Pins
      <4>3. CASE ~Own(a, {"patchHead"})
        BY <2>7, <4>1, <4>3 DEF Pins
      <4> QED BY <4>2, <4>3
    <3> QED BY <3>1
  <2>16. PICK n, q : n = i /\ q = p /\ Pins(n, q)'
    BY <2>15
  <2> QED BY <2>3, <2>8, <2>11, <2>12, <2>13, <2>14, <2>16, PlanGrows
<1> QED BY <1>3, <1>4
LEMMA PlannerStarts == PlanInit => PlannerInv
<1> SUFFICES ASSUME PlanInit PROVE PlannerInv
  OBVIOUS
<1>1. RegistryType
  BY RegistryAssumption DEF PlanInit, RegistryType
<1>2. <<>> \in Seq(Range(<<>>)) /\ DOMAIN <<>> = {}
  OBVIOUS
<1> QED BY <1>1, <1>2 DEF PlanInit, PlannerInv, NewSession, EarlyHolds, PinsHold

LEMMA PlannerStep == PlannerInv /\ [PlannerNext]_planVars => PlannerInv'
<1> SUFFICES ASSUME PlannerInv, [PlannerNext]_planVars PROVE PlannerInv'
  OBVIOUS
<1>1. RegistryType
  BY DEF PlannerInv
<1>2. CASE Refuse
  <2>1. FoundStays /\ RegistryType'
    BY <1>1, <1>2 DEF Refuse, Fail, FoundStays, RegistryType
  <2> QED BY <1>2, <2>1, OthersStay DEF Refuse, Fail
<1>3. CASE CheckNext
  BY <1>3, CheckKeeps
<1>4. CASE PlanNext
  BY <1>4, PlanKeeps
<1>5. ASSUME NEW v \in Published, NEW role \in Roles, PublishMeanwhile(v, role)
      PROVE  PlannerInv'
  <2>1. FoundStays /\ RegistryType'
    BY <1>1, <1>5, PublishKeeps DEF PublishMeanwhile, FoundStays
  <2> QED BY <1>5, <2>1, OthersStay DEF PublishMeanwhile
<1>6. CASE UNCHANGED planVars
  <2>1. FoundStays /\ RegistryType'
    BY <1>1, <1>6 DEF planVars, FoundStays, RegistryType
  <2> QED BY <1>6, <2>1, OthersStay DEF planVars
<1> QED BY <1>2, <1>3, <1>4, <1>5, <1>6 DEF PlannerNext

(* Whatever is asked, charted and published: the chart of a plan is the    *)
(* requested version's own, or a release of its line or of the line before *)
(* (resolveChartAndBaseline).                                              *)
THEOREM PlansFit == PlannerSpec => []PlanFitsRequest
<1>1. PlannerInv => PlanFitsRequest
  <2> SUFFICES ASSUME PlannerInv, NEW i \in DOMAIN plans,
                      NEW p, p = plans[i], NEW c, c = p.chart, NEW want, want = p.want,
                      NEW repos, repos = Candidates(i)
               PROVE  /\ c.repo \in repos
                      /\ OwnRow(c, want) \/ c.version.kind = "release"
                      /\ want.kind # "head" =>
                           /\ ~OwnRow(c, want) /\ "all" \notin ask.down => \A r \in repos : ~HasRow(r, want)
                           /\ ~OwnRow(c, want) => c.version.line \in {want.line - 1, want.line}
                           /\ c.baseline = want \/ (c.baseline.kind = "release" /\ c.baseline.line \in {want.line - 1, want.line})
                           /\ ~OwnRow(c, want) /\ ask.down = {} /\ want.line \notin {c.version.line, 0} =>
                                \A r \in repos \union ReleaseRepos : ~HasRelease(r, want.line)
                      /\ ~ask.hosted =>
                           \E w \in ask.matrix.listed \union {c.baseline} :
                             w.line <= c.baseline.line /\ p.rke2 \in {ask.matrix.range[w], ask.matrix.remembered[w]}
    BY DEF PlanFitsRequest, OwnRow, CarriedBy
  <2>1. PlanFits(i, p)
    BY DEF PlannerInv
  <2> QED BY <2>1 DEF PlanFits, ChartFits, NearLine, Candidates
<1> QED BY <1>1, PlannerStarts, PlannerStep, PTL DEF PlannerSpec

(* Whatever the registries answer, fail to answer and gain meanwhile: what *)
(* a plan installs was seen there, as one pair where it has to be one, and *)
(* one selector is one build (resolveCachedPatchHeadStagingBundle).        *)
THEOREM PlannedImagesHold == PlannerSpec => []PlannedImagesExist
<1>1. PlannerInv => PlannedImagesExist
  <2> SUFFICES ASSUME PlannerInv, NEW i \in DOMAIN plans, NEW p, p = plans[i], NEW im, im = p.images, NEW a, a = Asked[i]
               PROVE  /\ ImagesThere(im, p.chart.repo)
                      /\ Own(a, {"patchHead", "primeCommit"}) => HeadIsPaired(a, im)
                      /\ Own(a, {"commitHead"}) => p.chart.version = a.version \/ OnePair(im)
                      /\ ask.preferred # <<>> /\ ~a.custom /\ a.version.kind \notin {"patchHead"} =>
                           OnePair(im) /\ im.tag = a.version /\ im.server \in Range(ask.preferred)
                      /\ im.agent # NoAgent /\ p.chart.repo = "prime" => p.helm.flags.clear \/ im.agent.registry = "prime"
                      /\ \A j \in DOMAIN plans : Own(a, {"patchHead"}) /\ Asked[j] = a => plans[j].images = im
    BY DEF PlannedImagesExist, ImagesThere, HeadIsPaired, OnePair
  <2>1. ImagesFit(i, p)
    BY DEF PlannerInv
  <2>2. ASSUME NEW j \in DOMAIN plans, Own(a, {"patchHead"}), Asked[j] = a
        PROVE  plans[j].images = im
    <3>1. PICK first \in pins : first.want = a.version /\ im = PairImages(StagingPair(first.got))
      BY <2>2 DEF PlannerInv, Pins
    <3>2. PICK second \in pins : second.want = a.version /\ plans[j].images = PairImages(StagingPair(second.got))
      BY <2>2 DEF PlannerInv, Pins
    <3>3. first.got = second.got
      BY <3>1, <3>2 DEF PlannerInv, PinsHold
    <3> QED BY <3>1, <3>2, <3>3
  <2> QED BY <2>1, <2>2 DEF ImagesFit
<1> QED BY <1>1, PlannerStarts, PlannerStep, PTL DEF PlannerSpec
=============================================================================
