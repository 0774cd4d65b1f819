---------------------------- MODULE SignoffLedger ----------------------------
(***************************************************************************)
(* Planning by hand with the sign-off ledger: a run of the planning tool   *)
(* writes the plans of its targets and leaves out what the ledger records  *)
(* as passed; the ledger tool records the lanes of a plan.  Meanwhile      *)
(* releases are published and webhook images appear.                       *)
(*                                                                         *)
(* A target that is a head stands for what Signoff resolves it to.         *)
(***************************************************************************)
EXTENDS SignoffRules

CONSTANTS
  FirstReleases,  \* GitHub's releases at the start, newest first
  NextReleases,   \* those that are published later, in their order
  PageSize,       \* releases of one answer
  AlphaCutoff,    \* alphas published before this are too old
  TargetList,     \* the entries of signoff-targets.json
  WebhookTags,    \* the webhook tag that each version is built with
  OldBook,        \* what the ledger holds at the start
  MaxTargets,     \* max-targets
  MaxDrafts,      \* bound: runs of the planning tool
  MaxRecords      \* bound: recorded lanes

VARIABLES
  releases,  \* published releases, newest first
  answers,   \* what each registry answers to a webhook lookup
  drafts,    \* the plans of the last run of the planning tool, by the place of their target
  draftRun,  \* that run's id
  book,      \* the ledger
  history,   \* every lane's last record, those of pruned targets included
  now        \* the clock of the records

(* Releases are published with a version of their own, a release without   *)
(* the number of a pre-release; what the ledger held at the start was      *)
(* completed before what is recorded here.                                 *)
VersionType == [major : Nat, minor : Nat, patch : Nat, pre : Nat, patched : BOOLEAN]
ReleaseType == [kind : {"release", "alpha"}, version : VersionType, at : Nat]
ASSUME LedgerAssumption ==
  /\ FirstReleases \in Seq(ReleaseType) /\ NextReleases \in Seq(ReleaseType)
  /\ \A r \in Range(FirstReleases) \union Range(NextReleases) : r.kind = "release" => r.version.pre = 0
  /\ PageSize \in Nat /\ MaxTargets \in Nat
  /\ TargetList \in Seq(Range(TargetList)) /\ \A s \in Range(TargetList) : s.version \in VersionType
  /\ IsFiniteSet(DOMAIN OldBook)
  /\ \A t \in DOMAIN OldBook : IsFiniteSet(DOMAIN OldBook[t]) /\ \A l \in DOMAIN OldBook[t] : OldBook[t][l].at = 0

ledgerVars == <<releases, answers, drafts, draftRun, book, history, now>>

Webhooks == {"staging", "public"}
Absent == [first |-> 401, token |-> TRUE, second |-> 404]
Pushed == [first |-> 401, token |-> TRUE, second |-> 200]
Broken(answer) == [answer EXCEPT !.token = FALSE]
Lookups == [r \in Webhooks \union {"prime", "docker"} |->
  IF r \in Webhooks THEN RegistryAnswer(answers[r].first, answers[r].token, answers[r].second) ELSE "missing"]

Listing == SubSeq(releases, 1, Min({PageSize, Len(releases)}))
TagsOf(listed) == {r.version : r \in Range(listed)}

(* What a target is planned with, when everything it needs is found.       *)
PreviousFor(spec) ==
  IF spec.previous # NoVersion THEN spec.previous
  ELSE PreviousRelease(spec.version, Listing, TagsOf(releases))
ImageFor(spec) ==
  LET tag == WebhookTags[spec.version]
  IN ChosenWebhook(spec.image, spec.tag = tag, tag.pre, Lookups)
CanBePlanned(spec) ==
  /\ PreviousFor(spec) # NoVersion
  /\ ImageFor(spec) # Nothing
  /\ SigningPolicy(spec.policy) # Nothing
Draft(spec, useLedger, run) ==
  LET previous == PreviousFor(spec)
      changed == WebhookTags[spec.version] # WebhookTags[previous]
      lanes == PlanLanes(spec.version, previous, "auto", ImageFor(spec), changed)
      split == IF useLedger THEN LedgerSkips(lanes, spec.version, book)
               ELSE [remaining |-> lanes, skipped |-> {}]
      line == MinorLine(spec.version)
  IN [target |-> spec.version, previous |-> previous, image |-> ImageFor(spec), changed |-> changed,
      policy |-> SigningPolicy(spec.policy), lanes |-> split.remaining, skipped |-> split.skipped,
      keys |-> {StateKey(line, spec.version, run, l.name) : l \in split.remaining}]

Asking(v) == [version |-> v, enabled |-> TRUE, previous |-> NoVersion, image |-> Nothing,
              tag |-> WebhookTags[v], policy |-> "auto"]
Specs(mode) ==
  CASE mode = "targets" -> NormalizeTargets(TargetList)
    [] mode = "line" -> LET alphas == LatestAlphas(Listing, AlphaCutoff) IN [i \in DOMAIN alphas |-> Asking(alphas[i])]
    [] mode = "alpha" /\ LatestAlpha(Listing) # NoVersion -> <<Asking(LatestAlpha(Listing))>>
    [] OTHER -> <<>>

LedgerInit ==
  /\ releases = FirstReleases
  /\ answers = [r \in Webhooks |-> IF r = "public" THEN Pushed ELSE Absent]
  /\ drafts = <<>> /\ draftRun = 0
  /\ book = OldBook /\ history = OldBook
  /\ now = 0

-----------------------------------------------------------------------------
(* One target that cannot be planned ends the tool before it writes a plan.*)
PlanTargets == \E mode \in {"targets", "line", "alpha"}, useLedger \in BOOLEAN :
  LET specs == Specs(mode)
      run == draftRun + 1
  IN /\ run <= MaxDrafts
     /\ mode = "alpha" => specs # <<>>
     /\ \A i \in DOMAIN specs : CanBePlanned(specs[i])
     /\ drafts' = [i \in DOMAIN specs |-> Draft(specs[i], useLedger, run)]
     /\ draftRun' = run
     /\ UNCHANGED <<releases, answers, book, history, now>>

(* A lane of the plan is recorded.                                         *)
Record == \E i \in DOMAIN drafts, status \in {"success", "failure"} : \E l \in drafts[i].lanes :
    /\ now < MaxRecords
    /\ now' = now + 1
    /\ LET target == drafts[i].target
       IN /\ book' = RecordLane(book, target, l.name, status, now', MaxTargets)
          /\ history' = RecordLane(history, target, l.name, status, now', 0)
    /\ UNCHANGED <<releases, answers, drafts, draftRun>>

PublishRelease ==
  LET published == Len(releases) - Len(FirstReleases)
  IN /\ published < Len(NextReleases)
     /\ releases' = <<NextReleases[published + 1]>> \o releases
     /\ UNCHANGED <<answers, drafts, draftRun, book, history, now>>

WebhookAnswers == \E answer \in {Pushed, Broken(Pushed)} :
  /\ answers' = [answers EXCEPT !["staging"] = answer]
  /\ UNCHANGED <<releases, drafts, draftRun, book, history, now>>

LedgerNext == PlanTargets \/ Record \/ PublishRelease \/ WebhookAnswers
LedgerSpec == LedgerInit /\ [][LedgerNext]_ledgerVars

-----------------------------------------------------------------------------
(* A lane's records are of the target as it was asked for.                 *)
Passed(target, lane) ==
  /\ target \in DOMAIN history /\ lane \in DOMAIN history[target]
  /\ history[target][lane].status = "success" /\ history[target][lane].policy = CurrentPolicy

(* The release a target is upgraded from is below it, and no release of its*)
(* major version that GitHub listed lies between the two.                  *)
UpgradesFromTheOneBefore(p) ==
  LET Under(v) == /\ v.major = p.target.major
                  /\ \/ v.minor < p.target.minor
                     \/ v.minor = p.target.minor /\ (~p.target.patched \/ v.patch < p.target.patch)
      named == \E s \in Range(TargetList) : s.version = p.target /\ s.previous = p.previous
  IN named \/ /\ p.previous \in TagsOf(releases) /\ Under(p.previous)
              /\ ~\E r \in Range(Listing) : r.kind = "release" /\ Under(r.version) /\ SemverLess(p.previous, r.version)

DraftIsSound(p) ==
  LET all == p.lanes \union p.skipped
  IN /\ {l.name : l \in all} = Range(LaneNames) \ (IF p.changed THEN {} ELSE {LaneNames[4]})
     /\ \A l \in p.skipped : Passed(p.target, l.name)
     /\ UpgradesFromTheOneBefore(p)
     /\ \E l \in all : l.install = p.previous /\ l.upgrade = p.target
     /\ Lookups[p.image] = "found"

(* A planning run (applyLedgerSkips) loses no lane: what it leaves out has *)
(* last passed for that target, everything else stays in the plan, each    *)
(* lane with a Terraform state of its own, and the upgrade lane goes from  *)
(* the release before the target to the target.  A ledger that was pruned  *)
(* (pruneLedgerTargets) never forgets a target for an older one.           *)
SkippedLanesPassed ==
  [][/\ drafts' # drafts =>
          /\ \A i \in DOMAIN drafts' : DraftIsSound(drafts'[i])
          /\ \A i, j \in DOMAIN drafts' : i # j => drafts'[i].keys \intersect drafts'[j].keys = {}
     /\ \A t \in DOMAIN history', k \in DOMAIN book' :
          LatestCompleted(history'[t]) > LatestCompleted(book'[k]) => t \in DOMAIN book'
    ]_ledgerVars
=============================================================================
