---------------------------- MODULE SignoffRules ----------------------------
(***************************************************************************)
(* The decisions of the sign-off tools that need no state: how a target's  *)
(* previous release and webhook image are chosen, which lanes a plan has,  *)
(* what the ledger skips and keeps, and what a signing check reports.      *)
(*                                                                         *)
(* Versions are records [major, minor, patch, pre, patched]: `pre' is the  *)
(* alpha or RC number and `patched' says that the version names a patch.   *)
(* Tags, images and lane names are kept as values.                         *)
(***************************************************************************)
EXTENDS Naturals, FiniteSets, SequencesExt

Nothing == "none"
NoVersion == [major |-> 0, minor |-> 0, patch |-> 0, pre |-> 0, patched |-> FALSE]

(* Registries in the order in which a webhook tag is looked for.           *)
WebhookCandidates(prerelease) ==
  IF prerelease THEN <<"staging", "prime", "public", "docker">>
                ELSE <<"public", "prime", "staging", "docker">>

(* One lookup of a tag: a registry that asks for a token is asked again    *)
(* with the token of its challenge, when there is one to be had.           *)
RegistryAnswer(first, token, second) ==
  LET Of(status) == CASE status = 200 -> "found" [] status = 404 -> "missing" [] OTHER -> "error"
  IN IF first # 401 THEN Of(first) ELSE IF token THEN Of(second) ELSE "error"

(* `answers' gives each registry's answer: "found", "missing" or "error".  *)
(* A lookup that fails is recorded and the next registry is asked.         *)
WebhookImage(prerelease, answers) ==
  LET order == WebhookCandidates(prerelease)
      hits == {i \in DOMAIN order : answers[order[i]] = "found"}
  IN IF hits = {} THEN Nothing ELSE order[Min(hits)]

(* An image named by the user must carry the tag of the target's build.yaml*)
(* and must be in its registry.                                            *)
ChosenWebhook(named, namedTagMatches, prerelease, answers) ==
  CASE named = Nothing -> WebhookImage(prerelease, answers)
    [] named # Nothing /\ namedTagMatches /\ answers[named] = "found" -> named
    [] OTHER -> Nothing

-----------------------------------------------------------------------------
SemverLess(a, b) ==
  \/ a.major < b.major
  \/ a.major = b.major /\ a.minor < b.minor
  \/ a.major = b.major /\ a.minor = b.minor /\ a.patch < b.patch
  \/ a.major = b.major /\ a.minor = b.minor /\ a.patch = b.patch /\ a.pre < b.pre

MinorLine(v) == <<v.major, v.minor>>

(* Releases come in GitHub's order. `at' is the publication time, 0 when it*)
(* is absent.                                                              *)
RecentAlpha(r, cutoff) == r.kind = "alpha" /\ (r.at = 0 \/ r.at >= cutoff)

(* One alpha per release line, the greatest, by its place in the listing.  *)
LatestAlphas(releases, cutoff) ==
  LET recent == {i \in DOMAIN releases : RecentAlpha(releases[i], cutoff)}
      Beats(j, i) ==
        /\ MinorLine(releases[j].version) = MinorLine(releases[i].version)
        /\ \/ SemverLess(releases[i].version, releases[j].version)
           \/ j < i /\ ~SemverLess(releases[j].version, releases[i].version)
  IN [i \in {i \in recent : ~\E j \in recent : Beats(j, i)} |-> releases[i].version]

LatestAlpha(releases) ==
  LET alphas == {i \in DOMAIN releases : releases[i].kind = "alpha"}
  IN IF alphas = {} THEN NoVersion ELSE releases[Min(alphas)].version

(* The release that a target is upgraded from: the patch before it when    *)
(* `exists' knows that tag, or else the greatest listed release of the     *)
(* same major version that is not above the target.                        *)
PreviousRelease(target, releases, exists) ==
  LET before == [target EXCEPT !.patch = IF @ = 0 THEN 0 ELSE @ - 1, !.pre = 0, !.patched = TRUE]
      Below(v) == /\ v.major = target.major
                  /\ v.minor <= target.minor
                  /\ ~(v.minor = target.minor /\ target.patched /\ v.patch >= target.patch)
      candidates == {r.version : r \in {x \in Range(releases) : x.kind = "release" /\ Below(x.version)}}
  IN IF target.patched /\ target.patch > 0 /\ before \in exists THEN before
     ELSE IF candidates = {} THEN NoVersion
     ELSE CHOOSE v \in candidates : \A w \in candidates : ~SemverLess(v, w)

-----------------------------------------------------------------------------
LaneNames == <<"framework-regression", "webhook-fresh-install", "webhook-upgrade",
               "webhook-candidate-on-previous">>

(* A lane installs `install' and, when `upgrade' is set, upgrades to it.   *)
(* The candidate lane is planned only when the webhook changed.  What is   *)
(* done with a plan does not depend on the order of its lanes.             *)
PlanLanes(target, previous, distro, image, webhookChanged) ==
  LET Of(i, install, installDistro, upgrade, downstream, override) ==
        [name |-> LaneNames[i], install |-> install, distro |-> installDistro,
         upgrade |-> upgrade, upgradeDistro |-> IF upgrade = NoVersion THEN Nothing ELSE distro,
         downstream |-> downstream, override |-> override]
  IN {Of(1, target, distro, NoVersion, FALSE, Nothing),
      Of(2, target, distro, NoVersion, TRUE, Nothing),
      Of(3, previous, "auto", target, TRUE, Nothing)}
     \union IF webhookChanged THEN {Of(4, previous, "auto", NoVersion, TRUE, image)} ELSE {}

(* Where a lane's Terraform state is kept.                                 *)
StateKey(line, target, run, lane) == <<line, target, run, lane>>

(* Enabled targets by their place in the list: each version once, at its   *)
(* first entry.                                                            *)
NormalizeTargets(targets) ==
  LET wanted == {i \in DOMAIN targets : targets[i].enabled /\ targets[i].version # NoVersion}
  IN [i \in {i \in wanted : \A j \in wanted : targets[j].version = targets[i].version => i <= j} |-> targets[i]]

SigningPolicy(input) ==
  CASE input \in {"required", "report-only", "skip"} -> input
    [] input = "auto" -> "report-only"
    [] OTHER -> Nothing

-----------------------------------------------------------------------------
(* The ledger maps a target to its lanes' entries [status, policy, at].    *)
CurrentPolicy == "v2"

(* Without the check of the status.                                        *)
CarelessSkips(lanes, target, ledger) ==
  LET Recorded(l) == /\ target \in DOMAIN ledger
                     /\ l.name \in DOMAIN ledger[target]
                     /\ ledger[target][l.name].policy = CurrentPolicy
  IN [remaining |-> {l \in lanes : ~Recorded(l)}, skipped |-> {l \in lanes : Recorded(l)}]

LedgerSkips(lanes, target, ledger) ==
  LET Covered(l) == /\ target \in DOMAIN ledger
                    /\ l.name \in DOMAIN ledger[target]
                    /\ ledger[target][l.name].status = "success"
                    /\ ledger[target][l.name].policy = CurrentPolicy
  IN [remaining |-> {l \in lanes : ~Covered(l)}, skipped |-> {l \in lanes : Covered(l)}]

LatestCompleted(entries) == Max({0} \union {entries[l].at : l \in DOMAIN entries})

(* Names compare as text: for numbers of one width that is their order, and*)
(* a head's name comes before the names of its line's versions.            *)
NameLess(a, b) == SemverLess(a, b) \/ (~SemverLess(b, a) /\ ~a.patched /\ b.patched)

(* Targets by the time of their latest entry, ties by name; the first      *)
(* `maxTargets' stay. Zero keeps all of them.                              *)
PruneTargets(ledger, maxTargets) ==
  LET Before(a, b) == \/ LatestCompleted(ledger[a]) > LatestCompleted(ledger[b])
                      \/ LatestCompleted(ledger[a]) = LatestCompleted(ledger[b]) /\ NameLess(b, a)
      kept == {t \in DOMAIN ledger : Cardinality({u \in DOMAIN ledger : Before(u, t)}) < maxTargets}
  IN IF maxTargets = 0 \/ Cardinality(DOMAIN ledger) <= maxTargets THEN ledger
     ELSE [t \in kept |-> ledger[t]]

(* The ledger with a lane's entry.                                         *)
WithLane(ledger, target, lane, entry) ==
  LET known == IF target \in DOMAIN ledger THEN DOMAIN ledger[target] ELSE {}
      lanes == [l \in {lane} \union known |-> IF l = lane THEN entry ELSE ledger[target][l]]
  IN [t \in {target} \union DOMAIN ledger |-> IF t = target THEN lanes ELSE ledger[t]]

RecordLane(ledger, target, lane, status, at, maxTargets) ==
  PruneTargets(WithLane(ledger, target, lane, [status |-> status, policy |-> CurrentPolicy, at |-> at]), maxTargets)
=============================================================================
