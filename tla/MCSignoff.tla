----------------------------- MODULE MCSignoff -----------------------------
(***************************************************************************)
(* Instances of the sign-off automation and of the planning by hand with   *)
(* its ledger.                                                             *)
(*                                                                         *)
(* Two builds, two lanes; every kind of target, and each flaw of the newest*)
(* build's labels with a kind of target that could be misled by it.        *)
(* For the planning by hand: three release lines with releases and alphas, *)
(* two more published later, a head and a listed target, and a ledger with *)
(* a lane that an older coverage policy passed.                            *)
(***************************************************************************)
EXTENDS Signoff, SignoffLedger

Case(r, flaws, kept) == {[request |-> r, flaw |-> f, docker |-> kept] : f \in flaws}
McCases ==
  Case("plain", {"mismatch", "wrongRepository"}, {1, 2})
    \union Case("minor", {"none"}, {1})
    \union Case("minor", {"rebuilt", "wrongRevision", "noReference"}, {})
    \union Case("patch", {"none", "wrongPatch", "community"}, {})
    \union Case("commit", {"none"}, {}) \union Case("minorCommit", {"none"}, {1})
McLanes == <<"framework-regression", "webhook-upgrade">>
TargetKinds == {c.request : c \in McCases}
(* Every input of the workflow is given for one kind of immutable target;  *)
(* that newer runs push one from the list is left to another.              *)
McInputs ==
  LET usual == [branch |-> "main", rerun |-> FALSE, limit |-> MaxParallel, ignored |-> 0]
      odd == {[usual EXCEPT !.branch = "topic"], [usual EXCEPT !.rerun = TRUE],
              [usual EXCEPT !.limit = 0], [usual EXCEPT !.ignored = 1]}
  IN [r \in TargetKinds |-> IF r = "minorCommit" THEN odd \union {usual} ELSE {usual}]
McMaxRuns == [r \in TargetKinds |-> IF r = "commit" THEN 3 ELSE 2]

-----------------------------------------------------------------------------
V(minor, patch, pre) == [major |-> 2, minor |-> minor, patch |-> patch, pre |-> pre, patched |-> TRUE]
Released(minor, patch) == [kind |-> "release", version |-> V(minor, patch, 0), at |-> 9]
Alpha(minor, patch, pre, at) == [kind |-> "alpha", version |-> V(minor, patch, pre), at |-> at]
MinorHead == [V(15, 0, 0) EXCEPT !.patched = FALSE]
McFirstReleases == <<Alpha(14, 2, 1, 9), Alpha(13, 8, 2, 3), Released(14, 1), Alpha(15, 0, 1, 0), Released(13, 7), Released(14, 0)>>
McNextReleases == <<Alpha(15, 0, 2, 9), Released(15, 0)>>
NoTag == [n |-> 0, pre |-> FALSE]
OnList(v, enabled) == [version |-> v, enabled |-> enabled, previous |-> NoVersion, image |-> Nothing,
                       tag |-> NoTag, policy |-> "required"]
KnownVersions == {r.version : r \in Range(McFirstReleases \o McNextReleases)} \union {MinorHead}
McWebhookTags == [v \in KnownVersions |-> IF v.pre > 1 \/ ~v.patched THEN [n |-> v.minor, pre |-> TRUE] ELSE [n |-> v.minor, pre |-> FALSE]]
McTargetList == <<OnList(V(14, 2, 1), TRUE), OnList(V(15, 0, 1), FALSE),
                  [OnList(MinorHead, TRUE) EXCEPT !.image = "public", !.tag = McWebhookTags[MinorHead]],
                  [OnList(V(14, 2, 1), TRUE) EXCEPT !.previous = V(13, 7, 0)]>>
McOldBook == V(14, 2, 1) :> (LaneNames[3] :> [status |-> "success", policy |-> "v1", at |-> 0])
               @@ MinorHead :> (LaneNames[1] :> [status |-> "success", policy |-> "v2", at |-> 0])

-----------------------------------------------------------------------------
(* A flaw misleads one resolution or none: one plan and one lane show it.  *)
FlawsOnce == flaw # "none" => planRuns' <= 1 /\ Len(runs') <= 1
(* The target with three runs is about what a planner repeats: its builds  *)
(* and the resolutions given by hand vary in the other cases.              *)
FewBuilds == request = "commit" => /\ \A p \in published' : p[1] = Commit
                                   /\ \A r \in Range(runs') : r.planned = 0 => r.resolved = 0
=============================================================================
