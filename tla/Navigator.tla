----------------------------- MODULE Navigator -----------------------------
(* The execution navigator: what `ocn evidence map`, `verify status`,        *)
(* `verdict draft` and `next-prompt` conclude from a working tree, a pull    *)
(* request, the acceptance criteria and the ledgers.  They only read.        *)
(*                                                                           *)
(* A world w is what they find:                                              *)
(*   mode, number  the mode asked for, and whether a pull request was named  *)
(*   scripts       the scripts of package.json                               *)
(*   git, status, commits, branch, changed  the working tree: its kind,      *)
(*                 whether `git status` answers, and its changed files       *)
(*   gh            whether GitHub answers; state, draft, mergeable, merge,   *)
(*                 checks, reviews, files, size: the pull request            *)
(*   (a check is [named, status, conclusion]; a commit status has no name)   *)
(*   said          the criteria that commits or the pull request's text name *)
(*   found, criteria  docs/03 and its criteria: [id, mentions, manual]       *)
(* A file is [area, about, long]: where it is, the criteria with a keyword   *)
(* in its path, and whether that keyword is a long one.                      *)
EXTENDS Profiles, FiniteSets

---------------------------------------------------------------------------
(* Reading the working tree and the pull request                           *)

\* A status that cannot be read counts as a tree without changes.
ReadLocalGit(w) ==
  [isGitRepo |-> w.git = "repo",
   reason    |-> IF w.git # "repo" THEN w.git
                 ELSE IF ~w.commits THEN "no-commits"
                 ELSE "none",
   detached  |-> w.git = "repo" /\ w.commits /\ ~w.branch,
   changed   |-> IF w.git = "repo" /\ w.status THEN w.changed ELSE {}]

GitDirty(w) == ReadLocalGit(w).changed # {}

GithubRequested(w)   == w.number /\ w.mode # "local"
FetchGithub(w)       == GithubRequested(w) /\ w.gh = "answers"
GithubUnavailable(w) == GithubRequested(w) /\ ~FetchGithub(w)

PendingStatuses    == {"QUEUED", "IN_PROGRESS", "WAITING", "PENDING"}
FailureConclusions ==
  {"FAILURE", "CANCELLED", "TIMED_OUT", "ACTION_REQUIRED", "STARTUP_FAILURE"}
SuccessConclusions == {"SUCCESS", "NEUTRAL", "SKIPPED"}

\* A check that is completed with a conclusion nobody knows is pending.
ClassifyCheck(check) ==
  IF check.status # "COMPLETED" THEN "pending"
  ELSE IF check.conclusion \in FailureConclusions THEN "failed"
  ELSE IF check.conclusion \in SuccessConclusions THEN "passed"
  ELSE "pending"

\* The places of the checks that are looked at: what has no name is skipped, whether
\* it failed or not.
Listed(w) == {i \in DOMAIN w.checks : w.checks[i].named}

\* Those of a kind.
Checks(w, kind) == {i \in Listed(w) : ClassifyCheck(w.checks[i]) = kind}
FailedCount(w)  == Cardinality(Checks(w, "failed"))

SummariseChecks(w) ==
  IF Listed(w) = {} THEN "none"
  ELSE IF Checks(w, "failed") # {} THEN "failure"
  ELSE IF Checks(w, "pending") # {} THEN "pending"
  ELSE "success"

ChangesRequested(w) == "CHANGES_REQUESTED" \in ToSet(w.reviews)

Unclean == {"DIRTY", "BLOCKED", "BEHIND"}

ClassifyPath(file) ==
  CASE file.area \in {"cli", "source"}  -> "source"
    [] file.area \in {"docs", "readme"} -> "docs"
    [] OTHER                            -> file.area

BucketFiles(w) == {ClassifyPath(f) : f \in w.files}

\* w.size are the flags that the number of its lines and files raises.
PrRiskFlags(w) ==
  LET kinds == BucketFiles(w)
      flags == [f \in {"draft-pr", "closed-pr", "merge-conflict-or-unclean", "ci-failing",
                       "ci-pending", "no-checks-found", "changes-requested",
                       "no-review-yet", "source-change-without-test-change",
                       "test-change-without-source-change", "docs-only-change",
                       "workflow-changed", "package-metadata-changed"} |->
        CASE f = "draft-pr"                  -> w.draft
          [] f = "closed-pr"                 -> w.state = "CLOSED"
          [] f = "merge-conflict-or-unclean" -> w.merge \in Unclean
          [] f = "ci-failing"                -> SummariseChecks(w) = "failure"
          [] f = "ci-pending"                -> SummariseChecks(w) = "pending"
          [] f = "no-checks-found"           -> SummariseChecks(w) = "none"
          [] f = "changes-requested"         -> ChangesRequested(w)
          [] f = "no-review-yet" -> w.reviews = <<>> /\ w.state = "OPEN" /\ ~w.draft
          [] f = "source-change-without-test-change" ->
               "source" \in kinds /\ "tests" \notin kinds
          [] f = "test-change-without-source-change" ->
               "tests" \in kinds /\ "source" \notin kinds
          [] f = "docs-only-change"          -> kinds = {"docs"}
          [] f = "workflow-changed"          -> "workflow" \in kinds
          [] f = "package-metadata-changed"  -> "package" \in kinds]
  IN  w.size \cup {f \in DOMAIN flags : flags[f]}

---------------------------------------------------------------------------
(* The evidence map                                                        *)

PrFiles(w)      == IF FetchGithub(w) THEN w.files ELSE {}
ChangedFiles(w) == ReadLocalGit(w).changed \cup PrFiles(w)

RuleStrongFile(c, file) ==
  file.area \in (c.mentions \cap {"cli", "tests", "docs"}) /\ c.id \in file.about

RuleStrongBuildChecks(c, w) ==
  "build" \in c.mentions /\ FetchGithub(w) /\ SummariseChecks(w) = "success"

RuleCandidatePath(c, file) == c.id \in file.about /\ file.long

\* Criteria that the messages of the commits or the pull request's text name.
RuleCandidateText(c, w) ==
  c.id \in w.said /\ (FetchGithub(w) \/ (ReadLocalGit(w).isGitRepo /\ w.commits))

\* How sure the map is of an item is left out: no command reads it.
MapOneCriterion(c, w) ==
  IF c.manual THEN "needs-human-review"
  ELSE IF RuleStrongBuildChecks(c, w) \/ \E f \in ChangedFiles(w) : RuleStrongFile(c, f)
  THEN "evidence-found"
  ELSE IF RuleCandidateText(c, w) \/ \E f \in ChangedFiles(w) : RuleCandidatePath(c, f)
  THEN "evidence-candidate"
  ELSE "missing-evidence"

Criteria(w)       == IF w.found THEN w.criteria ELSE {}
Mapped(w, status) == {c \in Criteria(w) : MapOneCriterion(c, w) = status}

CoverageStatus(w) ==
  IF Criteria(w) = {} THEN "no-acceptance-criteria"
  ELSE IF Mapped(w, "needs-human-review") = Criteria(w) THEN "needs-human-review"
  ELSE IF Mapped(w, "evidence-found") = Criteria(w) THEN "complete"
  ELSE IF Mapped(w, "evidence-found") # {} THEN "partial"
  ELSE IF Mapped(w, "missing-evidence") # {} THEN "missing"
  ELSE "partial"

NeedsHumanReview(w) == Mapped(w, "needs-human-review") # {}

---------------------------------------------------------------------------
(* The status of the verification                                          *)

Required          == {"lint", "typecheck", "test", "build"}
AllRequired(w)    == Required \subseteq w.scripts
NoLocalScripts(w) == Required \cap w.scripts = {}

DeriveStatus(w) ==
  LET hasPr      == FetchGithub(w)
      coverage   == CoverageStatus(w)
      blocked    == \/ hasPr /\ (SummariseChecks(w) = "failure" \/ w.merge \in Unclean)
                    \/ coverage = "missing"
                    \/ ~AllRequired(w) /\ ~hasPr /\ ~NoLocalScripts(w)
      prOk       == hasPr => SummariseChecks(w) = "success" /\ ~w.draft
      treeOk     == w.mode = "pr" \/ (ReadLocalGit(w).isGitRepo /\ ~GitDirty(w))
  IN  IF blocked THEN "blocked"
      ELSE IF hasPr /\ SummariseChecks(w) = "pending" THEN "pending"
      ELSE IF NoLocalScripts(w) /\ ~hasPr /\ Criteria(w) = {} THEN "no-verification-data"
      ELSE IF AllRequired(w) /\ coverage \in {"complete", "partial"} /\ prOk /\ treeOk THEN "ready"
      ELSE "partial"

RiskFlags(w) ==
  LET git   == ReadLocalGit(w)
      flags == [f \in {"working-tree-dirty", "no-commits", "detached-head",
                       "acceptance-file-missing", "no-acceptance-criteria", "coverage-partial", "coverage-missing",
                       "human-review-required", "github-evidence-unavailable"} |->
        CASE f = "working-tree-dirty"    -> GitDirty(w)
          [] f = "no-commits"            -> git.reason = "no-commits"
          [] f = "detached-head"         -> git.detached
          [] f = "acceptance-file-missing" -> ~w.found
          [] f = "no-acceptance-criteria"  -> w.found /\ w.criteria = {}
          [] f = "coverage-partial"      -> CoverageStatus(w) = "partial"
          [] f = "coverage-missing"      -> CoverageStatus(w) = "missing"
          [] f = "human-review-required" -> NeedsHumanReview(w)
          [] f = "github-evidence-unavailable" -> GithubUnavailable(w)]
  IN  {f \in DOMAIN flags : flags[f]}
        \cup (IF git.isGitRepo THEN {} ELSE {git.reason})
        \cup (IF FetchGithub(w) THEN PrRiskFlags(w) ELSE {})

---------------------------------------------------------------------------
(* The draft of a verdict                                                  *)

RuleHold(w) == NeedsHumanReview(w) \/ (
  CoverageStatus(w) = "missing" /\
    \/ FetchGithub(w) /\ SummariseChecks(w) = "success"
    \/ w.mode = "combined" /\ GithubUnavailable(w))

RuleRequestChanges(w) ==
  \/ DeriveStatus(w) = "blocked"
  \/ FetchGithub(w) /\ ChangesRequested(w)
  \/ "source-change-without-test-change" \in RiskFlags(w) /\ DeriveStatus(w) # "ready"

RuleContinueWork(w) ==
  \/ DeriveStatus(w) = "partial"
  \/ GitDirty(w) /\ DeriveStatus(w) # "ready"
  \/ w.mode = "combined" /\ ~w.number /\ GitDirty(w)
  \/ CoverageStatus(w) = "partial" /\ ~FetchGithub(w)

RuleReadyForReview(w) ==
  DeriveStatus(w) = "ready" /\ CoverageStatus(w) \in {"complete", "partial"}

\* Mutated form: the tree is not looked at again.
RuleMergeAnyTree(w) ==
  /\ FetchGithub(w)
  /\ w.state = "OPEN" /\ ~w.draft /\ w.mergeable = "MERGEABLE" /\ w.merge = "CLEAN"
  /\ SummariseChecks(w) = "success" /\ ~ChangesRequested(w)
  /\ RuleReadyForReview(w)

RuleReadyToMerge(w) ==
  /\ FetchGithub(w)
  /\ w.state = "OPEN" /\ ~w.draft /\ w.mergeable = "MERGEABLE" /\ w.merge = "CLEAN"
  /\ SummariseChecks(w) = "success" /\ FailedCount(w) = 0 /\ ~ChangesRequested(w)
  /\ RuleReadyForReview(w)
  /\ RiskFlags(w) \cap {"human-review-required", "working-tree-dirty"} = {}

DeriveCategory(w) ==
  IF RuleHold(w) THEN "hold-for-manual-review"
  ELSE IF RuleRequestChanges(w) THEN "request-changes"
  ELSE IF RuleContinueWork(w) THEN "continue-work"
  ELSE IF RuleReadyToMerge(w) THEN "ready-to-merge"
  ELSE IF RuleReadyForReview(w) THEN "ready-for-review"
  ELSE "continue-work"

DeriveConfidence(w) ==
  LET flags == RiskFlags(w) \cup {s \in {"blocked", "partial"} : s = DeriveStatus(w)}
  IN  IF /\ DeriveCategory(w) = "ready-to-merge" /\ flags = {}
         /\ CoverageStatus(w) = "complete" THEN "high"
      ELSE IF /\ DeriveCategory(w) \in {"ready-for-review", "ready-to-merge"}
              /\ Cardinality(flags) <= 2 THEN "medium"
      ELSE "low"

\* What speaks against going on, listed beside the category.
Blocks(w) ==
  LET hasPr == FetchGithub(w)
      facts == [b \in {"checks-failure", "checks-pending", "acceptance-missing", "tree-dirty",
                       "changes-requested", "merge-unclean", "no-pr", "no-acceptance",
                       "verification", "human-review", "github-unavailable", "draft"} |->
        CASE b = "checks-failure"     -> hasPr /\ FailedCount(w) > 0
          [] b = "checks-pending"     -> hasPr /\ SummariseChecks(w) = "pending"
          [] b = "acceptance-missing" -> CoverageStatus(w) = "missing"
          [] b = "tree-dirty"         -> GitDirty(w)
          [] b = "changes-requested"  -> hasPr /\ ChangesRequested(w)
          [] b = "merge-unclean"      -> hasPr /\ w.merge \in Unclean
          [] b = "no-pr"              -> w.mode = "pr" /\ ~w.number
          [] b = "no-acceptance"      -> ~w.found
          [] b = "verification"       -> DeriveStatus(w) \in {"blocked", "partial"}
          [] b = "human-review"       -> NeedsHumanReview(w)
          [] b = "github-unavailable" -> GithubUnavailable(w)
          [] b = "draft"              -> hasPr /\ w.draft]
  IN  {b \in DOMAIN facts : facts[b]}

HumanReviewRequired(w) ==
  \/ DeriveCategory(w) = "hold-for-manual-review"
  \/ DeriveCategory(w) \in {"request-changes", "continue-work"} /\ DeriveConfidence(w) = "low"

---------------------------------------------------------------------------
(* Property                                                                *)

\* A draft that says merge stands on what was read and not only on what other
\* steps concluded from it: the pull request is open, a check with a name exists
\* and every such check passed, no reviewer asked for changes, no changed file was
\* seen in the tree, no criterion waits for a human, and either one is covered or
\* none is without a candidate; and the list of what blocks, put together apart
\* from the category, is empty (README.md:511, "requires every signal aligned").  A
\* draft that is sure of it has every criterion covered.  It says nothing of the
\* checks without a name, which nobody reads.
MergeIsBacked(w) ==
  DeriveCategory(w) = "ready-to-merge" =>
    /\ FetchGithub(w) /\ w.state = "OPEN" /\ ~w.draft
    /\ Listed(w) # {} /\ \A i \in Listed(w) : ClassifyCheck(w.checks[i]) = "passed"
    /\ "CHANGES_REQUESTED" \notin ToSet(w.reviews)
    /\ w.git = "repo" /\ w.status => w.changed = {}
    /\ w.criteria # {} /\ \A c \in w.criteria : ~c.manual
    /\ \/ \E c \in w.criteria : MapOneCriterion(c, w) = "evidence-found"
       \/ \A c \in w.criteria : MapOneCriterion(c, w) # "missing-evidence"
    /\ Blocks(w) = {} /\ ~HumanReviewRequired(w)
    /\ DeriveConfidence(w) = "high" =>
         \A c \in w.criteria : MapOneCriterion(c, w) = "evidence-found"
=============================================================================
