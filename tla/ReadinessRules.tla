--------------------------- MODULE ReadinessRules ---------------------------
(* The readiness rulebook and its evaluator: fifty-five rules, each asking   *)
(* the documents of a project, or the repository itself, for the inputs one  *)
(* role needs; when a rule is enforced, and what verdict it gets.            *)
(*                                                                           *)
(* An input is <<slug, field>>, or <<"repo", fact>> for a fact the engine    *)
(* probes.  What the engine reads for an input is one of a small set of      *)
(* kinds of value (Values) that the predicates tell apart.                   *)
EXTENDS Profiles, FiniteSets, FiniteSetsExt

Tiers == {"solo", "team", "platform"}
Small  == Tiers
Medium == {"team", "platform"}
Large  == {"platform"}

TierOf(projectTier) ==
  CASE projectTier = "production" -> "team"
    [] projectTier = "full"       -> "platform"
    [] OTHER                      -> "solo"

NotEmpty == "not_empty"
Count    == "count_gte"
Quantity == "numeric_with_unit"
Exists   == "exists"
True     == "true"
WithinLimit == "within_limit"

---------------------------------------------------------------------------
(* The rulebook                                                            *)

Rule(id, tiers, requires, check) ==
  [id |-> id, tiers |-> tiers, severity |-> "block",
   requires |-> requires, check |-> check, waivable |-> id # "qa_engineer"]

WarnRule(id, tiers, requires, check) ==
  [Rule(id, tiers, requires, check) EXCEPT !.severity = "warn"]

\* A rule about one input.
Asks(id, tiers, from, field, predicate) ==
  Rule(id, tiers, {<<from, field>>}, {<<field, predicate>>})

Advises(id, tiers, from, field, predicate) ==
  [Asks(id, tiers, from, field, predicate) EXCEPT !.severity = "warn"]

StrategyRules ==
  {Rule("cio_cto", Small,
          {<<"brief", "problem_statement">>, <<"scope", "stop_conditions">>},
          {<<"problem_statement", NotEmpty>>, <<"stop_conditions", Count>>}),
   Asks("ciso", Small, "prd", "security_constraints", Count),
   Asks("brm", Medium, "prd", "value_proposition", NotEmpty),
   Asks("enterprise_architect", Medium, "ia", "object_map", NotEmpty),
   Asks("pmo_director", Medium, "mvp_plan", "phases", Count),
   WarnRule("pmo_proportionality", Small,
          {},
          {<<"process_events_vs_tier_ceiling", WithinLimit>>}),
   Asks("quality_manager", Medium, "test_strategy", "coverage_target", Quantity),
   Rule("vendor_manager", Medium,
          {<<"repo", "dependency_lockfile">>, <<"repo", "license_file">>},
          {<<"dependency_lockfile", Exists>>, <<"license_file", Exists>>}),
   Asks("compliance_manager", Large, "ai_governance", "data_handling_statement", NotEmpty),
   Asks("it_auditor", Large, "audit_trail", "audit_events", Count),
   Advises("it_finance_analyst", Large, "config_env", "monthly_cost", Quantity)}

ArchitectureRules ==
  {Asks("ba", Small, "prd", "requirements", Count),
   Rule("product_manager", Medium,
          {<<"scope", "in_scope">>, <<"scope", "must_not_do">>},
          {<<"in_scope", NotEmpty>>, <<"must_not_do", NotEmpty>>}),
   Asks("solution_architect", Medium, "api", "system_boundary", NotEmpty),
   Rule("system_architect", Medium,
          {<<"api", "tech_stack">>, <<"api", "nfr">>},
          {<<"tech_stack", NotEmpty>>, <<"nfr", Count>>}),
   Asks("ux_ui_designer", Medium, "ia", "flows", Count),
   Rule("data_architect", Large,
          {<<"data_model", "schema">>, <<"data_model", "stable_ids">>},
          {<<"schema", NotEmpty>>, <<"stable_ids", NotEmpty>>}),
   Asks("integration_architect", Large, "api", "contracts", Count),
   Asks("security_architect", Large, "ai_governance", "security_controls", Count)}

DeliveryRules ==
  {Rule("developer", Small,
          {<<"repo", "git_initialized">>, <<"repo", "build_passes">>},
          {<<"git_initialized", True>>, <<"build_passes", True>>}),
   Asks("devops_engineer", Small, "repo", "ci_config", Exists),
   Rule("it_pm", Small,
          {<<"mvp_plan", "phases">>, <<"mvp_plan", "risks">>},
          {<<"phases", Count>>, <<"risks", Count>>}),
   Rule("qa_engineer", Small,
          {<<"repo", "test_dir">>, <<"repo", "test_command_passes">>,
           <<"acceptance", "scenarios">>},
          {<<"test_dir", Exists>>, <<"test_command_passes", True>>,
           <<"each_acceptance_scenario_has_test_ref", True>>}),
   Rule("backend_engineer", Medium,
          {<<"acceptance", "scenarios">>},
          {<<"each_scenario_has_impl_or_test_ref", True>>}),
   Asks("data_engineer", Medium, "real_data_wiring", "data_sources", NotEmpty),
   Asks("dba", Medium, "data_model", "backup_or_atomic_write", NotEmpty),
   Asks("frontend_engineer", Medium, "api", "render_layer", NotEmpty)}

ReleaseRules ==
  {Rule("release_manager", Medium,
          {<<"release_notes", "version">>, <<"release_notes", "release_notes">>},
          {<<"version", NotEmpty>>, <<"release_notes", NotEmpty>>}),
   Advises("scrum_master", Medium, "dev_log", "dev_log_entries", Count),
   Asks("config_manager", Large, "config_env", "config_keys", NotEmpty),
   Asks("mobile_engineer", Large, "scope", "mobile_target", NotEmpty),
   Asks("performance_engineer", Large, "validation", "perf_targets", Quantity),
   Asks("platform_engineer", Large, "repo", "dev_scripts", Exists),
   Rule("test_automation_engineer", Large,
          {<<"repo", "ci_config">>, <<"repo", "test_dir">>},
          {<<"ci_runs_tests", True>>})}

ServiceRules ==
  {Rule("service_desk_analyst", Small,
          {<<"repo", "readme">>},
          {<<"support_channel", NotEmpty>>}),
   Rule("change_manager", Medium,
          {<<"audit_trail", "events">>},
          {<<"gated_advance", True>>}),
   Asks("cloud_engineer", Medium, "config_env", "deploy_target", NotEmpty),
   Asks("config_asset_manager", Medium, "repo", "dependency_lockfile", Exists),
   Asks("end_user_computing", Medium, "reproducibility", "install_steps", NotEmpty),
   Asks("incident_manager", Medium, "observability", "runbook", Exists),
   Asks("infra_manager", Medium, "config_env", "infra", NotEmpty),
   Asks("network_engineer", Medium, "config_env", "network", NotEmpty),
   Advises("service_delivery_manager", Medium, "validation", "acceptance_signoff", NotEmpty),
   Asks("sre", Medium, "observability", "metrics", Count)}

ContinuityRules ==
  {Asks("sys_admin", Medium, "observability", "maintenance_plan", NotEmpty),
   Rule("training_specialist", Medium,
          {<<"repo", "readme">>},
          {<<"quickstart", NotEmpty>>}),
   Advises("bcm_manager", Large, "rollback", "backup_restore_procedure", NotEmpty),
   Advises("capacity_planner", Large, "validation", "capacity_limits", Quantity),
   Asks("dr_manager", Large, "rollback", "rollback_plan", Exists),
   Asks("iam_admin", Large, "ai_governance", "authz_model", NotEmpty),
   Rule("knowledge_manager", Large,
          {<<"decision_log", "decision_log_entries">>, <<"dev_log", "dev_log_entries">>},
          {<<"decision_log_entries", Count>>, <<"dev_log_entries", Count>>}),
   Asks("middleware_engineer", Large, "api", "middleware_ownership", NotEmpty),
   Asks("problem_manager", Large, "debug", "known_issues", NotEmpty),
   Advises("service_level_manager", Large, "observability", "sla", Quantity),
   Asks("soc_manager", Large, "ai_governance", "security_monitoring", NotEmpty)}

Rulebook == StrategyRules \cup ArchitectureRules \cup DeliveryRules
            \cup ReleaseRules \cup ServiceRules \cup ContinuityRules

\* The documents whose name matches each glob of a slug, in the order of the
\* globs.  The slugs not named here match no document of any profile.
Wired ==
  [brief            |-> <<{"project_brief"}>>,
   scope            |-> <<{"scope"}>>,
   prd              |-> <<{"prd"}>>,
   acceptance       |-> <<{"acceptance_criteria", "acceptance_mapping"}>>,
   ia               |-> <<{"information_architecture"}>>,
   tech_arch        |-> <<{"technical_architecture"},
                          {"technical_architecture", "information_architecture"}>>,
   data_model       |-> <<{"data_model"}>>,
   api              |-> <<{"api_contract"}>>,
   test_strategy    |-> <<{"test_strategy"}>>,
   logic_backbone   |-> <<{"logic_backbone"}>>,
   mvp_plan         |-> <<{"mvp_plan"}>>,
   real_data_wiring |-> <<{"integration_notes"}>>,
   reproducibility  |-> <<{"build_plan"}>>,
   evolution        |-> <<{"evolution_report"}>>]

Unwired == {"config_env", "rollback", "validation", "debug", "baseline",
            "release_notes", "dev_log", "observability", "audit_trail",
            "ai_governance", "uncertainty", "decision_log"}

Globs(slug) == IF slug \in DOMAIN Wired THEN Wired[slug] ELSE <<>>

PathFacts == {"git_initialized", "dependency_lockfile", "ci_config", "test_dir",
              "license_file", "readme", "dev_scripts"}
CommandFacts == {"build_passes", "test_command_passes"}
RepoFacts == PathFacts \cup CommandFacts

DerivedFields == {"each_acceptance_scenario_has_test_ref",
                  "each_scenario_has_impl_or_test_ref", "ci_runs_tests",
                  "gated_advance", "process_events_vs_tier_ceiling"}
AcTraceFields == {"each_acceptance_scenario_has_test_ref",
                  "each_scenario_has_impl_or_test_ref"}

Facts(rule)  == {i[2] : i \in {i \in rule.requires : i[1] = "repo"}}
Slugs(rule)  == {i[1] : i \in rule.requires} \ {"repo"}
OnlyRepo(rule) == Slugs(rule) = {}

\* The drift classes the rulebook linter looks for.
LintFindings(rule) ==
     {<<"unresolvable_probe_ref", f>> : f \in Facts(rule) \ RepoFacts}
  \cup {<<"unresolvable_artifact_ref", s>> :
          s \in Slugs(rule) \ (DOMAIN Wired \cup Unwired)}
  \cup {<<"check_field_not_in_requires", c[1]>> :
          c \in {c \in rule.check :
                   /\ c[1] \notin DerivedFields
                   /\ c[1] \notin {i[2] : i \in rule.requires}
                   /\ ~OnlyRepo(rule)}}
  \cup {<<"duplicate_check_id", r.id>> :
          r \in {r \in Rulebook : r.id = rule.id /\ r # rule}}

---------------------------------------------------------------------------
(* When a rule is enforced                                                 *)

HasReadiness(v)      == AtLeast(v, Version(4))
PreciseActivation(v) == AtLeast(v, Version(7))

Never == 0     \* no step: the deadline cannot be resolved

\* Places in the step order, 1 being the first step.
EarliestStepForSlug(v, slug) ==
  LET named == UNION ToSet(Globs(slug))
      at    == {i \in DOMAIN Flat(v) :
                  Flat(v)[i] \in named /\ ArtifactPath(v, Flat(v)[i]) # NoDocument}
  IN  IF at = {} THEN Never ELSE CHOOSE i \in at : \A j \in at : i <= j

FirstStepOfState(v, state) ==
  IF StepsByState(v)[state] = <<>> THEN Never
  ELSE Position(v, StepsByState(v)[state][1])

InputDue(v, input) ==
  IF input[1] # "repo" THEN EarliestStepForSlug(v, input[1])
  ELSE IF input[2] \in RepoFacts THEN FirstStepOfState(v, "build")
  ELSE Never

\* Mutated form: due as soon as the first of its inputs is.
DueStepFirstInput(v, rule) ==
  LET due == {InputDue(v, i) : i \in rule.requires}
  IN  IF due = {} \/ Never \in due THEN Never
      ELSE CHOOSE i \in due : \A j \in due : i <= j

DueStep(v, rule) ==
  LET due == {InputDue(v, i) : i \in rule.requires}
  IN  IF due = {} \/ Never \in due THEN Never
      ELSE CHOOSE i \in due : \A j \in due : j <= i

EnforcedFrom(v, rule) ==
  IF PreciseActivation(v) /\ rule.severity = "block" THEN DueStep(v, rule) ELSE Never

\* An unresolved deadline defers nothing.
NotDue(v, rule, step) ==
  EnforcedFrom(v, rule) # Never /\ Position(v, step) < EnforcedFrom(v, rule)

\* The document a slug resolves to among the documents there are: the first
\* glob that matches one, the first of its matches in the order of file names.
ResolveArtifact(v, slug, docs) ==
  LET globs   == Globs(slug)
      matched == {i \in DOMAIN globs : docs \cap globs[i] # {}}
      hits    == docs \cap globs[Min(matched)]
  IN  IF matched = {} THEN NoDocument
      ELSE ArtifactPath(v, CHOOSE s \in hits :
             \A t \in hits : ArtifactPath(v, s)[1] <= ArtifactPath(v, t)[1])

---------------------------------------------------------------------------
(* What verdict it gets                                                    *)

\* What a document declares for a field: nothing to read it from, no such
\* field, an empty string, an empty list, a text, a list, a number with its
\* unit, or the path of a file that is there.
Values == {"no_document", "no_block", "undeclared", "blank", "no_items",
           "text", "list", "quantity", "path"}

\* The world a rule is judged in.  "tests" is what the test listing command
\* shows of the declared scenarios, "readme" what the README holds, "waiver"
\* the state of a waiver granted for the rule.
Worlds ==
  [value : Values, paths : {"present", "absent"},
   command : {"unconfigured", "fails", "passes"},
   tests : {"unconfigured", "failed", "missing", "traced"},
   readme : {"absent", "lacking", "complete"},
   waiver : {"none", "lapsed", "holds"}]

EvalPredicate(predicate, value) ==
  IF value = "undeclared" THEN "unknown" ELSE
  CASE predicate = NotEmpty ->
         IF value \in {"blank", "no_items"} THEN "fail" ELSE "pass"
    [] predicate = Quantity ->
         CASE value = "quantity" -> "pass"
           [] value \in {"blank", "no_items"} -> "unknown"
           [] OTHER -> "fail"
    [] predicate = Count ->
         CASE value = "list" -> "pass"
           [] value = "no_items" -> "fail"
           [] OTHER -> "unknown"
    [] predicate = Exists ->
         CASE value = "path" -> "pass"
           [] value \in {"text", "quantity"} -> "fail"
           [] OTHER -> "unknown"
    [] OTHER -> "unknown"

Unread == {"no_document", "no_block"}

ArtifactField(predicate, w) ==
  IF w.value \in Unread THEN "unknown" ELSE EvalPredicate(predicate, w.value)

\* Scenario ids against the test nodes the engine collects.
TraceScenarios(w, executeCommands) ==
  IF ~executeCommands \/ w.tests = "unconfigured" THEN "unknown"
  ELSE IF w.tests = "failed" THEN "fail"
  ELSE IF w.value = "no_items" THEN "unknown"
  ELSE IF w.tests = "missing" THEN "fail"
  ELSE "pass"

AcTraceField(w, executeCommands) ==
  IF w.value \notin {"no_items", "list"} THEN "unknown"
  ELSE TraceScenarios(w, executeCommands)

RepoProbe(fact, w) ==
  IF fact \in PathFacts
  THEN IF w.paths = "present" THEN "pass" ELSE "fail"
  ELSE CASE w.command = "unconfigured" -> "unknown"
         [] w.command = "fails"        -> "fail"
         [] OTHER                      -> "pass"

\* Mutated form: a probe that was not run counts as one that found nothing wrong.
RepoFieldUnrun(fact, w, executeCommands) ==
  IF fact \in CommandFacts /\ ~executeCommands THEN "pass" ELSE RepoProbe(fact, w)

RepoField(fact, w, executeCommands) ==
  IF fact \in CommandFacts /\ ~executeCommands THEN "unknown" ELSE RepoProbe(fact, w)

ReadmeField(field, w) ==
  IF w.readme = "absent" THEN "unknown"
  ELSE IF field \notin {"support_channel", "quickstart"} THEN "unknown"
  ELSE IF w.readme = "lacking" THEN "fail"
  ELSE "pass"

EvalField(rule, c, w, executeCommands) ==
  IF c[1] \in AcTraceFields THEN AcTraceField(w, executeCommands)
  ELSE IF c[1] \in DerivedFields THEN "unknown"
  ELSE IF c[1] \in Facts(rule) THEN RepoField(c[1], w, executeCommands)
  ELSE IF OnlyRepo(rule) THEN ReadmeField(c[1], w)
  ELSE ArtifactField(c[2], w)

Aggregate(verdicts) ==
  IF "fail" \in verdicts THEN "FAIL"
  ELSE IF "unknown" \in verdicts THEN "UNKNOWN" ELSE "PASS"

\* A waiver counts for a verdict that blocks, for a waivable rule, in the state
\* it was granted in, while its probe succeeds.
WaiverApplies(rule, w) == rule.waivable /\ w.waiver = "holds"

EvaluateRule(rule, w, executeCommands) ==
  LET verdict == Aggregate({EvalField(rule, c, w, executeCommands) : c \in rule.check})
  IN  IF verdict # "PASS" /\ WaiverApplies(rule, w) THEN "WAIVED" ELSE verdict

Lets(rule, w, executeCommands) ==
  rule.severity = "warn" \/ EvaluateRule(rule, w, executeCommands) \in {"PASS", "WAIVED"}

---------------------------------------------------------------------------
(* Property                                                                *)

\* The documents there are when the gate of a step gets to readiness: those
\* of the steps up to it.
Written(v, step) ==
  {s \in Before(v, step) \cup {step} : ArtifactPath(v, s) # NoDocument}

Answerable(v, input, step) ==
  IF input[1] = "repo" THEN Position(v, step) >= FirstStepOfState(v, "build")
  ELSE ResolveArtifact(v, input[1], Written(v, step)) # NoDocument

\* "Not early and not missing" (due-state.ts:6-20): from 0.7.0 on, whatever
\* the step, a block rule whose deadline can be resolved is enforced exactly
\* when every one of its inputs can be answered from the documents written so
\* far, and its documents resolve to the ones the deadline was computed from;
\* at the solo tier every block rule has such a deadline; and the linter finds
\* nothing to say about any rule.
DueWithItsInputs(v, step, tier) ==
  PreciseActivation(v) =>
    \A rule \in {r \in Rulebook : r.severity = "block" /\ tier \in r.tiers} :
      /\ tier = "solo" => DueStep(v, rule) # Never
      /\ DueStep(v, rule) # Never =>
           /\ ~NotDue(v, rule, step) <=> \A i \in rule.requires : Answerable(v, i, step)
           /\ ~NotDue(v, rule, step) =>
                \A s \in Slugs(rule) :
                  ResolveArtifact(v, s, Written(v, step)) =
                    ArtifactPath(v, Flat(v)[EarliestStepForSlug(v, s)])
      /\ LintFindings(rule) = {}
=============================================================================
