------------------------------ MODULE Profiles ------------------------------
(* The bundled SOP profiles: the states and steps of every version, the      *)
(* documents and sections a step asks for, how a pin is resolved to a        *)
(* profile, and what `ocn sop upgrade` lets a project move to.               *)
(*                                                                           *)
(* A version is the triple of its numbers.  A document is <<slot, step>>:    *)
(* docs/NN-name.md has slot NN and the name of the step that writes it.  A   *)
(* section is <<step, i>>, the i-th prose section of the step, or <<name, 0>>, *)
(* a section the engine parses.                                              *)
EXTENDS Integers, Sequences, SequencesExt

NoDocument == <<>>
NoStep     == [state |-> "none", step |-> "none"]

Version(minor) == <<0, minor, 0>>

KnownVersions == {Version(n) : n \in {1, 2, 3, 4, 5, 7, 8, 9}}
DefaultVersion == Version(9)

---------------------------------------------------------------------------
(* States and steps                                                        *)

StateOrder == <<"discovery", "spec", "design", "plan",
                "build", "verify", "ship", "reflect">>

Steps010 ==
  [discovery |-> <<"project_brief", "scope">>,
   spec      |-> <<"prd", "acceptance_criteria">>,
   design    |-> <<"technical_architecture", "information_architecture",
                   "data_model", "api_contract", "test_strategy">>,
   plan      |-> <<"mvp_plan">>,
   build |-> <<>>, verify |-> <<>>, ship |-> <<>>, reflect |-> <<>>]

Steps020 ==
  [Steps010 EXCEPT
     !.discovery = <<"project_brief">>,
     !.spec      = <<"scope", "prd", "acceptance_criteria">>,
     !.plan      = <<"mvp_plan", "build_plan">>,
     !.build     = <<"implementation_log", "change_evidence", "integration_notes">>,
     !.verify    = <<"verification_report", "acceptance_mapping", "failure_fix_log",
                     "regression_evidence", "final_build_verdict">>]

Steps030 ==
  [Steps020 EXCEPT
     !.design = <<"technical_architecture", "information_architecture", "data_model",
                  "logic_backbone", "api_contract", "test_strategy">>]

Steps090 ==
  [Steps030 EXCEPT !.ship = <<"release">>, !.reflect = <<"evolution_report">>]

StepsByState(v) ==
  CASE v = Version(1) -> Steps010
    [] v = Version(2) -> Steps020
    [] v = Version(9) -> Steps090
    [] OTHER          -> Steps030

\* The steps of a version in workflow order.
Flats == [v \in KnownVersions |->
            FlattenSeq([i \in DOMAIN StateOrder |-> StepsByState(v)[StateOrder[i]]])]

Flat(v) == Flats[v]

StepSet(v) == ToSet(Flat(v))

Position(v, step) == CHOOSE i \in DOMAIN Flat(v) : Flat(v)[i] = step

Before(v, step) == {Flat(v)[i] : i \in 1 .. Position(v, step) - 1}

StateOf(v, step) ==
  CHOOSE s \in ToSet(StateOrder) : step \in ToSet(StepsByState(v)[s])

---------------------------------------------------------------------------
(* What a step asks for                                                    *)

\* The slot of a document is the place of its step in the workflow, but for
\* the evolution report, which was given slot 23.
ArtifactPath(v, step) ==
  IF step = "release" \/ step \notin StepSet(v) THEN NoDocument
  ELSE <<IF step = "evolution_report" THEN 23 ELSE Position(v, step) - 1, step>>

Prose010 ==
  [project_brief |-> 4, scope |-> 4, prd |-> 5, acceptance_criteria |-> 3,
   technical_architecture |-> 5]

Prose020 ==
  [project_brief |-> 7, scope |-> 6, prd |-> 7, acceptance_criteria |-> 5,
   technical_architecture |-> 12, information_architecture |-> 5, data_model |-> 6,
   api_contract |-> 6, test_strategy |-> 6, mvp_plan |-> 6, build_plan |-> 6,
   implementation_log |-> 5, change_evidence |-> 6, integration_notes |-> 6,
   verification_report |-> 7, acceptance_mapping |-> 5, failure_fix_log |-> 5,
   regression_evidence |-> 6, final_build_verdict |-> 6]

LogicSections == 5

ProseCount(v, step) ==
  LET prose == IF v = Version(1) THEN Prose010 ELSE Prose020
  IN  IF step = "logic_backbone" THEN LogicSections
      ELSE IF step \in DOMAIN prose THEN prose[step] ELSE 0

\* v >= w, numerically, part by part.
AtLeast(v, w) ==
  \/ v = w
  \/ \E i \in 1..3 : v[i] > w[i] /\ \A j \in 1 .. i - 1 : v[j] = w[j]

RequiresOutcome(v) == AtLeast(v, Version(9))

MachineSections(v, step) ==
     (IF step = "build_plan" /\ AtLeast(v, Version(5)) THEN {"task_specs"} ELSE {})
  \cup (IF step = "acceptance_criteria" /\ AtLeast(v, Version(8))
        THEN {"acceptance_specs"} ELSE {})
  \cup (IF step = "evolution_report" /\ v = Version(9)
        THEN {"outcome_references"} ELSE {})

RequiredSections(v, step) ==
  {<<step, i>> : i \in 1 .. ProseCount(v, step)}
  \cup {<<name, 0>> : name \in MachineSections(v, step)}

---------------------------------------------------------------------------
(* Pins                                                                    *)

ResolveProfile(pin) == IF pin \in KnownVersions THEN pin ELSE DefaultVersion

NextStep(v, step) ==
  IF step \notin StepSet(v) \/ Position(v, step) = Len(Flat(v)) THEN NoStep
  ELSE LET next == Flat(v)[Position(v, step) + 1]
       IN  [state |-> StateOf(v, next), step |-> next]

IsKnownLocation(v, at) == at.step \in ToSet(StepsByState(v)[at.state])

Locations(v) == {[state |-> StateOf(v, s), step |-> s] : s \in StepSet(v)}

\* Mutated form: any step of the target will do.
MissingCursorIdAnywhere(v, at) == at.step \notin StepSet(v)

\* Is the step of the cursor a step of the cursor's state in the target?
MissingCursorId(v, at) == ~IsKnownLocation(v, at)

ValidateUpgrade(pin, target, at) ==
  IF target \notin KnownVersions THEN "unknown"
  ELSE IF target = pin THEN "noop"
  ELSE IF ~AtLeast(target, pin) THEN "downgrade"
  ELSE IF MissingCursorId(target, at) THEN "cursor_missing"
  ELSE "proceed"

---------------------------------------------------------------------------
(* Property                                                                *)

\* An upgrade that is let through keeps the project where it is: the cursor
\* is a location of the new profile, every step the old profile had behind it
\* is behind it and no step of the old profile that was still to come is
\* (upgrade.ts:79-85, "steps added before it are treated as already passed"),
\* the workflow goes on to a step that was not passed before, and, from 0.3.0
\* on, the documents behind it are where the new profile looks for them.
UpgradeKeepsThePlace(pin, target, at) ==
  ValidateUpgrade(pin, target, at) = "proceed" =>
    LET old  == ResolveProfile(pin)
    IN  /\ IsKnownLocation(target, at)
        /\ Before(target, at.step) \cap StepSet(old) = Before(old, at.step)
        /\ NextStep(target, at.step).step \notin Before(old, at.step)
        /\ AtLeast(old, Version(3)) =>
             \A s \in Before(old, at.step) :
               ArtifactPath(target, s) = ArtifactPath(old, s)
=============================================================================
