------------------------------- MODULE Gates -------------------------------
(* The gate of a step and `ocn check`: which guards a step is put through,   *)
(* in which order, what each refuses with, and what each leaves on disk.     *)
(*                                                                           *)
(* The facts of a project are what its guards tell apart:                    *)
(*   document   the step's document: absent, short of a section, or complete *)
(*   backbone   what the engine parses out of it: defective, empty or sound  *)
(*   writable   whether the projections can be written                       *)
(*   outcomes   whether docs/03 declares outcome criteria nobody waived      *)
(*   waiver     the project's waiver of outcomes: none, void or valid        *)
(*   ledger     the outcome ledger, as SHIP and REFLECT find it              *)
(*   references what the evolution report says of the ledger                 *)
(*   contract   the opted-in contract and what the scan shows of it          *)
(*   rule, world  a readiness rule and what it is judged in                  *)
EXTENDS ReadinessRules

FactSets ==
  [document   |-> {"absent", "short", "complete"},
   backbone   |-> {"defective", "empty", "sound"},
   writable   |-> BOOLEAN,
   outcomes   |-> BOOLEAN,
   waiver     |-> {"none", "void", "valid"},
   ledger     |-> {"missing", "no_audit", "breached", "unmeasured", "failed", "settled"},
   references |-> {"malformed", "foreign", "wrong_value", "partial", "complete"},
   contract   |-> {"off", "undeclared", "unscannable", "no_frontend", "drift", "clean"}]

\* A guard goes on or refuses with a code; either way it may have written.
GoOn(writes)         == [code |-> "OK", writes |-> writes]
Refuse(code, writes) == [code |-> code, writes |-> writes]

Failed    == "ERR_GATE_FAILED"
Invalid   == "ERR_ARTIFACT_INVALID"
IoFailed  == "ERR_IO_OR_CONFIG"
BadState  == "ERR_STATE_MACHINE"

---------------------------------------------------------------------------
(* The guards of the document                                              *)

DocumentGuard(v, at, facts, code) ==
  IF facts.document = "absent" THEN Refuse(code, {})
  ELSE IF facts.document = "short" /\ RequiredSections(v, at.step) # {}
  THEN Refuse(code, {})
  ELSE GoOn({})

\* Mutated form: a projection that cannot be written is let go.
ProjectBestEffort(facts, writes) == GoOn(IF facts.writable THEN writes ELSE {})

\* Persist what the document says, or refuse.
Project(facts, writes) ==
  IF facts.writable THEN GoOn(writes) ELSE Refuse(IoFailed, {})

\* 0.9.0 asks for an outcome criterion or a waiver with a decision behind it.
OutcomeSpecGuard(facts, writes) ==
  IF (facts.outcomes /\ facts.waiver = "none") \/ (~facts.outcomes /\ facts.waiver = "valid")
  THEN GoOn(writes) ELSE Refuse(Failed, writes)

\* The contracts are frozen when the projection carries outcome criteria, and
\* before the requirement that there be some is looked at.
AcceptanceGuard(v, at, facts) ==
  LET projected == Project(facts, {"acceptance_specs"} \cup
                     IF facts.outcomes /\ RequiresOutcome(v) THEN {"outcome_ledger"} ELSE {})
  IN  IF "acceptance_specs" \notin MachineSections(v, at.step) THEN GoOn({})
      ELSE IF facts.backbone # "sound" THEN Refuse(Invalid, {})
      ELSE IF projected.code # "OK" \/ ~RequiresOutcome(v) THEN projected
      ELSE OutcomeSpecGuard(facts, projected.writes)

LogicGuard(at, facts) ==
  IF at.step # "logic_backbone" THEN GoOn({})
  ELSE IF facts.backbone = "defective" THEN Refuse(Invalid, {})
  ELSE Project(facts, {"logic_graph"})

\* A plan without tasks will do when an outcome probe stands for them.
EmptyPlanAllowed(v, facts) == RequiresOutcome(v) /\ facts.outcomes

TaskGuard(v, at, facts) ==
  IF "task_specs" \notin MachineSections(v, at.step) THEN GoOn({})
  ELSE IF facts.backbone = "defective" THEN Refuse(Invalid, {})
  ELSE IF facts.backbone = "empty" /\ ~EmptyPlanAllowed(v, facts) THEN Refuse(Invalid, {})
  ELSE Project(facts, {"task_ledger"})

ReflectGuard(v, at, facts) ==
  IF at.step # "evolution_report" \/ ~RequiresOutcome(v) \/ ~facts.outcomes THEN GoOn({})
  ELSE IF facts.ledger = "missing" THEN Refuse(Invalid, {})
  ELSE IF facts.references = "malformed" THEN Refuse(Invalid, {})
  ELSE IF facts.references # "complete" THEN Refuse(Failed, {})
  ELSE GoOn({})

---------------------------------------------------------------------------
(* The guards every step is put through                                    *)

ReadinessGuard(v, at, facts, executeCommands) ==
  IF ~HasReadiness(v) THEN GoOn({})
  ELSE IF NotDue(v, facts.rule, at.step) THEN GoOn({"readiness_ledger"})
  ELSE IF Lets(facts.rule, facts.world, executeCommands) THEN GoOn({"readiness_ledger"})
  ELSE Refuse(Failed, {"readiness_ledger"})

Unscanned(facts) == Refuse(Failed, {})

ContractGuard(at, facts, executeScan) ==
  IF at.state \notin {"build", "verify"} \/ facts.contract = "off" THEN GoOn({})
  ELSE IF facts.contract = "undeclared" THEN Refuse(Invalid, {})
  ELSE IF ~executeScan THEN Unscanned(facts)
  ELSE IF facts.contract = "unscannable" THEN Refuse(IoFailed, {})
  ELSE IF facts.contract = "no_frontend" THEN GoOn({})
  ELSE IF ~facts.writable THEN Refuse(IoFailed, {})
  ELSE IF facts.contract = "drift" THEN Refuse(Failed, {"contract_graph"})
  ELSE GoOn({"contract_graph"})

ShipGuard(v, at, facts) ==
  IF at.state # "ship" \/ ~RequiresOutcome(v) THEN GoOn({})
  ELSE IF facts.ledger = "missing" THEN (IF facts.outcomes THEN Refuse(Invalid, {}) ELSE GoOn({}))
  ELSE IF facts.ledger = "no_audit" THEN Refuse(IoFailed, {})
  ELSE IF facts.ledger = "breached" THEN Refuse(Invalid, {})
  ELSE IF facts.ledger = "settled" THEN GoOn({})
  ELSE Refuse(Failed, {})

---------------------------------------------------------------------------
(* The gate and the check                                                  *)

\* The first guard that refuses decides; what was written up to it stays.
InTurn(guards) ==
  LET refusing == SelectInSeq(guards, LAMBDA g : g.code # "OK")
      reached  == IF refusing = 0 THEN guards ELSE SubSeq(guards, 1, refusing)
  IN  [code   |-> IF refusing = 0 THEN "OK" ELSE guards[refusing].code,
       writes |-> UNION {g.writes : g \in ToSet(reached)}]

RunGate(v, at, facts, executeCommands) ==
  LET readiness == ReadinessGuard(v, at, facts, executeCommands)
      contract  == ContractGuard(at, facts, executeCommands)
  IN  IF ArtifactPath(v, at.step) = NoDocument
      THEN InTurn(<<readiness, contract, ShipGuard(v, at, facts)>>)
      ELSE InTurn(<<DocumentGuard(v, at, facts, Failed),
                    AcceptanceGuard(v, at, facts), LogicGuard(at, facts),
                    TaskGuard(v, at, facts), ReflectGuard(v, at, facts),
                    readiness, contract>>)

CheckCurrentArtifact(v, at, facts) ==
  LET readiness == ReadinessGuard(v, at, facts, TRUE)
      contract  == ContractGuard(at, facts, TRUE)
  IN  IF at.step \notin StepSet(v) THEN Refuse(BadState, {})
      ELSE IF ArtifactPath(v, at.step) = NoDocument THEN InTurn(<<readiness, contract>>)
      ELSE InTurn(<<DocumentGuard(v, at, facts, Invalid), readiness, contract>>)

Passes(answer) == answer.code = "OK"

---------------------------------------------------------------------------
(* Properties                                                              *)

\* No caller is told "pass" where another would be stopped: what an agent's
\* read-only gate passes, the gate of `advance` passes, and what that passes,
\* `ocn check` does not refuse (check.ts:168-170, 202-206, "so the two paths
\* cannot drift"; contract-drift-gate.ts:130-132).
PassesAgree(v, at, facts) ==
  /\ Passes(RunGate(v, at, facts, FALSE)) => Passes(RunGate(v, at, facts, TRUE))
  /\ Passes(RunGate(v, at, facts, TRUE)) => Passes(CheckCurrentArtifact(v, at, facts))

\* What a step asks its document to say in a form the engine parses is what
\* later steps read from a projection.
ProjectionsOf(v, at, facts) ==
     {p \in {"acceptance_specs"} : p \in MachineSections(v, at.step)}
  \cup {p \in {"outcome_ledger"} : /\ "acceptance_specs" \in MachineSections(v, at.step)
                                   /\ RequiresOutcome(v) /\ facts.outcomes}
  \cup {p \in {"task_ledger"} : "task_specs" \in MachineSections(v, at.step)}
  \cup {p \in {"logic_graph"} : at.step = "logic_backbone"}
  \cup {p \in {"contract_graph"} : at.state \in {"build", "verify"} /\ facts.contract = "clean"}

\* A gate that passes has left the projections of its document up to date, and
\* a gate that its document stops has left none.
PassedIsProjected(v, at, facts) ==
  LET answer == RunGate(v, at, facts, TRUE)
  IN  /\ Passes(answer) => ProjectionsOf(v, at, facts) \subseteq answer.writes
      /\ facts.document = "absent" /\ ArtifactPath(v, at.step) # NoDocument =>
           answer.writes = {}
=============================================================================
