--------------------------- MODULE DecisionProofs ---------------------------
(* Proofs about the engine's decisions.  A run asks them over bounded inputs; *)
(* the facts here are about every input: about the operators themselves, and *)
(* from them about the questions of MCDecisions.                             *)
EXTENDS MCDecisions, FiniteSetTheorems, SequenceTheorems, TLAPS

---------------------------------------------------------------------------
(* Natural numbers and recursive functions                                 *)

LEMMA LeastNatural ==
  ASSUME NEW I \in SUBSET Nat, I # {}
  PROVE  \E i \in I : \A j \in I : i <= j
<1> DEFINE R == {p \in Nat \X Nat : p[1] < p[2]}
<1>1. IsWellFoundedOn(R, Nat)
  BY NatLessThanWellFounded DEF OpToRel
<1>2. \A j, i \in Nat : j < i => <<j, i>> \in R
  OBVIOUS
<1> HIDE DEF R
<1>3. PICK i \in I : \A j \in I : <<j, i>> \notin R
  BY <1>1, WFMin
<1>4. ASSUME NEW j \in I PROVE i <= j
  <2>1. i \in Nat /\ j \in Nat
    OBVIOUS
  <2>2. ~(j < i)
    BY <2>1, <1>2, <1>3
  <2> QED BY <2>1, <2>2
<1> QED BY <1>4

\* Counting up to n stays in a set that it cannot leave.
LEMMA CountingUp ==
  ASSUME NEW n \in Nat, NEW P, 0 \in P, \A k \in 0 .. n - 1 : k \in P => k + 1 \in P
  PROVE  \A k \in 0 .. n : k \in P
<1> DEFINE I == {k \in 0 .. n : k \notin P}
<1> SUFFICES ASSUME I # {} PROVE FALSE
  OBVIOUS
<1>1. PICK k \in I : \A j \in I : k <= j
  <2>1. I \in SUBSET Nat
    OBVIOUS
  <2> HIDE DEF I
  <2> QED BY <2>1, LeastNatural
<1>2. k # 0 /\ k - 1 \in 0 .. n - 1 /\ k - 1 \notin I
  BY <1>1
<1> QED BY <1>2

LEMMA LeastIsMin ==
  ASSUME NEW I \in SUBSET Nat, I # {}
  PROVE  Min(I) \in I /\ \A j \in I : Min(I) <= j
BY LeastNatural DEF Min

\* A function that says how its value at i comes from the one at i - 1 exists.
Recursion(n, V, base, step) ==
  \E f \in [0 .. n -> V] : f[0] = base /\ \A i \in 1 .. n : f[i] = step[<<i, f[i - 1]>>]

LEMMA RecursionExists ==
  ASSUME NEW n \in Nat, NEW V, NEW base \in V, NEW step \in [(1 .. n) \X V -> V]
  PROVE  Recursion(n, V, base, step)
<1> DEFINE Upto(k) == \E f \in [0 .. k -> V] :
             f[0] = base /\ \A i \in 1 .. k : f[i] = step[<<i, f[i - 1]>>]
           P == {k \in 0 .. n : Upto(k)}
<1>1. 0 \in P
  <2> DEFINE f == [i \in 0 .. 0 |-> base]
  <2>1. f \in [0 .. 0 -> V] /\ f[0] = base /\ 1 .. 0 = {}
    OBVIOUS
  <2> HIDE DEF f
  <2>2. Upto(0)
    BY <2>1
  <2> QED BY <2>2
<1>2. ASSUME NEW k \in 0 .. n - 1, k \in P PROVE k + 1 \in P
  <2>1. PICK f \in [0 .. k -> V] :
          f[0] = base /\ \A i \in 1 .. k : f[i] = step[<<i, f[i - 1]>>]
    BY <1>2
  <2> DEFINE g == [i \in 0 .. k + 1 |-> IF i = k + 1 THEN step[<<k + 1, f[k]>>] ELSE f[i]]
  <2>2. k \in Nat /\ k + 1 \in 1 .. n /\ f[k] \in V
    OBVIOUS
  <2>3. step[<<k + 1, f[k]>>] \in V
    BY <2>2
  <2>4. g \in [0 .. k + 1 -> V]
    BY <2>3
  <2>5. \A i \in 0 .. k : g[i] = f[i]
    BY <2>2
  <2>6. g[k + 1] = step[<<k + 1, f[k]>>]
    BY <2>2
  <2> HIDE DEF g
  <2>7. ASSUME NEW i \in 1 .. k + 1 PROVE g[i] = step[<<i, g[i - 1]>>]
    <3>1. i - 1 \in 0 .. k /\ g[i - 1] = f[i - 1]
      BY <2>2, <2>5
    <3>2. CASE i = k + 1
      <4>1. i - 1 = k
        BY <3>2, <2>2
      <4> QED BY <3>1, <3>2, <4>1, <2>6
    <3>3. CASE i # k + 1
      <4>1. i \in 1 .. k /\ g[i] = f[i]
        BY <3>3, <2>2, <2>5
      <4> QED BY <3>1, <4>1, <2>1
    <3> QED BY <3>2, <3>3
  <2>8. Upto(k + 1)
    BY <2>1, <2>2, <2>4, <2>5, <2>7
  <2> QED BY <2>2, <2>8
<1>3. n \in P
  <2> HIDE DEF P
  <2> QED BY <1>1, <1>2, CountingUp
<1> QED BY <1>3 DEF Recursion

---------------------------------------------------------------------------
(* The gate and the check                                                  *)

\* Guards in turn pass when every one of them does, and then all have written.
LEMMA InTurnPasses ==
  ASSUME NEW S, NEW gs \in Seq(S)
  PROVE  /\ InTurn(gs).code = "OK" <=> \A i \in DOMAIN gs : gs[i].code = "OK"
         /\ InTurn(gs).code = "OK" =>
              \A i \in DOMAIN gs : gs[i].writes \subseteq InTurn(gs).writes
<1> DEFINE I == {i \in 1 .. Len(gs) : gs[i].code # "OK"}
           k == SelectInSeq(gs, LAMBDA g : g.code # "OK")
<1>1. CASE I = {}
  <2>1. k = 0
    BY <1>1 DEF SelectInSeq
  <2>2. InTurn(gs) = [code |-> "OK", writes |-> UNION {g.writes : g \in ToSet(gs)}]
    BY <2>1 DEF InTurn
  <2> QED BY <1>1, <2>2 DEF ToSet
<1>2. CASE I # {}
  <2>1. k = Min(I)
    BY <1>2 DEF SelectInSeq
  <2>2. I \in SUBSET Nat
    OBVIOUS
  <2> HIDE DEF I
  <2>3. Min(I) \in I
    BY <1>2, <2>2, LeastIsMin
  <2>4. InTurn(gs).code = gs[k].code
    BY <2>1, <2>3, <2>2 DEF InTurn, I
  <2> QED BY <2>1, <2>3, <2>4 DEF I
<1> QED BY <1>1, <1>2

\* When the first guard refuses, no other has a say.
LEMMA InTurnStops ==
  ASSUME NEW S, NEW gs \in Seq(S), gs # <<>>, gs[1].code # "OK"
  PROVE  InTurn(gs).code # "OK" /\ InTurn(gs).writes = gs[1].writes
<1> DEFINE I == {i \in 1 .. Len(gs) : gs[i].code # "OK"}
           k == SelectInSeq(gs, LAMBDA g : g.code # "OK")
<1>1. 1 \in I /\ I \in SUBSET Nat /\ 0 \notin I
  OBVIOUS
<1>2. k = Min(I)
  BY <1>1 DEF SelectInSeq
<1> HIDE DEF I
<1>3. Min(I) \in I /\ Min(I) <= 1
  BY <1>1, LeastIsMin
<1>4. k = 1
  BY <1>1, <1>2, <1>3
<1>5. Len(gs) \in Nat /\ Len(gs) >= 1
  OBVIOUS
<1>6. ToSet(SubSeq(gs, 1, 1)) = {gs[1]}
  BY <1>5 DEF ToSet
<1>7. /\ InTurn(gs).code = gs[k].code
      /\ InTurn(gs).writes = UNION {g.writes : g \in ToSet(SubSeq(gs, 1, k))}
  BY <1>4 DEF InTurn
<1> QED BY <1>4, <1>6, <1>7

\* A probe that was not run never passes a rule that it would fail if it were:
\* a field that a read-only evaluation has a verdict on gets the same one.
LEMMA UnrunIsUnknown ==
  ASSUME NEW rule, NEW c, NEW w, NEW unrun \in BOOLEAN, NEW run \in BOOLEAN, ~unrun,
         EvalField(rule, c, w, unrun) # "unknown"
  PROVE  EvalField(rule, c, w, unrun) = EvalField(rule, c, w, run)
<1>1. AcTraceField(w, unrun) = "unknown"
  <2>1. TraceScenarios(w, unrun) = "unknown"
    BY DEF TraceScenarios
  <2> QED BY <2>1 DEF AcTraceField
<1>2. RepoField(c[1], w, unrun) = "unknown"
      \/ RepoField(c[1], w, unrun) = RepoField(c[1], w, run)
  BY DEF RepoField
<1>3. c[1] \notin AcTraceFields
  BY <1>1 DEF EvalField, OnlyRepo
<1>4. CASE c[1] \in DerivedFields
  BY <1>3, <1>4 DEF EvalField, OnlyRepo
<1>5. CASE c[1] \notin DerivedFields /\ c[1] \in Facts(rule)
  BY <1>2, <1>3, <1>5 DEF EvalField, OnlyRepo
<1>6. CASE c[1] \notin DerivedFields /\ c[1] \notin Facts(rule)
  BY <1>3, <1>6 DEF EvalField, OnlyRepo
<1> QED BY <1>4, <1>5, <1>6

LEMMA ReadOnlyLets ==
  ASSUME NEW rule, NEW w, Lets(rule, w, FALSE)
  PROVE  Lets(rule, w, TRUE)
<1> DEFINE verdicts(execute) == {EvalField(rule, c, w, execute) : c \in rule.check}
           verdict(execute)  == Aggregate(verdicts(execute))
<1>1. CASE verdict(FALSE) = "PASS"
  <2>1. "fail" \notin verdicts(FALSE) /\ "unknown" \notin verdicts(FALSE)
    BY <1>1 DEF Aggregate
  <2>2. \A c \in rule.check : EvalField(rule, c, w, FALSE) = EvalField(rule, c, w, TRUE)
    BY <2>1, UnrunIsUnknown
  <2>3. verdicts(TRUE) = verdicts(FALSE)
    BY <2>2
  <2> QED BY <1>1, <2>3 DEF Lets, EvaluateRule
<1>2. CASE verdict(FALSE) # "PASS"
  <2>1. rule.severity = "warn" \/ WaiverApplies(rule, w)
    BY <1>2 DEF Lets, EvaluateRule, Aggregate
  <2> QED BY <2>1 DEF Lets, EvaluateRule
<1> QED BY <1>1, <1>2

\* What the guards that every step is put through let pass read-only they let
\* pass when they run the commands.
LEMMA ReadOnlyGuards ==
  ASSUME NEW v, NEW at, NEW facts
  PROVE  /\ ReadinessGuard(v, at, facts, FALSE).code = "OK" =>
              ReadinessGuard(v, at, facts, TRUE).code = "OK"
         /\ ContractGuard(at, facts, FALSE).code = "OK" =>
              ContractGuard(at, facts, TRUE).code = "OK"
<1>1. ReadinessGuard(v, at, facts, FALSE).code = "OK" =>
        ReadinessGuard(v, at, facts, TRUE).code = "OK"
  BY ReadOnlyLets DEF ReadinessGuard, GoOn, Refuse, Failed
<1>2. ContractGuard(at, facts, FALSE).code = "OK" =>
        ContractGuard(at, facts, TRUE).code = "OK"
  BY DEF ContractGuard, GoOn, Refuse, Failed, Invalid, IoFailed, Unscanned
<1> QED BY <1>1, <1>2

LEMMA TwoInTurn ==
  ASSUME NEW a, NEW b
  PROVE  InTurn(<<a, b>>).code = "OK" <=> a.code = "OK" /\ b.code = "OK"
<1> DEFINE gs == <<a, b>>
<1>1. gs \in Seq({a, b}) /\ DOMAIN gs = {1, 2} /\ gs[1] = a /\ gs[2] = b
  OBVIOUS
<1> HIDE DEF gs
<1>2. InTurn(gs).code = "OK" <=> \A i \in DOMAIN gs : gs[i].code = "OK"
  BY <1>1, InTurnPasses
<1>3. InTurn(gs).code = "OK" <=> a.code = "OK" /\ b.code = "OK"
  BY <1>1, <1>2
<1> QED BY <1>3 DEF gs

LEMMA ThreeInTurn ==
  ASSUME NEW a, NEW b, NEW c
  PROVE  InTurn(<<a, b, c>>).code = "OK" <=> a.code = "OK" /\ b.code = "OK" /\ c.code = "OK"
<1> DEFINE gs == <<a, b, c>>
<1>1. /\ gs \in Seq({a, b, c}) /\ DOMAIN gs = {1, 2, 3}
      /\ gs[1] = a /\ gs[2] = b /\ gs[3] = c
  OBVIOUS
<1> HIDE DEF gs
<1>2. InTurn(gs).code = "OK" <=> \A i \in DOMAIN gs : gs[i].code = "OK"
  BY <1>1, InTurnPasses
<1>3. InTurn(gs).code = "OK" <=> a.code = "OK" /\ b.code = "OK" /\ c.code = "OK"
  BY <1>1, <1>2
<1> QED BY <1>3 DEF gs

LEMMA ThreeWrite ==
  ASSUME NEW a, NEW b, NEW c, InTurn(<<a, b, c>>).code = "OK", NEW g \in {a, b, c}
  PROVE  g.writes \subseteq InTurn(<<a, b, c>>).writes
<1> DEFINE gs == <<a, b, c>>
<1>1. gs \in Seq({a, b, c}) /\ \E i \in DOMAIN gs : gs[i] = g
  OBVIOUS
<1>2. InTurn(gs).code = "OK"
  OBVIOUS
<1> HIDE DEF gs
<1>3. g.writes \subseteq InTurn(gs).writes
  BY <1>1, <1>2, InTurnPasses
<1> QED BY <1>3 DEF gs

LEMMA SevenInTurn ==
  ASSUME NEW a, NEW b, NEW c, NEW d, NEW e, NEW f, NEW g
  PROVE  LET answer == InTurn(<<a, b, c, d, e, f, g>>)
         IN  /\ answer.code = "OK" <=>
                  \A x \in {a, b, c, d, e, f, g} : x.code = "OK"
             /\ answer.code = "OK" =>
                  \A x \in {a, b, c, d, e, f, g} : x.writes \subseteq answer.writes
             /\ a.code # "OK" => answer.writes = a.writes
<1> DEFINE gs == <<a, b, c, d, e, f, g>>
           S  == {a, b, c, d, e, f, g}
<1>1. /\ gs \in Seq(S) /\ DOMAIN gs = 1 .. 7 /\ gs # <<>>
      /\ gs[1] = a /\ gs[2] = b /\ gs[3] = c /\ gs[4] = d
      /\ gs[5] = e /\ gs[6] = f /\ gs[7] = g
  OBVIOUS
<1>2. \A x \in S : \E i \in DOMAIN gs : gs[i] = x
  BY <1>1
<1>3. \A i \in DOMAIN gs : gs[i] \in S
  BY <1>1
<1> HIDE DEF gs, S
<1>4. /\ InTurn(gs).code = "OK" <=> \A i \in DOMAIN gs : gs[i].code = "OK"
      /\ InTurn(gs).code = "OK" =>
           \A i \in DOMAIN gs : gs[i].writes \subseteq InTurn(gs).writes
  BY <1>1, InTurnPasses
<1>5. gs[1].code # "OK" => InTurn(gs).writes = gs[1].writes
  BY <1>1, InTurnStops
<1>6. InTurn(gs).code = "OK" <=> \A x \in S : x.code = "OK"
  BY <1>2, <1>3, <1>4
<1>7. InTurn(gs).code = "OK" => \A x \in S : x.writes \subseteq InTurn(gs).writes
  BY <1>2, <1>4
<1>8. a.code # "OK" => InTurn(gs).writes = a.writes
  BY <1>1, <1>5
<1> QED BY <1>6, <1>7, <1>8 DEF gs, S

\* What a read-only gate passes the gate of `advance` passes, and what that
\* passes the check passes, for whatever step of whatever version.
LEMMA EveryPassAgrees ==
  ASSUME NEW v, NEW at, NEW facts, at.step \in StepSet(v)
  PROVE  PassesAgree(v, at, facts)
<1> DEFINE readiness(run) == ReadinessGuard(v, at, facts, run)
           contract(run)  == ContractGuard(at, facts, run)
           document(code) == DocumentGuard(v, at, facts, code)
           bare           == ArtifactPath(v, at.step) = NoDocument
           rest           == {AcceptanceGuard(v, at, facts), LogicGuard(at, facts),
                              TaskGuard(v, at, facts), ReflectGuard(v, at, facts)}
<1>1. /\ readiness(FALSE).code = "OK" => readiness(TRUE).code = "OK"
      /\ contract(FALSE).code = "OK" => contract(TRUE).code = "OK"
  BY ReadOnlyGuards
<1>2. document(Failed).code = "OK" => document(Invalid).code = "OK"
  BY DEF DocumentGuard, GoOn, Refuse, Failed, Invalid
<1>3. ASSUME NEW run, bare
      PROVE  Passes(RunGate(v, at, facts, run)) <=>
               /\ readiness(run).code = "OK" /\ contract(run).code = "OK"
               /\ ShipGuard(v, at, facts).code = "OK"
  <2>1. RunGate(v, at, facts, run) =
          InTurn(<<readiness(run), contract(run), ShipGuard(v, at, facts)>>)
    BY <1>3 DEF RunGate
  <2> QED BY <2>1, ThreeInTurn DEF Passes
<1>4. ASSUME NEW run, ~bare
      PROVE  Passes(RunGate(v, at, facts, run)) <=>
               /\ document(Failed).code = "OK" /\ \A g \in rest : g.code = "OK"
               /\ readiness(run).code = "OK" /\ contract(run).code = "OK"
  <2>1. RunGate(v, at, facts, run) =
          InTurn(<<document(Failed), AcceptanceGuard(v, at, facts), LogicGuard(at, facts),
                   TaskGuard(v, at, facts), ReflectGuard(v, at, facts),
                   readiness(run), contract(run)>>)
    BY <1>4 DEF RunGate
  <2> QED BY <2>1, SevenInTurn DEF Passes
<1>5. CASE bare
  <2>1. CheckCurrentArtifact(v, at, facts) = InTurn(<<readiness(TRUE), contract(TRUE)>>)
    BY <1>5 DEF CheckCurrentArtifact
  <2>2. Passes(CheckCurrentArtifact(v, at, facts)) <=>
          readiness(TRUE).code = "OK" /\ contract(TRUE).code = "OK"
    BY <2>1, TwoInTurn, ZenonT(60) DEF Passes
  <2> QED BY <1>1, <1>3, <1>5, <2>2 DEF PassesAgree
<1>6. CASE ~bare
  <2>1. CheckCurrentArtifact(v, at, facts) =
          InTurn(<<document(Invalid), readiness(TRUE), contract(TRUE)>>)
    BY <1>6 DEF CheckCurrentArtifact
  <2>2. Passes(CheckCurrentArtifact(v, at, facts)) <=>
          /\ document(Invalid).code = "OK"
          /\ readiness(TRUE).code = "OK" /\ contract(TRUE).code = "OK"
    <3>1. ASSUME NEW d, NEW r, NEW c, CheckCurrentArtifact(v, at, facts) = InTurn(<<d, r, c>>)
          PROVE  Passes(CheckCurrentArtifact(v, at, facts)) <=>
                   d.code = "OK" /\ r.code = "OK" /\ c.code = "OK"
      BY <3>1, ThreeInTurn DEF Passes
    <3> HIDE DEF document, readiness, contract
    <3> QED BY <2>1, <3>1
  <2> QED BY <1>1, <1>2, <1>4, <1>6, <2>2 DEF PassesAgree
<1> QED BY <1>5, <1>6

\* Each guard of a document that passes has written what it projects.
LEMMA GuardsProject ==
  ASSUME NEW v, NEW at, NEW facts
  PROVE  /\ AcceptanceGuard(v, at, facts).code = "OK"
            /\ "acceptance_specs" \in MachineSections(v, at.step) =>
              /\ "acceptance_specs" \in AcceptanceGuard(v, at, facts).writes
              /\ RequiresOutcome(v) /\ facts.outcomes =>
                   "outcome_ledger" \in AcceptanceGuard(v, at, facts).writes
         /\ LogicGuard(at, facts).code = "OK" /\ at.step = "logic_backbone" =>
              "logic_graph" \in LogicGuard(at, facts).writes
         /\ TaskGuard(v, at, facts).code = "OK"
            /\ "task_specs" \in MachineSections(v, at.step) =>
              "task_ledger" \in TaskGuard(v, at, facts).writes
         /\ ContractGuard(at, facts, TRUE).code = "OK"
            /\ at.state \in {"build", "verify"} /\ facts.contract = "clean" =>
              "contract_graph" \in ContractGuard(at, facts, TRUE).writes
<1>1. ASSUME AcceptanceGuard(v, at, facts).code = "OK",
             "acceptance_specs" \in MachineSections(v, at.step)
      PROVE  /\ "acceptance_specs" \in AcceptanceGuard(v, at, facts).writes
             /\ RequiresOutcome(v) /\ facts.outcomes =>
                  "outcome_ledger" \in AcceptanceGuard(v, at, facts).writes
  <2> DEFINE W == {"acceptance_specs"} \cup
                    IF facts.outcomes /\ RequiresOutcome(v) THEN {"outcome_ledger"} ELSE {}
  <2>1. W \subseteq AcceptanceGuard(v, at, facts).writes
    <3> HIDE DEF W
    <3> QED BY <1>1 DEF AcceptanceGuard, Project, OutcomeSpecGuard, GoOn, Refuse,
                        Invalid, IoFailed, Failed, W
  <2> QED BY <2>1
<1>2. LogicGuard(at, facts).code = "OK" /\ at.step = "logic_backbone" =>
        "logic_graph" \in LogicGuard(at, facts).writes
  BY DEF LogicGuard, Project, GoOn, Refuse, Invalid, IoFailed
<1>3. TaskGuard(v, at, facts).code = "OK" /\ "task_specs" \in MachineSections(v, at.step) =>
        "task_ledger" \in TaskGuard(v, at, facts).writes
  BY DEF TaskGuard, Project, GoOn, Refuse, Invalid, IoFailed
<1>4. ContractGuard(at, facts, TRUE).code = "OK"
      /\ at.state \in {"build", "verify"} /\ facts.contract = "clean" =>
        "contract_graph" \in ContractGuard(at, facts, TRUE).writes
  BY DEF ContractGuard, GoOn, Refuse, Invalid, IoFailed, Failed
<1> QED BY <1>1, <1>2, <1>3, <1>4

\* Only a step without a document asks it for nothing: the release.
LEMMA NoDocumentNoSections ==
  ASSUME NEW v, NEW step \in StepSet(v), ArtifactPath(v, step) = NoDocument
  PROVE  MachineSections(v, step) = {} /\ step # "logic_backbone"
BY DEF ArtifactPath, NoDocument, MachineSections

LEMMA EveryPassProjects ==
  ASSUME NEW v, NEW at, NEW facts, at.step \in StepSet(v)
  PROVE  PassedIsProjected(v, at, facts)
<1> DEFINE answer == RunGate(v, at, facts, TRUE)
<1>1. CASE ArtifactPath(v, at.step) = NoDocument
  <2>1. answer = InTurn(<<ReadinessGuard(v, at, facts, TRUE), ContractGuard(at, facts, TRUE),
                          ShipGuard(v, at, facts)>>)
    BY <1>1 DEF RunGate
  <2>2. Passes(answer) => /\ ContractGuard(at, facts, TRUE).code = "OK"
                          /\ ContractGuard(at, facts, TRUE).writes \subseteq answer.writes
    <3>1. ASSUME NEW r, NEW c, NEW s, answer = InTurn(<<r, c, s>>), Passes(answer)
          PROVE  c.code = "OK" /\ c.writes \subseteq answer.writes
      <4> HIDE DEF answer
      <4>1. InTurn(<<r, c, s>>).code = "OK"
        BY <3>1 DEF Passes
      <4> QED BY <3>1, <4>1, ThreeInTurn, ThreeWrite
    <3> QED BY <2>1, <3>1
  <2>3. MachineSections(v, at.step) = {} /\ at.step # "logic_backbone"
    BY <1>1, NoDocumentNoSections
  <2>4. Passes(answer) => ProjectionsOf(v, at, facts) \subseteq answer.writes
    BY <2>2, <2>3, GuardsProject DEF ProjectionsOf
  <2> QED BY <1>1, <2>4 DEF PassedIsProjected
<1>2. CASE ArtifactPath(v, at.step) # NoDocument
  <2> DEFINE document == DocumentGuard(v, at, facts, Failed)
             guards == {AcceptanceGuard(v, at, facts), LogicGuard(at, facts),
                        TaskGuard(v, at, facts), ContractGuard(at, facts, TRUE)}
  <2>1. answer = InTurn(<<document, AcceptanceGuard(v, at, facts), LogicGuard(at, facts),
                          TaskGuard(v, at, facts), ReflectGuard(v, at, facts),
                          ReadinessGuard(v, at, facts, TRUE), ContractGuard(at, facts, TRUE)>>)
    BY <1>2 DEF RunGate
  <2>2. /\ Passes(answer) => \A g \in guards : g.code = "OK" /\ g.writes \subseteq answer.writes
        /\ document.code # "OK" => answer.writes = document.writes
    <3>1. ASSUME NEW a, NEW b, NEW c, NEW d, NEW e, NEW f, NEW g,
                 answer = InTurn(<<a, b, c, d, e, f, g>>)
          PROVE  /\ Passes(answer) => \A x \in {b, c, d, g} :
                                        x.code = "OK" /\ x.writes \subseteq answer.writes
                 /\ a.code # "OK" => answer.writes = a.writes
      <4> DEFINE turn == InTurn(<<a, b, c, d, e, f, g>>)
             S == {a, b, c, d, e, f, g}
      <4>1. turn.code = "OK" => \A x \in S : x.code = "OK"
        BY SevenInTurn
      <4>2. turn.code = "OK" => \A x \in S : x.writes \subseteq turn.writes
        BY SevenInTurn
      <4>3. a.code # "OK" => turn.writes = a.writes
        BY SevenInTurn
      <4>4. {b, c, d, g} \subseteq S
        OBVIOUS
      <4> HIDE DEF answer, turn, S
      <4>5. answer = turn
        BY <3>1 DEF turn
      <4> QED BY <4>1, <4>2, <4>3, <4>4, <4>5 DEF Passes
    <3> QED BY <2>1, <3>1
  <2>3. Passes(answer) => ProjectionsOf(v, at, facts) \subseteq answer.writes
    BY <2>2, GuardsProject DEF ProjectionsOf
  <2>4. facts.document = "absent" => document.code # "OK" /\ document.writes = {}
    BY DEF DocumentGuard, Refuse, Failed
  <2> QED BY <1>2, <2>2, <2>3, <2>4 DEF PassedIsProjected
<1> QED BY <1>1, <1>2

---------------------------------------------------------------------------
(* The navigator                                                           *)

\* Checks that sum up to a success have all passed, those that have a name.
LEMMA SuccessIsPassed ==
  ASSUME NEW w, SummariseChecks(w) = "success"
  PROVE  /\ Listed(w) # {} /\ FailedCount(w) = 0
         /\ \A i \in Listed(w) : ClassifyCheck(w.checks[i]) = "passed"
<1>1. Listed(w) # {} /\ Checks(w, "failed") = {} /\ Checks(w, "pending") = {}
  BY DEF SummariseChecks
<1>2. \A c : ClassifyCheck(c) \in {"pending", "failed", "passed"}
  BY DEF ClassifyCheck
<1>3. FailedCount(w) = 0
  BY <1>1, FS_EmptySet DEF FailedCount
<1>4. \A i \in Listed(w) : ClassifyCheck(w.checks[i]) = "passed"
  BY <1>1, <1>2 DEF Checks
<1> QED BY <1>1, <1>3, <1>4

\* A flag that a draft of "merge" excludes says what it is raised for.
LEMMA FlagsRaised ==
  ASSUME NEW w
  PROVE  GitDirty(w) => "working-tree-dirty" \in RiskFlags(w)
BY DEF RiskFlags

LEMMA CoverageOf ==
  ASSUME NEW w, CoverageStatus(w) \in {"complete", "partial"}
  PROVE  /\ w.found /\ w.criteria # {} /\ Criteria(w) = w.criteria
         /\ \/ \E c \in w.criteria : MapOneCriterion(c, w) = "evidence-found"
            \/ \A c \in w.criteria : MapOneCriterion(c, w) # "missing-evidence"
         /\ CoverageStatus(w) = "complete" =>
              \A c \in w.criteria : MapOneCriterion(c, w) = "evidence-found"
<1>1. Criteria(w) # {}
  BY DEF CoverageStatus
<1>2. w.found /\ Criteria(w) = w.criteria
  BY <1>1 DEF Criteria
<1>3. CASE Mapped(w, "evidence-found") = Criteria(w)
  BY <1>1, <1>2, <1>3 DEF Mapped
<1>4. CASE Mapped(w, "evidence-found") # Criteria(w)
  <2>1. CoverageStatus(w) = "partial"
    BY <1>4 DEF CoverageStatus
  <2>2. Mapped(w, "evidence-found") # {} \/ Mapped(w, "missing-evidence") = {}
    BY <2>1, <1>4 DEF CoverageStatus
  <2> QED BY <1>1, <1>2, <2>1, <2>2 DEF Mapped
<1> QED BY <1>3, <1>4

LEMMA MergeNeeds ==
  ASSUME NEW w, DeriveCategory(w) = "ready-to-merge"
  PROVE  /\ ~RuleHold(w) /\ ~RuleRequestChanges(w) /\ ~RuleContinueWork(w)
         /\ RuleReadyToMerge(w)
BY DEF DeriveCategory

\* Nothing that would block is left when the draft says merge.
LEMMA MergeHasNoBlocks ==
  ASSUME NEW w, DeriveCategory(w) = "ready-to-merge"
  PROVE  Blocks(w) = {}
<1>1. /\ FetchGithub(w) /\ ~w.draft /\ w.merge = "CLEAN" /\ SummariseChecks(w) = "success"
      /\ ~ChangesRequested(w) /\ DeriveStatus(w) = "ready"
      /\ CoverageStatus(w) \in {"complete", "partial"}
      /\ "working-tree-dirty" \notin RiskFlags(w)
  BY MergeNeeds DEF RuleReadyToMerge, RuleReadyForReview
<1>2. ~GitDirty(w) /\ ~NeedsHumanReview(w) /\ w.found /\ ~(FailedCount(w) > 0)
  BY <1>1, MergeNeeds, FlagsRaised, CoverageOf, SuccessIsPassed DEF RuleHold
<1>3. ~GithubUnavailable(w) /\ w.number
  BY <1>1 DEF GithubUnavailable, FetchGithub, GithubRequested
<1>4. w.merge \notin Unclean
  BY <1>1 DEF Unclean
<1> QED BY <1>1, <1>2, <1>3, <1>4 DEF Blocks

\* A draft that says merge is backed by everything that was read, whatever that is.
LEMMA EveryMergeIsBacked ==
  ASSUME NEW w
  PROVE  MergeIsBacked(w)
<1> SUFFICES ASSUME DeriveCategory(w) = "ready-to-merge"
             PROVE  /\ FetchGithub(w) /\ w.state = "OPEN" /\ ~w.draft
                    /\ Listed(w) # {}
                    /\ \A i \in Listed(w) : ClassifyCheck(w.checks[i]) = "passed"
                    /\ "CHANGES_REQUESTED" \notin ToSet(w.reviews)
                    /\ w.git = "repo" /\ w.status => w.changed = {}
                    /\ w.criteria # {} /\ \A c \in w.criteria : ~c.manual
                    /\ \/ \E c \in w.criteria : MapOneCriterion(c, w) = "evidence-found"
                       \/ \A c \in w.criteria : MapOneCriterion(c, w) # "missing-evidence"
                    /\ Blocks(w) = {} /\ ~HumanReviewRequired(w)
                    /\ DeriveConfidence(w) = "high" =>
                         \A c \in w.criteria : MapOneCriterion(c, w) = "evidence-found"
  BY DEF MergeIsBacked
<1>1. /\ FetchGithub(w) /\ w.state = "OPEN" /\ ~w.draft /\ SummariseChecks(w) = "success"
      /\ ~ChangesRequested(w) /\ CoverageStatus(w) \in {"complete", "partial"}
      /\ "working-tree-dirty" \notin RiskFlags(w) /\ ~RuleHold(w)
  BY MergeNeeds DEF RuleReadyToMerge, RuleReadyForReview
<1>2. "CHANGES_REQUESTED" \notin ToSet(w.reviews)
  BY <1>1 DEF ChangesRequested
<1>3. w.git = "repo" /\ w.status => w.changed = {}
  BY <1>1, FlagsRaised DEF GitDirty, ReadLocalGit
<1>4. \A c \in w.criteria : ~c.manual
  <2>1. Mapped(w, "needs-human-review") = {} /\ Criteria(w) = w.criteria
    BY <1>1, CoverageOf DEF RuleHold, NeedsHumanReview
  <2> QED BY <2>1 DEF Mapped, MapOneCriterion
<1>5. ~HumanReviewRequired(w)
  BY DEF HumanReviewRequired
<1>6. DeriveConfidence(w) = "high" => CoverageStatus(w) = "complete"
  BY DEF DeriveConfidence
<1> QED BY <1>1, <1>2, <1>3, <1>4, <1>5, <1>6, CoverageOf, SuccessIsPassed, MergeHasNoBlocks

---------------------------------------------------------------------------
(* The prompt                                                              *)

\* A ledger as the gate writes it: the id of a task is not that of another,
\* and 0, which stands for no task, is not one.
LedgerTasks == [id : Nat \ {0}, status : {"pending", "done"}, depends : SUBSET Nat]

WellFormed(tasks) ==
  /\ tasks \in Seq(LedgerTasks)
  /\ \A i, j \in DOMAIN tasks : tasks[i].id = tasks[j].id => i = j

LEMMA SameIdSameTask ==
  ASSUME NEW tasks, WellFormed(tasks),
         NEW t \in ToSet(tasks), NEW u \in ToSet(tasks), t.id = u.id
  PROVE  t = u
BY DEF WellFormed, ToSet

LEMMA LedgerIdsFinite ==
  ASSUME NEW tasks, WellFormed(tasks)
  PROVE  IsFiniteSet({t.id : t \in ToSet(tasks)})
<1> DEFINE ids == {t.id : t \in ToSet(tasks)}
           n == Len(tasks)
           f == [i \in 1 .. n |-> tasks[i].id]
<1>1. n \in Nat /\ DOMAIN tasks = 1 .. n
  BY DEF WellFormed
<1>2. f \in Surjection(1 .. n, ids)
  BY <1>1 DEF Surjection, ToSet
<1>3. IsFiniteSet(1 .. n)
  BY <1>1, FS_Interval
<1> QED BY <1>2, <1>3, FS_Surjection

\* The first ready task is a task that is ready, and is found when there is one.
LEMMA FirstReady ==
  ASSUME NEW tasks, WellFormed(tasks)
  PROVE  LET ready == SelectInSeq(tasks, LAMBDA t : t \in Pending(tasks) /\ IsReady(tasks, t))
         IN  /\ ready # 0 => tasks[ready] \in Pending(tasks) /\ IsReady(tasks, tasks[ready])
             /\ ready = 0 => \A t \in Pending(tasks) : ~IsReady(tasks, t)
<1> DEFINE I == {i \in 1 .. Len(tasks) : tasks[i] \in Pending(tasks) /\ IsReady(tasks, tasks[i])}
           ready == SelectInSeq(tasks, LAMBDA t : t \in Pending(tasks) /\ IsReady(tasks, t))
<1>1. ready = IF I # {} THEN Min(I) ELSE 0
  BY DEF SelectInSeq
<1>2. I \in SUBSET Nat /\ 0 \notin I
  OBVIOUS
<1>3. CASE I = {}
  <2>1. \A t \in Pending(tasks) : \E i \in 1 .. Len(tasks) : tasks[i] = t
    BY DEF Pending, ToSet, WellFormed
  <2> QED BY <1>1, <1>3, <2>1
<1>4. CASE I # {}
  <2> HIDE DEF I
  <2>1. Min(I) \in I
    BY <1>2, <1>4, LeastIsMin
  <2>2. ready \in I
    BY <1>1, <1>4, <2>1
  <2>3. tasks[ready] \in Pending(tasks) /\ IsReady(tasks, tasks[ready]) /\ ready # 0
    BY <2>2, <1>2 DEF I
  <2> QED BY <2>3
<1> QED BY <1>3, <1>4

\* A sound ledger with something to build has something ready to build: a
\* pending task of the least rank waits for nothing.
LEMMA SoundHasReady ==
  ASSUME NEW tasks, WellFormed(tasks), Sound(tasks), Pending(tasks) # {}
  PROVE  \E t \in Pending(tasks) : IsReady(tasks, t)
<1> DEFINE ids == {t.id : t \in ToSet(tasks)}
<1>1. PICK rank \in [ids -> 1 .. Cardinality(ids)] :
        \A t \in ToSet(tasks) : \A d \in t.depends : d \in ids /\ rank[d] < rank[t.id]
  BY DEF Sound
<1> DEFINE I == {rank[t.id] : t \in Pending(tasks)}
<1>2. I \in SUBSET Nat /\ I # {}
  <2>1. \A t \in Pending(tasks) : t.id \in ids
    BY DEF Pending
  <2>2. Cardinality(ids) \in Nat
    BY LedgerIdsFinite, FS_CardinalityType
  <2>3. \A id \in ids : rank[id] \in Nat
    <3> HIDE DEF ids
    <3> QED BY <1>1, <2>2
  <2> QED BY <2>1, <2>3
<1>3. PICK r \in I : \A s \in I : r <= s
  BY <1>2, LeastNatural
<1>4. PICK t \in Pending(tasks) : rank[t.id] = r
  BY <1>3
<1>5. ASSUME NEW d \in t.depends PROVE d \in Done(tasks)
  <2>1. d \in ids /\ rank[d] < r
    BY <1>1, <1>4 DEF Pending
  <2>2. PICK u \in ToSet(tasks) : u.id = d
    BY <2>1
  <2>3. u.status \in {"pending", "done"}
    <3>1. u \in LedgerTasks
      BY DEF WellFormed, ToSet
    <3> QED BY <3>1 DEF LedgerTasks
  <2>4. CASE u.status = "pending"
    <3>1. rank[d] \in I
      BY <2>2, <2>4 DEF Pending
    <3>2. r \in Nat /\ rank[d] \in Nat /\ r <= rank[d]
      BY <1>2, <1>3, <3>1
    <3> QED BY <2>1, <3>2
  <2>5. CASE u.status = "done"
    BY <2>2, <2>5 DEF Done
  <2> QED BY <2>3, <2>4, <2>5
<1>6. IsReady(tasks, t)
  BY <1>5 DEF IsReady
<1> QED BY <1>4, <1>6

LEMMA DispatchIsReady ==
  ASSUME NEW p, WellFormed(p.tasks)
  PROVE  LET dispatch == ResolveTaskDispatch(p)
         IN  \/ /\ dispatch.kind = "task" /\ ProjectRead(p) /\ p.state = "build"
                /\ \E t \in Pending(p.tasks) : IsReady(p.tasks, t) /\ dispatch.id = t.id
             \/ /\ dispatch.kind # "task" /\ dispatch.id = 0
                /\ ProjectRead(p) /\ p.state = "build" => ~HasReadyBuildTask(p.tasks)
<1>1. CASE ~ProjectRead(p) \/ p.state # "build" \/ Pending(TasksRead(p)) = {}
  <2>1. ResolveTaskDispatch(p) = NoDispatch
    BY <1>1 DEF ResolveTaskDispatch
  <2>2. ProjectRead(p) => TasksRead(p) = p.tasks
    BY DEF ProjectRead, TasksRead
  <2> QED BY <1>1, <2>1, <2>2 DEF NoDispatch, HasReadyBuildTask
<1>2. CASE ProjectRead(p) /\ p.state = "build" /\ Pending(TasksRead(p)) # {}
  <2> DEFINE tasks == p.tasks
             ready == SelectInSeq(tasks, LAMBDA t : t \in Pending(tasks) /\ IsReady(tasks, t))
  <2>1. TasksRead(p) = tasks
    BY <1>2 DEF ProjectRead, TasksRead
  <2>2. ResolveTaskDispatch(p) = IF ready # 0 THEN [kind |-> "task", id |-> tasks[ready].id]
                                 ELSE [kind |-> "all_blocked", id |-> 0]
    BY <1>2, <2>1 DEF ResolveTaskDispatch
  <2>3. /\ ready # 0 => tasks[ready] \in Pending(tasks) /\ IsReady(tasks, tasks[ready])
        /\ ready = 0 => \A t \in Pending(tasks) : ~IsReady(tasks, t)
    BY FirstReady
  <2> HIDE DEF ready
  <2> QED BY <1>2, <2>2, <2>3 DEF HasReadyBuildTask
<1> QED BY <1>1, <1>2

\* The prompt leads on for every well-formed ledger of tasks and any outcomes.
LEMMA EveryPromptLeadsOn ==
  ASSUME NEW p, WellFormed(p.tasks)
  PROVE  PromptLeadsOn(p)
<1> DEFINE prompt   == AssemblePrompt(p)
           dispatch == ResolveTaskDispatch(p)
           tasks    == {t \in ToSet(p.tasks) : t.id = prompt.task}
           debts    == {e \in p.outcomes : /\ ~e.waived /\ DueReached(p.state, e.due)
                                           /\ e.latest \in {"UNMEASURED", "NO_EVIDENCE"}}
           working  == p.project = "read" /\ p.state = "build"
           Leads == /\ tasks # {} => prompt.outcomes = {}
                    /\ prompt.allowed = "task" => tasks # {}
                    /\ \A t \in tasks : t.status = "pending" /\ t.depends \subseteq Done(p.tasks)
                    /\ working /\ Sound(p.tasks) /\ Pending(p.tasks) # {} => tasks # {}
                    /\ p.project = "read" /\ RequiresOutcome(p.pin) /\ tasks = {} =>
                         {e.id : e \in debts} \subseteq prompt.outcomes
<1>1. \A t \in ToSet(p.tasks) : t.id # 0
  <2>1. \A t \in ToSet(p.tasks) : t \in LedgerTasks
    BY DEF WellFormed, ToSet
  <2> QED BY <2>1 DEF LedgerTasks
<1>2. CASE p.project = "stopped"
  <2>1. prompt = [objective |-> "none", allowed |-> "anything", task |-> 0, outcomes |-> {}]
    BY <1>2 DEF AssemblePrompt
  <2>2. prompt.allowed = "anything" /\ prompt.task = 0 /\ prompt.outcomes = {}
    BY <2>1
  <2> HIDE DEF prompt
  <2>3. tasks = {}
    BY <1>1, <2>2
  <2>4. Leads
    BY <1>2, <2>2, <2>3
  <2> QED BY <2>4 DEF PromptLeadsOn, prompt
<1>3. CASE p.project # "stopped"
  <2>1. /\ prompt.allowed = AllowedWork(p) /\ prompt.task = dispatch.id
        /\ prompt.outcomes = ResolveOutcomeDispatch(p)
    BY <1>3 DEF AssemblePrompt
  <2>2. CASE dispatch.kind = "task"
    <3>1. PICK t \in Pending(p.tasks) : IsReady(p.tasks, t) /\ dispatch.id = t.id
      BY <2>2, DispatchIsReady
    <3>2. ProjectRead(p) /\ p.state = "build"
      BY <2>2, DispatchIsReady
    <3>3. t \in ToSet(p.tasks) /\ t.status = "pending"
      BY DEF Pending
    <3>4. tasks = {t}
      <4> HIDE DEF prompt, dispatch
      <4>1. \A u \in tasks : u = t
        BY <2>1, <3>1, <3>3, SameIdSameTask
      <4>2. t \in tasks
        BY <2>1, <3>1, <3>3
      <4> QED BY <4>1, <4>2
    <3>5. TasksRead(p) = p.tasks /\ HasReadyBuildTask(p.tasks)
      BY <3>1, <3>2 DEF TasksRead, ProjectRead, HasReadyBuildTask
    <3>6. prompt.outcomes = {}
      BY <2>1, <3>2, <3>5 DEF ResolveOutcomeDispatch
    <3>7. t.depends \subseteq Done(p.tasks)
      BY <3>1 DEF IsReady
    <3> HIDE DEF prompt, dispatch, tasks
    <3>8. Leads
      BY <3>3, <3>4, <3>6, <3>7
    <3> QED BY <3>8 DEF PromptLeadsOn, prompt, tasks
  <2>3. CASE dispatch.kind # "task"
    <3>1. /\ dispatch.id = 0
          /\ ProjectRead(p) /\ p.state = "build" => ~HasReadyBuildTask(p.tasks)
      BY <2>3, DispatchIsReady
    <3>2. tasks = {}
      <4> HIDE DEF prompt, dispatch
      <4> QED BY <1>1, <2>1, <3>1
    <3>3. prompt.allowed # "task"
      BY <2>1, <2>3 DEF AllowedWork
    <3>4. ~(working /\ Sound(p.tasks) /\ Pending(p.tasks) # {})
      BY <3>1, SoundHasReady DEF HasReadyBuildTask, ProjectRead
    <3>5. p.project = "read" /\ RequiresOutcome(p.pin) =>
            {e.id : e \in debts} \subseteq prompt.outcomes
      <4> SUFFICES ASSUME p.project = "read", RequiresOutcome(p.pin), NEW e \in debts
                   PROVE  e.id \in prompt.outcomes
        OBVIOUS
      <4>1. TasksRead(p) = p.tasks /\ ProjectRead(p)
        BY DEF TasksRead, ProjectRead
      <4>2. ClassifyEntry(e, p.state) = "blocking"
        BY DEF ClassifyEntry, BlocksAdvance
      <4> QED BY <2>1, <3>1, <4>1, <4>2 DEF ResolveOutcomeDispatch
    <3> HIDE DEF prompt, dispatch, tasks, debts
    <3>6. Leads
      BY <3>2, <3>3, <3>4, <3>5
    <3> QED BY <3>6 DEF PromptLeadsOn, prompt, tasks, debts
  <2> QED BY <2>2, <2>3
<1> QED BY <1>2, <1>3

---------------------------------------------------------------------------
(* Parts of sequences                                                      *)

\* A set of sequences with the empty one and, with each, every longer one.
LEMMA GrowingUp ==
  ASSUME NEW T, NEW P, <<>> \in P, \A s \in Seq(T), x \in T : s \in P => Append(s, x) \in P
  PROVE  Seq(T) \subseteq P
<1> DEFINE L == {n \in Nat : \A s \in Seq(T) : Len(s) = n => s \in P}
<1>1. 0 \in L
  OBVIOUS
<1>2. ASSUME NEW n \in Nat, n \in L PROVE n + 1 \in L
  <2> SUFFICES ASSUME NEW s \in Seq(T), Len(s) = n + 1 PROVE s \in P
    OBVIOUS
  <2>1. s # <<>>
    OBVIOUS
  <2>2. PICK t \in Seq(T), x \in T : s = Append(t, x)
    BY <2>1, SequenceEmptyOrAppend
  <2>3. Len(t) = n
    BY <2>2
  <2> QED BY <1>2, <2>2, <2>3
<1>3. ASSUME NEW n \in Nat PROVE n \in L
  <2> HIDE DEF L
  <2>1. \A k \in 0 .. n : k \in L
    BY <1>1, <1>2, CountingUp
  <2> QED BY <2>1
<1> QED BY <1>3

\* How the sequence of what is kept grows.
OnlySteps(seq, S, T, kept) ==
  /\ kept \in [0 .. Len(seq) -> Seq(T)] /\ kept[0] = <<>>
  /\ \A i \in 1 .. Len(seq) :
       kept[i] = IF seq[i] \in S THEN Append(kept[i - 1], seq[i]) ELSE kept[i - 1]

LEMMA OnlyExists ==
  ASSUME NEW T, NEW seq \in Seq(T), NEW S
  PROVE  \E kept : OnlySteps(seq, S, T, kept) /\ Only(seq, S) = kept[Len(seq)]
<1> DEFINE n == Len(seq)
           V == Seq(T)
           step == [p \in (1 .. n) \X V |->
                      IF seq[p[1]] \in S THEN Append(p[2], seq[p[1]]) ELSE p[2]]
           Is(f) == f = [i \in 0 .. n |->
                          IF i = 0 THEN <<>>
                          ELSE IF seq[i] \in S THEN Append(f[i - 1], seq[i]) ELSE f[i - 1]]
           kept == CHOOSE f : Is(f)
<1>1. n \in Nat /\ <<>> \in V /\ step \in [(1 .. n) \X V -> V]
  OBVIOUS
<1>2. \A i \in 1 .. n, v \in V : step[<<i, v>>] = IF seq[i] \in S THEN Append(v, seq[i]) ELSE v
  OBVIOUS
<1>3. \A i \in 1 .. n : i # 0 /\ i - 1 \in 0 .. n /\ i \in 0 .. n
  BY <1>1
<1>4. 0 \in 0 .. n /\ \A i \in 0 .. n : i # 0 => i \in 1 .. n
  BY <1>1
<1>5. \E f \in [0 .. n -> V] :
        f[0] = <<>> /\ \A i \in 1 .. n : f[i] = step[<<i, f[i - 1]>>]
  <2> DEFINE none == <<>>
  <2>1. n \in Nat /\ none \in V /\ step \in [(1 .. n) \X V -> V]
    BY <1>1
  <2> HIDE DEF step, V, n, none
  <2>2. Recursion(n, V, none, step)
    BY <2>1, RecursionExists
  <2> QED BY <2>2 DEF none, Recursion
<1> HIDE DEF step, n, V
<1>6. PICK f \in [0 .. n -> V] :
        f[0] = <<>> /\ \A i \in 1 .. n : f[i] = step[<<i, f[i - 1]>>]
  BY <1>5
<1>7. \A i \in 1 .. n : f[i] = IF seq[i] \in S THEN Append(f[i - 1], seq[i]) ELSE f[i - 1]
  BY <1>2, <1>3, <1>6
<1>8. f = [i \in 0 .. n |-> f[i]]
  BY <1>6
<1>9. Is(f)
  BY <1>4, <1>6, <1>7, <1>8
<1>10. Is(kept)
  BY <1>9
<1>11. Only(seq, S) = kept[n]
  BY DEF Only, n
<1> HIDE DEF kept
<1>12. kept[0] = <<>>
  BY <1>10, <1>4
<1>13. \A i \in 1 .. n : kept[i] =
         IF seq[i] \in S THEN Append(kept[i - 1], seq[i]) ELSE kept[i - 1]
  BY <1>10, <1>3
<1> DEFINE P == {i \in 0 .. n : kept[i] \in V}
<1>14. 0 \in P
  BY <1>1, <1>4, <1>12
<1>15. ASSUME NEW k \in 0 .. n - 1, k \in P PROVE k + 1 \in P
  <2>1. k + 1 \in 1 .. n /\ (k + 1) - 1 = k /\ k + 1 \in 0 .. n
    BY <1>1
  <2>2. kept[k + 1] = IF seq[k + 1] \in S THEN Append(kept[k], seq[k + 1]) ELSE kept[k]
    BY <1>13, <2>1
  <2>3. seq[k + 1] \in T
    BY <2>1 DEF n
  <2>4. kept[k] \in Seq(T)
    BY <1>15 DEF V
  <2>5. kept[k + 1] \in Seq(T)
    BY <2>2, <2>3, <2>4
  <2> QED BY <2>1, <2>5 DEF V
<1>16. \A k \in 0 .. n : k \in P
  <2> HIDE DEF P
  <2> QED BY <1>1, <1>14, <1>15, CountingUp
<1>17. kept = [i \in 0 .. n |-> kept[i]]
  BY <1>10
<1>18. kept \in [0 .. n -> Seq(T)]
  BY <1>16, <1>17 DEF V
<1>19. OnlySteps(seq, S, T, kept)
  BY <1>12, <1>13, <1>18 DEF OnlySteps, n
<1> QED BY <1>11, <1>19 DEF n

LEMMA OnlyOfNone ==
  ASSUME NEW S
  PROVE  Only(<<>>, S) = <<>>
<1> DEFINE none == <<>>
<1>1. none \in Seq({}) /\ Len(none) = 0
  OBVIOUS
<1> HIDE DEF none
<1>2. PICK kept : OnlySteps(none, S, {}, kept) /\ Only(none, S) = kept[Len(none)]
  BY <1>1, OnlyExists
<1>3. Only(none, S) = <<>>
  BY <1>1, <1>2 DEF OnlySteps
<1> QED BY <1>3 DEF none

\* What one more element adds.
LEMMA OnlyGrows ==
  ASSUME NEW T, NEW s \in Seq(T), NEW x \in T, NEW S
  PROVE  /\ Only(s, S) \in Seq(T)
         /\ Only(Append(s, x), S) = IF x \in S THEN Append(Only(s, S), x) ELSE Only(s, S)
<1> DEFINE n == Len(s)
           t == Append(s, x)
<1>1. n \in Nat /\ t \in Seq(T) /\ Len(t) = n + 1 /\ t[n + 1] = x
  OBVIOUS
<1>2. \A i \in 1 .. n : t[i] = s[i]
  OBVIOUS
<1> HIDE DEF t
<1>3. PICK k : OnlySteps(s, S, T, k) /\ Only(s, S) = k[n]
  BY OnlyExists
<1>4. PICK m : OnlySteps(t, S, T, m) /\ Only(t, S) = m[n + 1]
  BY <1>1, OnlyExists
<1> HIDE DEF n
<1> DEFINE P == {i \in 0 .. n : k[i] = m[i]}
<1>5. 0 \in P
  BY <1>1, <1>3, <1>4 DEF OnlySteps
<1>6. ASSUME NEW i \in 0 .. n - 1, i \in P PROVE i + 1 \in P
  <2>1. i + 1 \in 1 .. n /\ i + 1 \in 1 .. n + 1 /\ (i + 1) - 1 = i /\ i + 1 \in 0 .. n
    BY <1>1
  <2>2. k[i + 1] = IF s[i + 1] \in S THEN Append(k[i], s[i + 1]) ELSE k[i]
    BY <1>3, <2>1 DEF OnlySteps, n
  <2>3. m[i + 1] = IF t[i + 1] \in S THEN Append(m[i], t[i + 1]) ELSE m[i]
    BY <1>1, <1>4, <2>1 DEF OnlySteps
  <2>4. t[i + 1] = s[i + 1] /\ k[i] = m[i]
    BY <1>2, <1>6, <2>1
  <2>5. k[i + 1] = m[i + 1]
    BY <2>2, <2>3, <2>4
  <2> QED BY <2>1, <2>5
<1>7. \A i \in 0 .. n : i \in P
  <2> HIDE DEF P
  <2> QED BY <1>1, <1>5, <1>6, CountingUp
<1>8. k[n] = m[n]
  BY <1>1, <1>7
<1>9. n + 1 \in 1 .. n + 1 /\ (n + 1) - 1 = n
  BY <1>1
<1>10. m[n + 1] = IF t[n + 1] \in S THEN Append(m[n], t[n + 1]) ELSE m[n]
  BY <1>1, <1>4, <1>9 DEF OnlySteps
<1>11. k[n] \in Seq(T)
  BY <1>1, <1>3 DEF OnlySteps, n
<1>12. Only(t, S) = IF x \in S THEN Append(Only(s, S), x) ELSE Only(s, S)
  BY <1>1, <1>3, <1>4, <1>8, <1>10
<1>13. Only(s, S) \in Seq(T)
  BY <1>3, <1>11
<1> QED BY <1>12, <1>13 DEF t

LEMMA OnlyKeeps ==
  ASSUME NEW T, NEW s \in Seq(T), NEW x \in T, NEW S, x \in S
  PROVE  Only(Append(s, x), S) = Append(Only(s, S), x)
BY OnlyGrows

LEMMA OnlyDrops ==
  ASSUME NEW T, NEW s \in Seq(T), NEW x \in T, NEW S, x \notin S
  PROVE  Only(Append(s, x), S) = Only(s, S)
BY OnlyGrows

LEMMA OnlyTyped ==
  ASSUME NEW T, NEW s \in Seq(T), NEW S
  PROVE  Only(s, S) \in Seq(T)
<1>1. PICK kept : OnlySteps(s, S, T, kept) /\ Only(s, S) = kept[Len(s)]
  BY OnlyExists
<1> QED BY <1>1 DEF OnlySteps

LEMMA OnlyHasOnly ==
  ASSUME NEW T, NEW s \in Seq(T), NEW S
  PROVE  Only(s, S) \in Seq(T \cap S)
<1> DEFINE P == {u \in Seq(T) : Only(u, S) \in Seq(T \cap S)}
<1>1. <<>> \in P
  <2>1. Only(<<>>, S) = <<>>
    BY OnlyOfNone
  <2>2. \A U : <<>> \in Seq(U)
    OBVIOUS
  <2>3. Only(<<>>, S) \in Seq(T \cap S)
    BY <2>1, <2>2
  <2> QED BY <2>2, <2>3
<1>2. ASSUME NEW u \in Seq(T), NEW x \in T, u \in P PROVE Append(u, x) \in P
  <2>1. CASE x \in S
    <3>1. Only(Append(u, x), S) = Append(Only(u, S), x)
      BY <2>1, OnlyKeeps
    <3> QED BY <1>2, <2>1, <3>1
  <2>2. CASE x \notin S
    <3>1. Only(Append(u, x), S) = Only(u, S)
      BY <2>2, OnlyDrops
    <3> QED BY <1>2, <3>1
  <2> QED BY <2>1, <2>2
<1>3. Seq(T) \subseteq P
  <2> HIDE DEF P
  <2> QED BY <1>1, <1>2, GrowingUp
<1> QED BY <1>3

LEMMA OnlyKeepsAll ==
  ASSUME NEW S, NEW s \in Seq(S)
  PROVE  Only(s, S) = s
<1> DEFINE P == {u \in Seq(S) : Only(u, S) = u}
<1>1. <<>> \in P
  <2>1. Only(<<>>, S) = <<>>
    BY OnlyOfNone
  <2> QED BY <2>1
<1>2. ASSUME NEW u \in Seq(S), NEW x \in S, u \in P PROVE Append(u, x) \in P
  <2>1. Only(Append(u, x), S) = Append(Only(u, S), x)
    BY OnlyKeeps
  <2> QED BY <1>2, <2>1
<1>3. Seq(S) \subseteq P
  <2> HIDE DEF P
  <2> QED BY <1>1, <1>2, GrowingUp
<1> QED BY <1>3

LEMMA OnlyOfOnly ==
  ASSUME NEW T, NEW s \in Seq(T), NEW S, NEW R
  PROVE  Only(Only(s, S), R) = Only(s, S \cap R)
<1> DEFINE P == {u \in Seq(T) : Only(Only(u, S), R) = Only(u, S \cap R)}
<1>1. <<>> \in P
  <2>1. Only(<<>>, S) = <<>> /\ Only(<<>>, R) = <<>> /\ Only(<<>>, S \cap R) = <<>>
    BY OnlyOfNone
  <2> QED BY <2>1
<1>2. ASSUME NEW u \in Seq(T), NEW x \in T, u \in P PROVE Append(u, x) \in P
  <2>1. Only(u, S) \in Seq(T)
    BY OnlyTyped
  <2>2. Only(Only(u, S), R) = Only(u, S \cap R)
    BY <1>2
  <2> SUFFICES Only(Only(Append(u, x), S), R) = Only(Append(u, x), S \cap R)
    OBVIOUS
  <2>3. CASE x \in S /\ x \in R
    <3>1. Only(Append(u, x), S) = Append(Only(u, S), x)
      BY <2>3, OnlyKeeps
    <3>2. Only(Append(Only(u, S), x), R) = Append(Only(Only(u, S), R), x)
      BY <2>1, <2>3, OnlyKeeps
    <3>3. x \in S \cap R
      BY <2>3
    <3>4. Only(Append(u, x), S \cap R) = Append(Only(u, S \cap R), x)
      BY <3>3, OnlyKeeps
    <3> QED BY <2>2, <3>1, <3>2, <3>4
  <2>4. CASE x \in S /\ x \notin R
    <3>1. Only(Append(u, x), S) = Append(Only(u, S), x)
      BY <2>4, OnlyKeeps
    <3>2. Only(Append(Only(u, S), x), R) = Only(Only(u, S), R)
      BY <2>1, <2>4, OnlyDrops
    <3>3. x \notin S \cap R
      BY <2>4
    <3>4. Only(Append(u, x), S \cap R) = Only(u, S \cap R)
      BY <3>3, OnlyDrops
    <3> QED BY <2>2, <3>1, <3>2, <3>4
  <2>5. CASE x \notin S
    <3>1. Only(Append(u, x), S) = Only(u, S)
      BY <2>5, OnlyDrops
    <3>2. x \notin S \cap R
      BY <2>5
    <3>3. Only(Append(u, x), S \cap R) = Only(u, S \cap R)
      BY <3>2, OnlyDrops
    <3> QED BY <2>2, <3>1, <3>3
  <2> QED BY <2>3, <2>4, <2>5
<1>3. Seq(T) \subseteq P
  <2> HIDE DEF P
  <2> QED BY <1>1, <1>2, GrowingUp
<1> QED BY <1>3

---------------------------------------------------------------------------
(* Setup and teardown                                                      *)

Groups == SUBSET Commands

\* What the files can hold: what is absent or of another type has no parts.
Slots ==
  {s \in [form : SlotForms, groups : Seq(Groups)] : s.form # "array" => s.groups = <<>>}

HooksParts ==
  {h \in [form : PartForms, slots : [Events -> Slots], more : BOOLEAN] :
     h.form # "object" => h = [NoHooks EXCEPT !.form = h.form]}

EnvParts ==
  {e \in [form : PartForms, actor : {"none", "ai_agent", "user"}, more : BOOLEAN] :
     e.form # "object" => e = [NoEnv EXCEPT !.form = e.form]}

SettingsFiles ==
  {s \in [form : SettingsForms, hooks : HooksParts, env : EnvParts] :
     s.form # "object" => s.hooks = NoHooks /\ s.env = NoEnv}

Markdowns ==
  {m \in [form : {"absent", "text"}, lines : Seq(Lines)] : m.form = "absent" => m.lines = <<>>}

Wirings ==
  [settings : SettingsFiles, backup : SettingsFiles, ocnMd : {"absent", "stale", "current"},
   command : {"absent", "stale", "current"}, claudeMd : Markdowns]

LEMMA OcnGroups ==
  /\ {"ocn"} \in Groups /\ {"ocn"} \notin OwnGroups /\ ContainsOcnHook({"ocn"})
  /\ OwnGroups \subseteq Groups
  /\ \A g \in Groups : ContainsOcnHook(g) <=> g \notin OwnGroups
BY DEF Groups, OwnGroups, ContainsOcnHook, Commands

LEMMA NoOcnHook ==
  ASSUME NEW s \in Slots
  PROVE  ~HasOcnHook(s) <=> s.groups \in Seq(OwnGroups)
BY OcnGroups DEF HasOcnHook, Slots

LEMMA EnsuredSlot ==
  ASSUME NEW s \in Slots
  PROVE  /\ EnsureEventGroup(s) \in Slots
         /\ EnsureEventGroup(s).form = "array"
         /\ HasOcnHook(EnsureEventGroup(s))
         /\ Only(EnsureEventGroup(s).groups, OwnGroups) = Only(s.groups, OwnGroups)
<1>0. s.groups \in Seq(Groups) /\ s.form \in SlotForms
  BY DEF Slots
<1>1. CASE HasOcnHook(s)
  <2>1. EnsureEventGroup(s) = s
    BY <1>1 DEF EnsureEventGroup
  <2>2. s.form = "array"
    BY <1>1 DEF HasOcnHook, Slots
  <2> QED BY <1>1, <2>1, <2>2
<1>2. CASE ~HasOcnHook(s)
  <2> DEFINE g == Append(s.groups, {"ocn"})
             r == [form |-> "array", groups |-> g]
  <2>1. EnsureEventGroup(s) = r
    BY <1>2 DEF EnsureEventGroup
  <2>2. g \in Seq(Groups) /\ Len(g) = Len(s.groups) + 1 /\ g[Len(s.groups) + 1] = {"ocn"}
    BY <1>0, OcnGroups
  <2>3. r \in Slots
    BY <2>2 DEF Slots, SlotForms
  <2>4. HasOcnHook(r)
    <3> DEFINE i == Len(s.groups) + 1
    <3>1. i \in DOMAIN g /\ g[i] = {"ocn"}
      BY <1>0, <2>2
    <3>2. r.groups = g
      OBVIOUS
    <3> HIDE DEF i, g, r
    <3>3. i \in DOMAIN r.groups /\ ContainsOcnHook(r.groups[i])
      BY <3>1, <3>2, OcnGroups
    <3> QED BY <3>3 DEF HasOcnHook
  <2>5. Only(g, OwnGroups) = Only(s.groups, OwnGroups)
    BY <1>0, OcnGroups, OnlyDrops
  <2> QED BY <2>1, <2>3, <2>4, <2>5
<1> QED BY <1>1, <1>2

LEMMA StrippedSlot ==
  ASSUME NEW s \in Slots
  PROVE  /\ StripSlot(s) \in Slots
         /\ ~HasOcnHook(StripSlot(s))
         /\ StripSlot(StripSlot(s)) = StripSlot(s)
         /\ Only(StripSlot(s).groups, OwnGroups) = Only(s.groups, OwnGroups)
<1> DEFINE kept == Only(s.groups, OwnGroups)
<1>1. s.groups \in Seq(Groups) /\ s.form \in SlotForms
  BY DEF Slots
<1>2. kept \in Seq(Groups) /\ kept \in Seq(OwnGroups)
  <2>1. kept \in Seq(Groups \cap OwnGroups)
    BY <1>1, OnlyHasOnly
  <2>2. Groups \cap OwnGroups = OwnGroups
    BY OcnGroups
  <2> HIDE DEF kept
  <2> QED BY <2>1, <2>2, OcnGroups
<1>3. Only(kept, OwnGroups) = kept
  BY <1>2, OnlyKeepsAll
<1>4. Only(<<>>, OwnGroups) = <<>>
  BY OnlyOfNone
<1>5. CASE s.form # "array" \/ kept = s.groups
  <2>1. StripSlot(s) = s
    BY <1>5 DEF StripSlot
  <2>2. kept = s.groups
    BY <1>4, <1>5 DEF Slots
  <2>3. s.groups \in Seq(OwnGroups)
    BY <1>2, <2>2
  <2>4. ~HasOcnHook(s)
    BY <2>3, NoOcnHook
  <2> QED BY <2>1, <2>4
<1>6. CASE ~(s.form # "array" \/ kept = s.groups) /\ kept = <<>>
  <2>1. StripSlot(s) = NoSlot
    BY <1>6 DEF StripSlot
  <2>2. NoSlot \in Slots /\ NoSlot.groups = <<>> /\ NoSlot.form = "absent"
    BY DEF NoSlot, Slots, SlotForms
  <2>3. ~HasOcnHook(NoSlot)
    BY <2>2 DEF HasOcnHook
  <2>4. StripSlot(NoSlot) = NoSlot
    BY <2>2 DEF StripSlot
  <2>5. Only(NoSlot.groups, OwnGroups) = kept
    BY <1>4, <1>6, <2>2
  <2> QED BY <2>1, <2>2, <2>3, <2>4, <2>5
<1>7. CASE ~(s.form # "array" \/ kept = s.groups) /\ kept # <<>>
  <2> DEFINE r == [s EXCEPT !.groups = kept]
  <2>1. StripSlot(s) = r
    BY <1>7 DEF StripSlot
  <2>2. r.groups = kept /\ r.form = "array" /\ r \in Slots
    BY <1>2, <1>7 DEF Slots
  <2>3. ~HasOcnHook(r)
    BY <1>2, <2>2, NoOcnHook
  <2>4. StripSlot(r) = r
    BY <1>3, <2>2 DEF StripSlot
  <2> QED BY <1>3, <2>1, <2>2, <2>3, <2>4
<1> QED BY <1>5, <1>6, <1>7

\* The parts of settings that are read as JSON objects.
Mergeable(s) == s \in SettingsFiles /\ ~Malformed(s)

MergedHooks(h) ==
  [form |-> "object", slots |-> [e \in Events |-> EnsureEventGroup(h.slots[e])], more |-> h.more]

LEMMA HooksRewritten ==
  ASSUME NEW h \in [form : PartForms, slots : [Events -> Slots], more : BOOLEAN], NEW f, NEW s
  PROVE  [h EXCEPT !.form = f, !.slots = s] = [form |-> f, slots |-> s, more |-> h.more]
<1> DEFINE g == [h EXCEPT !.form = f]
<1>1. g = [form |-> f, slots |-> h.slots, more |-> h.more]
  OBVIOUS
<1>2. [g EXCEPT !.slots = s] = [form |-> f, slots |-> s, more |-> h.more]
  <2> HIDE DEF g
  <2> QED BY <1>1
<1> QED BY <1>2, Zenon

LEMMA FileRewritten ==
  ASSUME NEW s \in [form : SettingsForms, hooks : HooksParts, env : EnvParts], NEW h, NEW v
  PROVE  [s EXCEPT !.hooks = h, !.env = v] = [form |-> s.form, hooks |-> h, env |-> v]
<1> DEFINE g == [s EXCEPT !.hooks = h]
<1>1. g = [form |-> s.form, hooks |-> h, env |-> s.env]
  OBVIOUS
<1>2. [g EXCEPT !.env = v] = [form |-> s.form, hooks |-> h, env |-> v]
  <2> HIDE DEF g
  <2> QED BY <1>1
<1> QED BY <1>2, Zenon

LEMMA MergedSettings ==
  ASSUME NEW s \in SettingsFiles
  PROVE  MergeClaudeSettings(s) =
           [form |-> "object", hooks |-> MergedHooks(s.hooks), env |-> EnsureActorEnv(s.env)]
<1> DEFINE slots == [e \in Events |-> EnsureEventGroup(s.hooks.slots[e])]
<1>1. s.hooks \in [form : PartForms, slots : [Events -> Slots], more : BOOLEAN]
  BY DEF SettingsFiles, HooksParts
<1>2. [s.hooks EXCEPT !.form = "object", !.slots = slots]
        = [form |-> "object", slots |-> slots, more |-> s.hooks.more]
  <2> HIDE DEF slots
  <2> QED BY <1>1, HooksRewritten
<1>3. MergeClaudeSettings(s) =
        [form |-> "object", hooks |-> [s.hooks EXCEPT !.form = "object", !.slots = slots],
         env |-> EnsureActorEnv(s.env)]
  BY DEF MergeClaudeSettings
<1> QED BY <1>2, <1>3 DEF MergedHooks

LEMMA MergedHooksKept ==
  ASSUME NEW h \in HooksParts
  PROVE  /\ MergedHooks(h) \in HooksParts
         /\ MergedHooks(h).form = "object"
         /\ \A e \in Events : HasOcnHook(MergedHooks(h).slots[e])
         /\ MergedHooks(MergedHooks(h)) = MergedHooks(h)
         /\ \A e \in Events : MergedHooks(h).slots[e].form = "array"
         /\ \A e \in Events : Only(MergedHooks(h).slots[e].groups, OwnGroups)
                                = Only(h.slots[e].groups, OwnGroups)
<1> DEFINE slots == [e \in Events |-> EnsureEventGroup(h.slots[e])]
<1>1. h.slots \in [Events -> Slots] /\ h.more \in BOOLEAN
  BY DEF HooksParts
<1>2. ASSUME NEW e \in Events
      PROVE  /\ slots[e] \in Slots /\ HasOcnHook(slots[e]) /\ slots[e].form = "array"
             /\ Only(slots[e].groups, OwnGroups) = Only(h.slots[e].groups, OwnGroups)
  <2>1. h.slots[e] \in Slots /\ slots[e] = EnsureEventGroup(h.slots[e])
    BY <1>1
  <2> HIDE DEF slots
  <2> QED BY <2>1, EnsuredSlot
<1>3. slots \in [Events -> Slots]
  BY <1>2
<1>4. MergedHooks(h) = [form |-> "object", slots |-> slots, more |-> h.more]
  BY DEF MergedHooks
<1> HIDE DEF slots
<1>5. MergedHooks(h) \in HooksParts
  BY <1>1, <1>3, <1>4 DEF HooksParts, PartForms
<1>6. [e \in Events |-> EnsureEventGroup(slots[e])] = slots
  BY <1>2, <1>3 DEF EnsureEventGroup
<1>7. MergedHooks(MergedHooks(h)) = MergedHooks(h)
  BY <1>4, <1>6 DEF MergedHooks
<1> QED BY <1>2, <1>4, <1>5, <1>7

LEMMA EnsuredEnv ==
  ASSUME NEW e \in EnvParts
  PROVE  /\ EnsureActorEnv(e) \in EnvParts
         /\ EnsureActorEnv(e).form = "object"
         /\ EnsureActorEnv(e).actor # "none"
         /\ EnsureActorEnv(EnsureActorEnv(e)) = EnsureActorEnv(e)
         /\ EnsureActorEnv(e).more = e.more
         /\ EnsureActorEnv(e).actor = "user" <=> e.actor = "user"
BY DEF EnsureActorEnv, EnvParts, PartForms, NoEnv

LEMMA StrippedEnv ==
  ASSUME NEW e \in EnvParts
  PROVE  /\ StripEnv(e) \in EnvParts
         /\ StripEnv(e).actor # "ai_agent"
         /\ StripEnv(StripEnv(e)) = StripEnv(e)
         /\ StripEnv(e).more = e.more
         /\ StripEnv(e).actor = "user" <=> e.actor = "user"
BY DEF StripEnv, EnvParts, PartForms, NoEnv

LEMMA MergedFile ==
  ASSUME NEW s \in SettingsFiles
  PROVE  /\ MergeClaudeSettings(s) \in SettingsFiles
         /\ ~Malformed(MergeClaudeSettings(s))
         /\ MergeClaudeSettings(MergeClaudeSettings(s)) = MergeClaudeSettings(s)
         /\ \A e \in Events : HasOcnHook(MergeClaudeSettings(s).hooks.slots[e])
         /\ MergeClaudeSettings(s).env.actor # "none"
         /\ \A e \in Events : Only(MergeClaudeSettings(s).hooks.slots[e].groups, OwnGroups)
                                = Only(s.hooks.slots[e].groups, OwnGroups)
         /\ MergeClaudeSettings(s).env.actor = "user" <=> s.env.actor = "user"
         /\ MergeClaudeSettings(s).hooks.more = s.hooks.more
         /\ MergeClaudeSettings(s).env.more = s.env.more
<1> DEFINE h == MergedHooks(s.hooks)
           v == EnsureActorEnv(s.env)
           m == [form |-> "object", hooks |-> h, env |-> v]
<1>1. s.hooks \in HooksParts /\ s.env \in EnvParts
  BY DEF SettingsFiles
<1>2. /\ h \in HooksParts /\ h.form = "object" /\ MergedHooks(h) = h
      /\ \A e \in Events : HasOcnHook(h.slots[e]) /\ h.slots[e].form = "array"
      /\ \A e \in Events : Only(h.slots[e].groups, OwnGroups)
                             = Only(s.hooks.slots[e].groups, OwnGroups)
  BY <1>1, MergedHooksKept
<1>3. h.more = s.hooks.more
  BY DEF MergedHooks
<1>4. /\ v \in EnvParts /\ v.form = "object" /\ v.actor # "none" /\ EnsureActorEnv(v) = v
      /\ v.more = s.env.more /\ (v.actor = "user" <=> s.env.actor = "user")
  BY <1>1, EnsuredEnv
<1>5. MergeClaudeSettings(s) = m
  BY MergedSettings
<1> HIDE DEF h, v
<1>6. m \in SettingsFiles
  BY <1>2, <1>4 DEF SettingsFiles, SettingsForms
<1>7. ~Malformed(m)
  BY <1>2, <1>4 DEF Malformed
<1>8. MergeClaudeSettings(m) = m
  <2>1. m.hooks = h /\ m.env = v
    OBVIOUS
  <2> HIDE DEF m
  <2>2. MergeClaudeSettings(m) =
          [form |-> "object", hooks |-> MergedHooks(m.hooks), env |-> EnsureActorEnv(m.env)]
    BY <1>6, MergedSettings
  <2> QED BY <1>2, <1>4, <2>1, <2>2 DEF m
<1>9. m.hooks = h /\ m.env = v
  OBVIOUS
<1> HIDE DEF m
<1> QED BY <1>2, <1>3, <1>4, <1>5, <1>6, <1>7, <1>8, <1>9

LEMMA UnmergedFile ==
  ASSUME NEW s \in SettingsFiles
  PROVE  /\ UnmergeClaudeSettings(s) \in SettingsFiles
         /\ UnmergeClaudeSettings(UnmergeClaudeSettings(s)) = UnmergeClaudeSettings(s)
         /\ \A e \in Events : ~HasOcnHook(UnmergeClaudeSettings(s).hooks.slots[e])
         /\ UnmergeClaudeSettings(s).env.actor # "ai_agent"
         /\ \A e \in Events : Only(UnmergeClaudeSettings(s).hooks.slots[e].groups, OwnGroups)
                                = Only(s.hooks.slots[e].groups, OwnGroups)
         /\ UnmergeClaudeSettings(s).env.actor = "user" <=> s.env.actor = "user"
         /\ UnmergeClaudeSettings(s).hooks.more = s.hooks.more
         /\ UnmergeClaudeSettings(s).env.more = s.env.more
<1> DEFINE slots == [e \in Events |-> IF s.hooks.form = "object" THEN StripSlot(s.hooks.slots[e])
                                      ELSE s.hooks.slots[e]]
           h == [form |-> s.hooks.form, slots |-> slots, more |-> s.hooks.more]
           v == StripEnv(s.env)
           u == [form |-> s.form, hooks |-> PruneHooks(h), env |-> v]
<1>1. /\ s \in [form : SettingsForms, hooks : HooksParts, env : EnvParts]
      /\ s.hooks \in HooksParts /\ s.env \in EnvParts
      /\ s.hooks \in [form : PartForms, slots : [Events -> Slots], more : BOOLEAN]
      /\ s.form # "object" => s.hooks = NoHooks /\ s.env = NoEnv
  BY DEF SettingsFiles, HooksParts
<1>2. /\ v \in EnvParts /\ v.actor # "ai_agent" /\ StripEnv(v) = v
      /\ v.more = s.env.more /\ (v.actor = "user" <=> s.env.actor = "user")
  BY <1>1, StrippedEnv
<1>3. ASSUME NEW e \in Events
      PROVE  /\ slots[e] \in Slots /\ ~HasOcnHook(slots[e])
             /\ s.hooks.form = "object" => StripSlot(slots[e]) = slots[e]
             /\ Only(slots[e].groups, OwnGroups) = Only(s.hooks.slots[e].groups, OwnGroups)
  <2>1. s.hooks.slots[e] \in Slots
    BY <1>1
  <2>2. CASE s.hooks.form = "object"
    <3>1. slots[e] = StripSlot(s.hooks.slots[e])
      BY <2>2
    <3> HIDE DEF slots
    <3> QED BY <2>1, <3>1, StrippedSlot
  <2>3. CASE s.hooks.form # "object"
    <3>1. slots[e] = s.hooks.slots[e]
      BY <2>3
    <3>2. s.hooks = [NoHooks EXCEPT !.form = s.hooks.form]
      BY <1>1, <2>3 DEF HooksParts
    <3>3. s.hooks.slots[e].groups = <<>>
      BY <3>2 DEF NoHooks, NoSlot
    <3>4. ~HasOcnHook(slots[e])
      BY <3>1, <3>3 DEF HasOcnHook
    <3> QED BY <2>1, <2>3, <3>1, <3>4
  <2> QED BY <2>2, <2>3
<1>4. slots \in [Events -> Slots]
  BY <1>3
<1>5. UnmergeClaudeSettings(s) = IF s.form # "object" \/ (slots = s.hooks.slots /\ v = s.env)
                                 THEN s ELSE u
  <2>1. [s.hooks EXCEPT !.slots = slots] = h
    <3> HIDE DEF slots
    <3> QED BY <1>1
  <2>2. [s EXCEPT !.hooks = PruneHooks([@ EXCEPT !.slots = slots]), !.env = v]
          = [form |-> s.form, hooks |-> PruneHooks([s.hooks EXCEPT !.slots = slots]), env |-> v]
    <3> DEFINE p == PruneHooks([s.hooks EXCEPT !.slots = slots])
    <3> SUFFICES [s EXCEPT !.hooks = p, !.env = v]
                   = [form |-> s.form, hooks |-> p, env |-> v]
      OBVIOUS
    <3> HIDE DEF slots, v, p
    <3> QED BY <1>1, FileRewritten
  <2>3. UnmergeClaudeSettings(s) =
          IF s.form # "object" \/ (slots = s.hooks.slots /\ v = s.env) THEN s
          ELSE [s EXCEPT !.hooks = PruneHooks([@ EXCEPT !.slots = slots]), !.env = v]
    BY DEF UnmergeClaudeSettings
  <2> HIDE DEF slots, v, h
  <2> QED BY <2>1, <2>2, <2>3
<1>6. h \in HooksParts /\ PruneHooks(h) \in {h, NoHooks}
  <2>1. s.hooks.form # "object" => h = s.hooks
    <3>1. ASSUME s.hooks.form # "object" PROVE slots = s.hooks.slots
      BY <1>1, <3>1
    <3>2. s.hooks = [form |-> s.hooks.form, slots |-> s.hooks.slots, more |-> s.hooks.more]
      BY <1>1
    <3> HIDE DEF slots
    <3> QED BY <3>1, <3>2
  <2>2. h \in [form : PartForms, slots : [Events -> Slots], more : BOOLEAN]
    <3> HIDE DEF slots
    <3> QED BY <1>1, <1>4
  <2>3. h.form = s.hooks.form
    OBVIOUS
  <2> HIDE DEF h
  <2> QED BY <1>1, <2>1, <2>2, <2>3 DEF PruneHooks, HooksParts
<1>7. h.slots = slots /\ h.form = s.hooks.form /\ h.more = s.hooks.more
  OBVIOUS
<1>0. s.form # "object" => slots = s.hooks.slots /\ v = s.env
  <2>1. \A x : x \in [Events -> Slots] => [e \in Events |-> x[e]] = x
    OBVIOUS
  <2>2. ASSUME s.form # "object" PROVE slots = s.hooks.slots
    <3>1. s.hooks.form # "object"
      BY <1>1, <2>2 DEF NoHooks
    <3> QED BY <1>1, <2>1, <3>1
  <2>3. ASSUME s.form # "object" PROVE v = s.env
    <3>1. s.env.form # "object"
      BY <1>1, <2>3 DEF NoEnv
    <3> QED BY <3>1 DEF StripEnv
  <2> QED BY <2>2, <2>3
<1> HIDE DEF slots, h, v
<1>8. /\ PruneHooks(h) \in HooksParts
      /\ PruneHooks(h).more = s.hooks.more
      /\ \A e \in Events : /\ ~HasOcnHook(PruneHooks(h).slots[e])
                           /\ Only(PruneHooks(h).slots[e].groups, OwnGroups)
                                = Only(s.hooks.slots[e].groups, OwnGroups)
  <2>1. CASE PruneHooks(h) = h
    BY <1>3, <1>6, <1>7, <2>1
  <2>2. CASE PruneHooks(h) # h
    <3>1. PruneHooks(h) = NoHooks /\ ~h.more /\ \A e \in Events : h.slots[e].form = "absent"
      BY <2>2 DEF PruneHooks
    <3>2. NoHooks \in HooksParts /\ NoHooks.more = FALSE
      BY DEF NoHooks, HooksParts, PartForms, Slots, SlotForms, NoSlot
    <3>3. \A e \in Events : NoHooks.slots[e].groups = <<>>
      BY DEF NoHooks, NoSlot
    <3>4. \A e \in Events : slots[e].groups = <<>>
      BY <1>4, <1>7, <3>1 DEF Slots
    <3>5. \A e \in Events : ~HasOcnHook(NoHooks.slots[e])
      BY <3>3 DEF HasOcnHook
    <3>6. ~s.hooks.more /\ s.hooks.more \in BOOLEAN
      BY <1>1, <1>7, <3>1
    <3> QED BY <1>3, <3>1, <3>2, <3>3, <3>4, <3>5, <3>6
  <2> QED BY <2>1, <2>2
<1>9. CASE s.form # "object" \/ (slots = s.hooks.slots /\ v = s.env)
  <2>1. UnmergeClaudeSettings(s) = s
    BY <1>5, <1>9
  <2>2. v = s.env /\ slots = s.hooks.slots
    BY <1>0, <1>9
  <2> QED BY <1>2, <1>3, <2>1, <2>2
<1>10. CASE ~(s.form # "object" \/ (slots = s.hooks.slots /\ v = s.env))
  <2>1. UnmergeClaudeSettings(s) = u
    BY <1>5, <1>10
  <2>2. u \in SettingsFiles /\ u.hooks = PruneHooks(h) /\ u.env = v /\ u.form = "object"
    BY <1>1, <1>2, <1>8, <1>10 DEF SettingsFiles
  <2> HIDE DEF u
  <2> DEFINE again == [e \in Events |-> IF u.hooks.form = "object" THEN StripSlot(u.hooks.slots[e])
                                        ELSE u.hooks.slots[e]]
  <2>3. u.hooks.slots \in [Events -> Slots]
    BY <1>8, <2>2 DEF HooksParts
  <2>4. ASSUME NEW e \in Events PROVE again[e] = u.hooks.slots[e]
    <3>1. CASE u.hooks.form = "object"
      <4>1. u.hooks = h
        BY <1>6, <2>2, <3>1 DEF NoHooks
      <4> QED BY <1>3, <1>7, <3>1, <4>1
    <3>2. CASE u.hooks.form # "object"
      BY <3>2
    <3> QED BY <3>1, <3>2
  <2>5. again = u.hooks.slots
    <3>1. again = [e \in Events |-> again[e]]
      OBVIOUS
    <3> HIDE DEF again
    <3> QED BY <2>3, <2>4, <3>1
  <2>6. StripEnv(u.env) = u.env
    BY <1>2, <2>2
  <2>7. UnmergeClaudeSettings(u) = u
    BY <2>5, <2>6 DEF UnmergeClaudeSettings
  <2> QED BY <1>2, <1>8, <2>1, <2>2, <2>7
<1> QED BY <1>9, <1>10

LEMMA EnsuredImport ==
  ASSUME NEW m \in Markdowns
  PROVE  /\ EnsureClaudeMdImport(m) \in Markdowns
         /\ "import" \in ToSet(EnsureClaudeMdImport(m).lines)
         /\ EnsureClaudeMdImport(EnsureClaudeMdImport(m)) = EnsureClaudeMdImport(m)
         /\ Only(EnsureClaudeMdImport(m).lines, {"own"}) = Only(m.lines, {"own"})
<1> DEFINE own == {"own"}
           marker == "marker"
           import == "import"
           title == "title"
           added(l) == Append(Append(l, marker), import)
           none == <<>>
<1>1. /\ marker \in Lines /\ marker \notin own /\ import \in Lines /\ import \notin own
      /\ title \in Lines /\ title \notin own /\ none \in Seq(Lines)
  BY DEF Lines
<1>2. m.lines \in Seq(Lines) /\ m.form \in {"absent", "text"}
      /\ (m.form = "absent" => m.lines = none)
      /\ m = [form |-> m.form, lines |-> m.lines]
  BY DEF Markdowns
<1>3. <<title, marker, import>> = added(Append(none, title))
  OBVIOUS
<1>4. \A l \in Seq(Lines) : l \o <<marker, import>> = added(l)
  OBVIOUS
<1>5. ASSUME NEW l \in Seq(Lines)
      PROVE  /\ added(l) \in Seq(Lines) /\ import \in ToSet(added(l))
             /\ Only(added(l), own) = Only(l, own)
  <2>1. Append(l, marker) \in Seq(Lines) /\ added(l) \in Seq(Lines)
    BY <1>1
  <2>2. Only(Append(l, marker), own) = Only(l, own)
    <3> HIDE DEF own, marker
    <3> QED BY <1>1, OnlyDrops
  <2>3. Only(added(l), own) = Only(Append(l, marker), own)
    <3> DEFINE k == Append(l, marker)
    <3>1. k \in Seq(Lines)
      BY <2>1
    <3> SUFFICES Only(Append(k, import), own) = Only(k, own)
      OBVIOUS
    <3> HIDE DEF own, marker, import, k
    <3> QED BY <1>1, <3>1, OnlyDrops
  <2>4. import \in ToSet(added(l))
    <3>1. Len(added(l)) \in DOMAIN added(l) /\ added(l)[Len(added(l))] = import
      OBVIOUS
    <3> QED BY <3>1 DEF ToSet
  <2> QED BY <2>1, <2>2, <2>3, <2>4
<1>6. Only(Append(none, title), own) = Only(none, own) /\ Append(none, title) \in Seq(Lines)
  <2>1. Append(none, title) \in Seq(Lines)
    BY <1>1
  <2> HIDE DEF own, title, none
  <2> QED BY <1>1, <2>1, OnlyDrops
<1> HIDE DEF own, marker, import, title, none, added
<1>7. PICK k \in Seq(Lines) :
        /\ EnsureClaudeMdImport(m) = [form |-> "text", lines |-> k]
        /\ import \in ToSet(k) /\ Only(k, own) = Only(m.lines, own)
  <2>1. CASE m.form = "absent"
    <3>1. EnsureClaudeMdImport(m) = [form |-> "text", lines |-> <<title, marker, import>>]
      BY <2>1 DEF EnsureClaudeMdImport, title, marker, import
    <3> QED BY <1>2, <1>3, <1>5, <1>6, <2>1, <3>1
  <2>2. CASE m.form # "absent" /\ import \in ToSet(m.lines)
    <3>1. EnsureClaudeMdImport(m) = m
      BY <2>2 DEF EnsureClaudeMdImport, import
    <3> QED BY <1>2, <2>2, <3>1
  <2>3. CASE m.form # "absent" /\ import \notin ToSet(m.lines)
    <3>1. EnsureClaudeMdImport(m) = [m EXCEPT !.lines = @ \o <<marker, import>>]
      BY <2>3 DEF EnsureClaudeMdImport, import, marker
    <3>2. EnsureClaudeMdImport(m) = [form |-> "text", lines |-> added(m.lines)]
      BY <1>2, <1>4, <2>3, <3>1
    <3> QED BY <1>2, <1>5, <3>2
  <2> QED BY <2>1, <2>2, <2>3
<1> DEFINE r == [form |-> "text", lines |-> k]
<1>8. r \in Markdowns /\ r.lines = k
  BY DEF Markdowns
<1>9. EnsureClaudeMdImport(r) = r
  BY <1>7 DEF EnsureClaudeMdImport, import
<1> HIDE DEF r
<1>10. EnsureClaudeMdImport(m) = r
  BY <1>7 DEF r
<1> QED BY <1>7, <1>8, <1>9, <1>10 DEF import, own

LEMMA RemovedImport ==
  ASSUME NEW m \in Markdowns
  PROVE  /\ RemoveOcnImport(m) \in Markdowns
         /\ {"marker", "import"} \cap ToSet(RemoveOcnImport(m).lines) = {}
         /\ RemoveOcnImport(RemoveOcnImport(m)) = RemoveOcnImport(m)
         /\ Only(RemoveOcnImport(m).lines, {"own"}) = Only(m.lines, {"own"})
<1> DEFINE own == {"own"}
           kept == Lines \ {"marker", "import"}
           l == Only(m.lines, kept)
           r == [form |-> m.form, lines |-> l]
<1>1. m.lines \in Seq(Lines) /\ m.form \in {"absent", "text"}
      /\ (m.form = "absent" => m.lines = <<>>)
      /\ m = [form |-> m.form, lines |-> m.lines]
  BY DEF Markdowns
<1>2. kept \cap own = own /\ Lines \cap kept = kept /\ kept \subseteq Lines
  BY DEF Lines
<1>3. RemoveOcnImport(m) = r
  <2> HIDE DEF l
  <2> QED BY <1>1 DEF RemoveOcnImport, l
<1>4. l \in Seq(kept) /\ l \in Seq(Lines)
  <2> HIDE DEF kept
  <2>1. l \in Seq(Lines \cap kept)
    BY <1>1, OnlyHasOnly
  <2> HIDE DEF l
  <2> QED BY <1>2, <2>1
<1>5. Only(l, own) = Only(m.lines, own)
  <2> HIDE DEF kept, own
  <2>1. Only(Only(m.lines, kept), own) = Only(m.lines, kept \cap own)
    BY <1>1, OnlyOfOnly
  <2> QED BY <1>2, <2>1
<1>6. Only(l, kept) = l
  <2> HIDE DEF kept, l
  <2> QED BY <1>4, OnlyKeepsAll
<1>7. m.form = "absent" => l = <<>>
  <2> HIDE DEF kept
  <2>1. Only(<<>>, kept) = <<>>
    BY OnlyOfNone
  <2> QED BY <1>1, <2>1
<1>8. {"marker", "import"} \cap ToSet(l) = {}
  <2> HIDE DEF l
  <2> QED BY <1>4 DEF ToSet
<1> HIDE DEF l
<1>9. r \in Markdowns /\ r.lines = l
  BY <1>1, <1>4, <1>7 DEF Markdowns
<1>10. RemoveOcnImport(r) = r
  <2>1. RemoveOcnImport(r) = [r EXCEPT !.lines = Only(r.lines, kept)]
    BY DEF RemoveOcnImport
  <2> HIDE DEF kept
  <2> QED BY <1>6, <2>1
<1> HIDE DEF r
<1> QED BY <1>3, <1>5, <1>8, <1>9, <1>10

\* Both commands, field by field.
LEMMA SetupIs ==
  ASSUME NEW w \in Wirings, NEW force, NEW n, n # 0, Accepts(w, force)
  PROVE  SetupAgentIntegration(w, force, n) =
           [settings |-> IF Malformed(w.settings) THEN MergeClaudeSettings(NoSettings)
                         ELSE MergeClaudeSettings(w.settings),
            backup   |-> IF Malformed(w.settings) THEN w.settings ELSE w.backup,
            ocnMd    |-> IF n > 1 THEN "current" ELSE w.ocnMd,
            command  |-> IF n > 2 THEN "current" ELSE w.command,
            claudeMd |-> IF n > 3 THEN EnsureClaudeMdImport(w.claudeMd) ELSE w.claudeMd]
<1> DEFINE b == IF Malformed(w.settings) THEN w.settings ELSE w.backup
           s == IF Malformed(w.settings) THEN MergeClaudeSettings(NoSettings)
                ELSE MergeClaudeSettings(w.settings)
           o == IF n > 1 THEN "current" ELSE w.ocnMd
           c == IF n > 2 THEN "current" ELSE w.command
           m == IF n > 3 THEN EnsureClaudeMdImport(w.claudeMd) ELSE w.claudeMd
           a == ApplySettings(w)
<1>1. w = [settings |-> w.settings, backup |-> w.backup, ocnMd |-> w.ocnMd,
           command |-> w.command, claudeMd |-> w.claudeMd]
  BY DEF Wirings
<1>2. a = [settings |-> s, backup |-> b, ocnMd |-> w.ocnMd, command |-> w.command,
           claudeMd |-> w.claudeMd]
  <2>1. CASE Malformed(w.settings)
    <3> DEFINE v == [w EXCEPT !.backup = b]
    <3>1. a = [v EXCEPT !.settings = s]
      BY <2>1, Zenon DEF ApplySettings
    <3> HIDE DEF s, b, a
    <3>2. v = [settings |-> w.settings, backup |-> b, ocnMd |-> w.ocnMd,
               command |-> w.command, claudeMd |-> w.claudeMd]
      BY <1>1
    <3> HIDE DEF v
    <3> QED BY <3>1, <3>2
  <2>2. CASE ~Malformed(w.settings)
    <3>1. a = [w EXCEPT !.settings = s] /\ b = w.backup
      BY <2>2 DEF ApplySettings
    <3> HIDE DEF s, b, a
    <3> QED BY <1>1, <3>1
  <2> QED BY <2>1, <2>2
<1>3. SetupAgentIntegration(w, force, n) =
        [a EXCEPT !.ocnMd    = IF n > 1 THEN "current" ELSE @,
                  !.command  = IF n > 2 THEN "current" ELSE @,
                  !.claudeMd = IF n > 3 THEN EnsureClaudeMdImport(@) ELSE @]
  BY DEF SetupAgentIntegration
<1>4. a.ocnMd = w.ocnMd /\ a.command = w.command /\ a.claudeMd = w.claudeMd
  <2> HIDE DEF a, s, b
  <2> QED BY <1>2
<1>5. SetupAgentIntegration(w, force, n) = [a EXCEPT !.ocnMd = o, !.command = c, !.claudeMd = m]
  <2> HIDE DEF a
  <2> QED BY <1>3, <1>4
<1> HIDE DEF a, s, b, o, c, m
<1> DEFINE f == [a EXCEPT !.ocnMd = o]
           g == [f EXCEPT !.command = c]
<1>6. f = [settings |-> s, backup |-> b, ocnMd |-> o, command |-> w.command,
           claudeMd |-> w.claudeMd]
  BY <1>2
<1>7. g = [settings |-> s, backup |-> b, ocnMd |-> o, command |-> c, claudeMd |-> w.claudeMd]
  <2> HIDE DEF f
  <2> QED BY <1>6
<1>8. [g EXCEPT !.claudeMd = m] = [settings |-> s, backup |-> b, ocnMd |-> o, command |-> c,
                                   claudeMd |-> m]
  <2> HIDE DEF g
  <2> QED BY <1>7
<1>9. SetupAgentIntegration(w, force, n) = [g EXCEPT !.claudeMd = m]
  BY <1>5, Zenon
<1> QED BY <1>8, <1>9 DEF s, b, o, c, m

LEMMA TeardownIs ==
  ASSUME NEW w \in Wirings, NEW n
  PROVE  TeardownAgentIntegration(w, n) =
           [settings |-> IF n > 2 THEN UnmergeClaudeSettings(w.settings) ELSE w.settings,
            backup   |-> w.backup,
            ocnMd    |-> IF n > 0 THEN "absent" ELSE w.ocnMd,
            command  |-> IF n > 1 THEN "absent" ELSE w.command,
            claudeMd |-> IF n > 3 THEN RemoveOcnImport(w.claudeMd) ELSE w.claudeMd]
<1> DEFINE s == IF n > 2 THEN UnmergeClaudeSettings(w.settings) ELSE w.settings
           o == IF n > 0 THEN "absent" ELSE w.ocnMd
           c == IF n > 1 THEN "absent" ELSE w.command
           m == IF n > 3 THEN RemoveOcnImport(w.claudeMd) ELSE w.claudeMd
           f == [w EXCEPT !.ocnMd = o]
           g == [f EXCEPT !.command = c]
           h == [g EXCEPT !.settings = s]
<1>1. w = [settings |-> w.settings, backup |-> w.backup, ocnMd |-> w.ocnMd,
           command |-> w.command, claudeMd |-> w.claudeMd]
  BY DEF Wirings
<1>2. TeardownAgentIntegration(w, n) =
        [w EXCEPT !.ocnMd = o, !.command = c, !.settings = s, !.claudeMd = m]
  BY DEF TeardownAgentIntegration
<1> HIDE DEF s, o, c, m
<1>3. f = [settings |-> w.settings, backup |-> w.backup, ocnMd |-> o, command |-> w.command,
           claudeMd |-> w.claudeMd]
  BY <1>1
<1>4. g = [settings |-> w.settings, backup |-> w.backup, ocnMd |-> o, command |-> c,
           claudeMd |-> w.claudeMd]
  <2> HIDE DEF f
  <2> QED BY <1>3
<1>5. h = [settings |-> s, backup |-> w.backup, ocnMd |-> o, command |-> c,
           claudeMd |-> w.claudeMd]
  <2> HIDE DEF g
  <2> QED BY <1>4
<1>6. [h EXCEPT !.claudeMd = m] = [settings |-> s, backup |-> w.backup, ocnMd |-> o,
                                   command |-> c, claudeMd |-> m]
  <2> HIDE DEF h
  <2> QED BY <1>5
<1>7. TeardownAgentIntegration(w, n) = [h EXCEPT !.claudeMd = m]
  BY <1>2, Zenon
<1> QED BY <1>6, <1>7 DEF s, o, c, m

LEMMA NoSettingsFile == NoSettings \in SettingsFiles /\ ~Malformed(NoSettings)
<1>1. \A e \in Events : NoSlot \in Slots /\ NoSlot.form = "absent"
  BY DEF NoSlot, Slots, SlotForms
<1>2. NoHooks \in HooksParts
  BY <1>1 DEF HooksParts, NoHooks, PartForms
<1>3. NoEnv \in EnvParts
  BY DEF EnvParts, NoEnv, PartForms
<1>4. NoSettings \in SettingsFiles
  BY <1>2, <1>3 DEF NoSettings, SettingsFiles, SettingsForms
<1> QED BY <1>4 DEF Malformed, NoSettings

\* A setup that is accepted comes to the same from wherever one stopped.
LEMMA SetupAgain ==
  ASSUME NEW w \in Wirings, NEW force \in BOOLEAN, NEW n \in 0 .. 4, Accepts(w, force)
  PROVE  /\ SetupAgentIntegration(w, force, n) \in Wirings
         /\ SetupAgentIntegration(SetupAgentIntegration(w, force, n), force, 4)
              = SetupAgentIntegration(w, force, 4)
<1>1. CASE n = 0
  BY <1>1 DEF SetupAgentIntegration
<1>2. CASE n # 0
  <2> DEFINE s == IF Malformed(w.settings) THEN MergeClaudeSettings(NoSettings)
                  ELSE MergeClaudeSettings(w.settings)
             b == IF Malformed(w.settings) THEN w.settings ELSE w.backup
             o == IF n > 1 THEN "current" ELSE w.ocnMd
             c == IF n > 2 THEN "current" ELSE w.command
             m == IF n > 3 THEN EnsureClaudeMdImport(w.claudeMd) ELSE w.claudeMd
             half == [settings |-> s, backup |-> b, ocnMd |-> o, command |-> c, claudeMd |-> m]
  <2>1. SetupAgentIntegration(w, force, n) = half
    BY <1>2, SetupIs
  <2>2. /\ w.settings \in SettingsFiles /\ w.backup \in SettingsFiles
        /\ w.ocnMd \in {"absent", "stale", "current"}
        /\ w.command \in {"absent", "stale", "current"} /\ w.claudeMd \in Markdowns
    BY DEF Wirings
  <2>3. s \in SettingsFiles /\ ~Malformed(s) /\ MergeClaudeSettings(s) = s
    BY <2>2, MergedFile, NoSettingsFile
  <2>4. m \in Markdowns /\ EnsureClaudeMdImport(m) = EnsureClaudeMdImport(w.claudeMd)
    BY <2>2, EnsuredImport
  <2>5. b \in SettingsFiles /\ o \in {"absent", "stale", "current"}
        /\ c \in {"absent", "stale", "current"}
    BY <2>2
  <2> HIDE DEF s, b, o, c, m
  <2>6. half \in Wirings
    BY <2>3, <2>4, <2>5 DEF Wirings
  <2>7. half.settings = s /\ half.backup = b /\ half.claudeMd = m
    OBVIOUS
  <2> HIDE DEF half
  <2>8. Accepts(half, force)
    BY <2>3, <2>7 DEF Accepts
  <2> DEFINE full == [settings |-> s, backup |-> b, ocnMd |-> "current",
                      command |-> "current", claudeMd |-> EnsureClaudeMdImport(w.claudeMd)]
  <2>9. SetupAgentIntegration(half, force, 4) = full
    <3>1. SetupAgentIntegration(half, force, 4) =
           [settings |-> IF Malformed(half.settings) THEN MergeClaudeSettings(NoSettings)
                         ELSE MergeClaudeSettings(half.settings),
            backup   |-> IF Malformed(half.settings) THEN half.settings ELSE half.backup,
            ocnMd    |-> IF 4 > 1 THEN "current" ELSE half.ocnMd,
            command  |-> IF 4 > 2 THEN "current" ELSE half.command,
            claudeMd |-> IF 4 > 3 THEN EnsureClaudeMdImport(half.claudeMd) ELSE half.claudeMd]
      BY <2>6, <2>8, SetupIs
    <3> QED BY <2>3, <2>4, <2>7, <3>1
  <2>10. SetupAgentIntegration(w, force, 4) = full
    <3>1. SetupAgentIntegration(w, force, 4) =
           [settings |-> IF Malformed(w.settings) THEN MergeClaudeSettings(NoSettings)
                         ELSE MergeClaudeSettings(w.settings),
            backup   |-> IF Malformed(w.settings) THEN w.settings ELSE w.backup,
            ocnMd    |-> IF 4 > 1 THEN "current" ELSE w.ocnMd,
            command  |-> IF 4 > 2 THEN "current" ELSE w.command,
            claudeMd |-> IF 4 > 3 THEN EnsureClaudeMdImport(w.claudeMd) ELSE w.claudeMd]
      BY SetupIs
    <3> QED BY <3>1 DEF s, b
  <2> QED BY <2>1, <2>6, <2>9, <2>10
<1> QED BY <1>1, <1>2

\* What a whole setup leaves.
LEMMA SetupInstalls ==
  ASSUME NEW w \in Wirings, NEW force \in BOOLEAN, Accepts(w, force)
  PROVE  /\ SetupAgentIntegration(w, force, 4) \in Wirings
         /\ Installed(SetupAgentIntegration(w, force, 4))
         /\ Malformed(w.settings) => SetupAgentIntegration(w, force, 4).backup = w.settings
         /\ ~Malformed(w.settings) => Users(SetupAgentIntegration(w, force, 4)) = Users(w)
<1> DEFINE on == SetupAgentIntegration(w, force, 4)
           s == IF Malformed(w.settings) THEN MergeClaudeSettings(NoSettings)
                ELSE MergeClaudeSettings(w.settings)
           m == EnsureClaudeMdImport(w.claudeMd)
<1>1. on \in Wirings
  BY SetupAgain
<1>2. on = [settings |-> IF Malformed(w.settings) THEN MergeClaudeSettings(NoSettings)
                         ELSE MergeClaudeSettings(w.settings),
            backup   |-> IF Malformed(w.settings) THEN w.settings ELSE w.backup,
            ocnMd    |-> IF 4 > 1 THEN "current" ELSE w.ocnMd,
            command  |-> IF 4 > 2 THEN "current" ELSE w.command,
            claudeMd |-> IF 4 > 3 THEN EnsureClaudeMdImport(w.claudeMd) ELSE w.claudeMd]
  BY SetupIs
<1> HIDE DEF on
<1>3. /\ on.settings = s /\ on.ocnMd = "current" /\ on.command = "current" /\ on.claudeMd = m
      /\ Malformed(w.settings) => on.backup = w.settings
  BY <1>2
<1>4. w.settings \in SettingsFiles /\ w.claudeMd \in Markdowns
  BY DEF Wirings
<1>5. "import" \in ToSet(m.lines) /\ Only(m.lines, {"own"}) = Only(w.claudeMd.lines, {"own"})
  BY <1>4, EnsuredImport
<1>6. s.env.actor # "none" /\ \A e \in Events : HasOcnHook(s.hooks.slots[e])
  BY <1>4, MergedFile, NoSettingsFile
<1>7. ASSUME ~Malformed(w.settings)
      PROVE  /\ \A e \in Events : Only(s.hooks.slots[e].groups, OwnGroups)
                                    = Only(w.settings.hooks.slots[e].groups, OwnGroups)
             /\ s.env.actor = "user" <=> w.settings.env.actor = "user"
             /\ s.hooks.more = w.settings.hooks.more
             /\ s.env.more = w.settings.env.more
  <2>1. s = MergeClaudeSettings(w.settings)
    BY <1>7
  <2> HIDE DEF s
  <2> QED BY <1>4, <2>1, MergedFile
<1> HIDE DEF s, m
<1>8. Installed(on)
  BY <1>3, <1>5, <1>6 DEF Installed
<1>9. ~Malformed(w.settings) => Users(on) = Users(w)
  BY <1>3, <1>5, <1>7 DEF Users
<1> QED BY <1>1, <1>3, <1>8, <1>9 DEF on

\* A teardown comes to the same from wherever one stopped, and what it leaves.
LEMMA TeardownRemoves ==
  ASSUME NEW w \in Wirings, NEW n \in 0 .. 4
  PROVE  /\ TeardownAgentIntegration(TeardownAgentIntegration(w, n), 4)
              = TeardownAgentIntegration(w, 4)
         /\ Removed(TeardownAgentIntegration(w, 4))
         /\ TeardownAgentIntegration(w, 4).backup = w.backup
         /\ Users(TeardownAgentIntegration(w, 4)) = Users(w)
<1> DEFINE s(k) == IF k > 2 THEN UnmergeClaudeSettings(w.settings) ELSE w.settings
           o(k) == IF k > 0 THEN "absent" ELSE w.ocnMd
           c(k) == IF k > 1 THEN "absent" ELSE w.command
           m(k) == IF k > 3 THEN RemoveOcnImport(w.claudeMd) ELSE w.claudeMd
           half == [settings |-> s(n), backup |-> w.backup, ocnMd |-> o(n), command |-> c(n),
                    claudeMd |-> m(n)]
           S == UnmergeClaudeSettings(w.settings)
           M == RemoveOcnImport(w.claudeMd)
           off == [settings |-> S, backup |-> w.backup, ocnMd |-> "absent",
                   command |-> "absent", claudeMd |-> M]
<1>1. /\ w.settings \in SettingsFiles /\ w.backup \in SettingsFiles
      /\ w.ocnMd \in {"absent", "stale", "current"}
      /\ w.command \in {"absent", "stale", "current"} /\ w.claudeMd \in Markdowns
  BY DEF Wirings
<1>2. /\ S \in SettingsFiles /\ UnmergeClaudeSettings(S) = S
      /\ \A e \in Events : ~HasOcnHook(S.hooks.slots[e])
      /\ S.env.actor # "ai_agent"
      /\ \A e \in Events : Only(S.hooks.slots[e].groups, OwnGroups)
                             = Only(w.settings.hooks.slots[e].groups, OwnGroups)
      /\ S.env.actor = "user" <=> w.settings.env.actor = "user"
      /\ S.hooks.more = w.settings.hooks.more
      /\ S.env.more = w.settings.env.more
  BY <1>1, UnmergedFile
<1>3. /\ M \in Markdowns /\ RemoveOcnImport(M) = M
      /\ {"marker", "import"} \cap ToSet(M.lines) = {}
      /\ Only(M.lines, {"own"}) = Only(w.claudeMd.lines, {"own"})
  BY <1>1, RemovedImport
<1>4. TeardownAgentIntegration(w, n) = half
  BY TeardownIs
<1>5. TeardownAgentIntegration(w, 4) = off
  <2>1. TeardownAgentIntegration(w, 4) =
           [settings |-> IF 4 > 2 THEN UnmergeClaudeSettings(w.settings) ELSE w.settings,
            backup   |-> w.backup,
            ocnMd    |-> IF 4 > 0 THEN "absent" ELSE w.ocnMd,
            command  |-> IF 4 > 1 THEN "absent" ELSE w.command,
            claudeMd |-> IF 4 > 3 THEN RemoveOcnImport(w.claudeMd) ELSE w.claudeMd]
    BY TeardownIs
  <2> QED BY <2>1
<1>6. /\ s(n) \in SettingsFiles /\ UnmergeClaudeSettings(s(n)) = S
      /\ o(n) \in {"absent", "stale", "current"} /\ c(n) \in {"absent", "stale", "current"}
      /\ m(n) \in Markdowns /\ RemoveOcnImport(m(n)) = M
  BY <1>1, <1>2, <1>3
<1>7. half.settings = s(n) /\ half.backup = w.backup /\ half.claudeMd = m(n)
  OBVIOUS
<1>8. half \in Wirings
  <2> HIDE DEF s, o, c, m
  <2> QED BY <1>1, <1>6 DEF Wirings
<1> HIDE DEF half, s, m, o, c
<1>9. TeardownAgentIntegration(half, 4) = off
  <2>1. TeardownAgentIntegration(half, 4) =
           [settings |-> IF 4 > 2 THEN UnmergeClaudeSettings(half.settings) ELSE half.settings,
            backup   |-> half.backup,
            ocnMd    |-> IF 4 > 0 THEN "absent" ELSE half.ocnMd,
            command  |-> IF 4 > 1 THEN "absent" ELSE half.command,
            claudeMd |-> IF 4 > 3 THEN RemoveOcnImport(half.claudeMd) ELSE half.claudeMd]
    BY <1>8, TeardownIs
  <2> QED BY <1>6, <1>7, <2>1
<1> HIDE DEF S, M
<1>10. Removed(off)
  BY <1>2, <1>3 DEF Removed
<1>11. Users(off) = Users(w)
  BY <1>2, <1>3 DEF Users
<1> QED BY <1>4, <1>5, <1>9, <1>10, <1>11

\* Every project, with any sequence of groups and of lines in its files, in any
\* of their forms: setup and teardown come off it, wherever they stopped.
LEMMA EveryWiringComesOff ==
  ASSUME NEW w \in Wirings, NEW force \in BOOLEAN, NEW n \in 0 .. 4
  PROVE  WiringComesOff(w, force, n)
<1> DEFINE half == SetupAgentIntegration(w, force, n)
           on   == SetupAgentIntegration(half, force, 4)
           all  == SetupAgentIntegration(w, force, 4)
           off  == TeardownAgentIntegration(TeardownAgentIntegration(on, n), 4)
<1>1. CASE Accepts(w, force)
  <2>1. on = all /\ all \in Wirings
    <3>1. Accepts(w, force) /\ 4 \in 0 .. 4
      BY <1>1
    <3> QED BY <3>1, SetupAgain
  <2>2. /\ Installed(all)
        /\ Malformed(w.settings) => all.backup = w.settings
        /\ ~Malformed(w.settings) => Users(all) = Users(w)
    BY <1>1, SetupInstalls
  <2>3. off = TeardownAgentIntegration(all, 4) /\ Removed(off)
        /\ off.backup = all.backup /\ Users(off) = Users(all)
    <3> HIDE DEF all, on
    <3> QED BY <2>1, TeardownRemoves
  <2> HIDE DEF off, on, all
  <2> QED BY <1>1, <2>1, <2>2, <2>3 DEF WiringComesOff, off, on, all
<1>2. CASE ~Accepts(w, force)
  <2>1. on = w
    BY <1>2 DEF SetupAgentIntegration
  <2>2. off = TeardownAgentIntegration(w, 4) /\ Removed(off) /\ Users(off) = Users(w)
    <3> HIDE DEF on
    <3> QED BY <2>1, TeardownRemoves
  <2> HIDE DEF off, on
  <2> QED BY <1>2, <2>1, <2>2 DEF WiringComesOff, off, on
<1> QED BY <1>1, <1>2

---------------------------------------------------------------------------
(* Requests and the contract                                               *)

\* How a flattened sequence grows.
FlattenSteps(seqs, flat) ==
  /\ flat[1] = seqs[1]
  /\ \A i \in 2 .. Len(seqs) : flat[i] = flat[i - 1] \o seqs[i]

LEMMA FlattenExists ==
  ASSUME NEW T, NEW seqs \in Seq(Seq(T)), Len(seqs) # 0
  PROVE  \E flat : FlattenSteps(seqs, flat) /\ FlattenSeq(seqs) = flat[Len(seqs)]
<1> DEFINE n == Len(seqs)
           V == Seq(T)
           step == [p \in (1 .. n) \X V |-> p[2] \o seqs[p[1]]]
           Is(f) == f = [i \in 1 .. n |-> IF i = 1 THEN seqs[i] ELSE f[i - 1] \o seqs[i]]
           flat == CHOOSE f : Is(f)
           none == <<>>
<1>1. n \in Nat /\ n # 0 /\ none \in V /\ step \in [(1 .. n) \X V -> V]
  OBVIOUS
<1>2. \A i \in 1 .. n, v \in V : step[<<i, v>>] = v \o seqs[i]
  OBVIOUS
<1>3. \A i \in 1 .. n : seqs[i] \in V /\ none \o seqs[i] = seqs[i] /\ i - 1 \in 0 .. n
  OBVIOUS
<1>4. Recursion(n, V, none, step)
  <2> HIDE DEF step, V, n, none
  <2> QED BY <1>1, RecursionExists
<1>5. FlattenSeq(seqs) = flat[n]
  BY DEF FlattenSeq
<1> HIDE DEF step, n, V, none, flat
<1>6. PICK f \in [0 .. n -> V] :
        f[0] = none /\ \A i \in 1 .. n : f[i] = step[<<i, f[i - 1]>>]
  BY <1>4 DEF Recursion
<1>7. \A i \in 1 .. n : f[i] = f[i - 1] \o seqs[i]
  BY <1>2, <1>3, <1>6
<1> DEFINE g == [i \in 1 .. n |-> f[i]]
<1>8. 1 \in 1 .. n /\ f[1] = seqs[1]
  <2>1. 1 \in 1 .. n /\ 1 - 1 = 0
    BY <1>1
  <2>2. f[1] = f[1 - 1] \o seqs[1] /\ none \o seqs[1] = seqs[1]
    BY <1>3, <1>7, <2>1
  <2> QED BY <1>6, <2>1, <2>2
<1>9. \A i \in 1 .. n : g[i] = f[i]
  OBVIOUS
<1>10. \A i \in 1 .. n : i # 1 => i - 1 \in 1 .. n
  BY <1>1
<1> HIDE DEF g
<1>11. \A i \in 1 .. n : g[i] = IF i = 1 THEN seqs[i] ELSE g[i - 1] \o seqs[i]
  BY <1>7, <1>8, <1>9, <1>10
<1>12. g = [i \in 1 .. n |-> g[i]]
  BY DEF g
<1>13. Is(g)
  BY <1>11, <1>12
<1>14. Is(flat)
  BY <1>13 DEF flat
<1>15. flat[1] = seqs[1]
  BY <1>8, <1>14
<1>16. ASSUME NEW i \in 2 .. n PROVE flat[i] = flat[i - 1] \o seqs[i]
  <2>1. i \in 1 .. n /\ i # 1
    BY <1>1
  <2> QED BY <1>14, <2>1
<1>17. FlattenSteps(seqs, flat)
  BY <1>15, <1>16 DEF FlattenSteps, n
<1> QED BY <1>5, <1>17 DEF n

LEMMA OneMore ==
  ASSUME NEW T, NEW x \in Seq(T), NEW y \in Seq(T), Len(y) = 1
  PROVE  /\ x \o y \in Seq(T) /\ Len(x \o y) = Len(x) + 1
         /\ \A i \in 1 .. Len(x) : (x \o y)[i] = x[i]
         /\ (x \o y)[Len(x) + 1] = y[1]
<1> DEFINE n == Len(x)
<1>1. n \in Nat
  OBVIOUS
<1>2. x \o y \in Seq(T)
  OBVIOUS
<1>3. Len(x \o y) = n + Len(y)
  BY ONLY x \in Seq(T), y \in Seq(T), ConcatProperties
<1>4. \A i \in 1 .. n : (x \o y)[i] = x[i]
  OBVIOUS
<1>5. n + 1 \in 1 .. n + Len(y) /\ ~(n + 1 <= n) /\ (n + 1) - n = 1
  BY <1>1
<1>6. \A i \in 1 .. n + Len(y) : (x \o y)[i] = IF i <= n THEN x[i] ELSE y[i - n]
  BY ONLY x \in Seq(T), y \in Seq(T), ConcatProperties
<1> QED BY <1>2, <1>3, <1>4, <1>5, <1>6

\* Flattening runs of one element each takes out these elements.
LEMMA FlattenOnes ==
  ASSUME NEW T, NEW seqs \in Seq(Seq(T)), \A i \in DOMAIN seqs : Len(seqs[i]) = 1
  PROVE  /\ FlattenSeq(seqs) \in Seq(T)
         /\ Len(FlattenSeq(seqs)) = Len(seqs)
         /\ \A i \in DOMAIN seqs : FlattenSeq(seqs)[i] = seqs[i][1]
<1> DEFINE n == Len(seqs)
<1>0. n \in Nat /\ DOMAIN seqs = 1 .. n
  OBVIOUS
<1>1. CASE n = 0
  <2>1. seqs = <<>> /\ FlattenSeq(seqs) = seqs
    BY <1>1 DEF FlattenSeq
  <2>2. seqs \in Seq(T) /\ DOMAIN seqs = {}
    BY <1>0, <1>1, <2>1
  <2> QED BY <2>1, <2>2
<1>2. CASE n # 0
  <2>1. PICK flat : FlattenSteps(seqs, flat) /\ FlattenSeq(seqs) = flat[n]
    BY <1>2, FlattenExists
  <2> DEFINE Good(k) == /\ flat[k] \in Seq(T) /\ Len(flat[k]) = k
                        /\ \A i \in 1 .. k : flat[k][i] = seqs[i][1]
             P == {k \in 0 .. n : k = 0 \/ Good(k)}
  <2>2. \A i \in 1 .. n : seqs[i] \in Seq(T) /\ Len(seqs[i]) = 1
    OBVIOUS
  <2>3. 0 \in P
    BY <1>0
  <2>4. ASSUME NEW k \in 0 .. n - 1, k \in P PROVE k + 1 \in P
    <3>1. k \in Nat /\ k + 1 \in 1 .. n
      BY <1>0
    <3>2. CASE k = 0
      <4>1. flat[1] = seqs[1] /\ 1 \in 1 .. n
        BY <1>0, <1>2, <2>1 DEF FlattenSteps
      <4>2. Good(1)
        BY <2>2, <4>1
      <4> QED BY <3>1, <3>2, <4>2
    <3>3. CASE k # 0
      <4>1. k + 1 \in 2 .. n /\ (k + 1) - 1 = k
        BY <1>0, <3>1, <3>3
      <4>2. flat[k + 1] = flat[k] \o seqs[k + 1]
        BY <2>1, <4>1 DEF FlattenSteps
      <4>3. Good(k)
        BY <2>4, <3>3
      <4> DEFINE x == flat[k]
                 y == seqs[k + 1]
      <4>4. x \in Seq(T) /\ Len(x) = k /\ y \in Seq(T) /\ Len(y) = 1
        BY <2>2, <3>1, <4>3
      <4>5. \A i \in 1 .. k : x[i] = seqs[i][1]
        BY <4>3
      <4> HIDE DEF x, y
      <4>6. x \o y \in Seq(T) /\ Len(x \o y) = k + 1
        BY <4>4, OneMore
      <4>7. \A i \in 1 .. k : (x \o y)[i] = x[i]
        BY <4>4, OneMore
      <4>8. (x \o y)[k + 1] = y[1]
        BY <4>4, OneMore
      <4>9. \A i \in 1 .. k + 1 : (x \o y)[i] = seqs[i][1]
        <5> SUFFICES ASSUME NEW i \in 1 .. k + 1 PROVE (x \o y)[i] = seqs[i][1]
          OBVIOUS
        <5>1. i \in 1 .. k \/ i = k + 1
          BY <3>1
        <5> QED BY <4>5, <4>7, <4>8, <5>1 DEF y
      <4>10. Good(k + 1)
        BY <4>2, <4>6, <4>9 DEF x, y
      <4> QED BY <3>1, <4>10
    <3> QED BY <3>2, <3>3
  <2>5. \A k \in 0 .. n : k \in P
    <3> HIDE DEF P, n
    <3> QED BY <1>0, <2>3, <2>4, CountingUp
  <2>6. n \in 0 .. n
    BY <1>0
  <2>7. Good(n)
    BY <1>2, <2>5, <2>6
  <2> QED BY <1>0, <2>1, <2>7
<1> QED BY <1>1, <1>2

\* Calls and endpoints as the scanner and the contract have them.
Sources ==
  [path : Seq(Literals \cup {Whole, Part}), rooted : BOOLEAN, slash : BOOLEAN,
   query : {"none", "literal", "computed"},
   verb : Methods \cup {"unstated", "dynamic", "hidden"}]

Endpoints(S) == [id : S, method : Methods, path : Seq(Literals \cup {Param}), rooted : BOOLEAN]

\* A path as the client sends it.
WithBase(s) == IF IsPrefix(Base, s) THEN s ELSE Base \o s

StartsWith(t, s) == Len(s) <= Len(t) /\ \A i \in DOMAIN s : s[i] = t[i]

LEMMA PrefixMeans ==
  ASSUME NEW S, NEW s \in Seq(S), NEW R, NEW t \in Seq(R)
  PROVE  IsPrefix(s, t) <=> StartsWith(t, s)
<1> SUFFICES IsPrefix(s, t) <=> Len(s) <= Len(t) /\ \A i \in DOMAIN s : s[i] = t[i]
  BY DEF StartsWith
<1>1. CASE Len(s) <= Len(t)
  <2> DEFINE a == SubSeq(s, 1, Len(s))
             b == SubSeq(t, 1, Len(s))
  <2>1. a = s
    OBVIOUS
  <2>2. Len(b) = Len(s) /\ DOMAIN b = DOMAIN s /\ \A i \in DOMAIN s : b[i] = t[i]
    BY <1>1
  <2>3. b \in Seq(R)
    BY <1>1
  <2>4. s = b <=> \A i \in DOMAIN s : s[i] = t[i]
    <3> HIDE DEF b
    <3>1. s = [i \in 1 .. Len(s) |-> s[i]] /\ b = [i \in 1 .. Len(b) |-> b[i]]
      BY <2>3
    <3> QED BY <2>2, <3>1
  <2> HIDE DEF a, b
  <2> QED BY <1>1, <2>1, <2>4 DEF IsPrefix, a, b
<1>2. CASE ~(Len(s) <= Len(t))
  BY <1>2 DEF IsPrefix
<1> QED BY <1>1, <1>2

\* Whatever the contract and the source: a call that fills the parameters of the
\* endpoint it reaches does not block, unless its text hides its method or the
\* base path.
LEMMA EveryDeclaredCallPasses ==
  ASSUME NEW S, NEW endpoints \in Seq(Endpoints(S)), NEW source \in Sources,
         NEW filling \in Seq(Seq(Literals))
  PROVE  DeclaredCallPasses(endpoints, source, filling)
<1> DEFINE call == ExtractCall(source)
           path == source.path
           T    == TemplatePath(source)
           req  == FlattenSeq(filling)
           n    == Len(path)
<1> SUFFICES ASSUME IsRequestOf(source, filling), source.verb # "hidden", BaseInText(source),
                    NEW method \in RequestMethods(source),
                    NEW e \in Reached(endpoints, method, RequestPath(filling)),
                    FillsParams(source, filling, e)
             PROVE  ~IsBlocking(ViolationOf(endpoints, call))
  BY DEF DeclaredCallPasses
<1>1. /\ call.method = MethodOf(source) /\ call.path = T /\ call.confidence = Confidence(source)
      /\ call.rooted = source.rooted /\ call.slash = source.slash /\ call.query = source.query
  BY DEF ExtractCall
<1>2. CASE Confidence(source) = "inferred"
  <2>1. ViolationOf(endpoints, call) \in {"none", "unverified_call"}
    <3> HIDE DEF call
    <3> QED BY <1>1, <1>2 DEF ViolationOf
  <2> QED BY <2>1 DEF IsBlocking, BlockingKinds
<1>3. CASE Confidence(source) # "inferred"
  <2>1. source.verb # "dynamic" /\ Part \notin ToSet(path)
    BY <1>3 DEF Confidence, PathDeterminate
  <2>2. method = MethodOf(source)
    BY <2>1 DEF RequestMethods
  <2>3. /\ path \in Seq(Literals \cup {Whole, Part}) /\ n \in Nat /\ DOMAIN path = 1 .. n
        /\ \A i \in 1 .. n : path[i] \in Literals \/ path[i] = Whole
    BY <2>1 DEF Sources, ToSet
  <2>4. Base \in Seq(Literals) /\ Whole \notin Literals /\ Part \notin Literals
        /\ Param \notin Literals
    BY ContractAssumption, SegmentsAssumption
  <2>5. DOMAIN filling = 1 .. n /\ Len(filling) = n
    BY <2>3 DEF IsRequestOf
  <2>6. \A i \in 1 .. n : path[i] # Whole => filling[i] = <<path[i]>>
    BY <2>3, <2>4 DEF IsRequestOf, Fillings
  <2>7. \A i \in 1 .. n : Len(filling[i]) = 1
    <3> SUFFICES ASSUME NEW i \in 1 .. n PROVE Len(filling[i]) = 1
      OBVIOUS
    <3>1. CASE path[i] = Whole
      BY <2>3, <3>1 DEF FillsParams
    <3>2. CASE path[i] # Whole
      <4>1. filling[i] = <<path[i]>>
        BY <2>6, <3>2
      <4> QED BY <4>1
    <3> QED BY <3>1, <3>2
  <2>8. /\ req \in Seq(Literals) /\ Len(req) = n /\ DOMAIN req = 1 .. n
        /\ \A i \in 1 .. n : req[i] = filling[i][1]
    <3>1. /\ req \in Seq(Literals) /\ Len(req) = Len(filling)
          /\ \A i \in DOMAIN filling : req[i] = filling[i][1]
      BY <2>5, <2>7, FlattenOnes
    <3> HIDE DEF req, n
    <3>2. Len(req) = n /\ \A i \in 1 .. n : req[i] = filling[i][1]
      BY <2>5, <3>1
    <3>3. DOMAIN req = 1 .. Len(req)
      BY <3>1
    <3> QED BY <3>1, <3>2, <3>3
  <2>9. \A i \in 1 .. n : path[i] # Whole => req[i] = path[i]
    BY <2>6, <2>8
  <2>10. T \in Seq(Literals \cup {Param}) /\ Len(T) = n /\ DOMAIN T = 1 .. n
         /\ \A i \in 1 .. n : T[i] = IF path[i] = Whole THEN Param ELSE path[i]
    BY <2>3 DEF TemplatePath
  <2> HIDE DEF path, T, req, n
  <2> DEFINE m == Len(Base)
  <2>11. m \in Nat /\ DOMAIN Base = 1 .. m /\ \A i \in 1 .. m : Base[i] \in Literals
    BY <2>4
  <2>12. IsPrefix(Base, T) <=> IsPrefix(Base, path)
    <3>1. IsPrefix(Base, T) <=> StartsWith(T, Base)
      BY <2>4, <2>10, PrefixMeans
    <3>2. IsPrefix(Base, path) <=> StartsWith(path, Base)
      BY <2>3, <2>4, PrefixMeans
    <3>3. ASSUME m <= n, NEW i \in 1 .. m PROVE Base[i] = T[i] <=> Base[i] = path[i]
      <4>1. i \in 1 .. n
        BY <2>3, <2>11, <3>3
      <4> QED BY <2>4, <2>10, <2>11, <4>1
    <3>4. Len(T) = n /\ Len(path) = n
      BY <2>10 DEF n
    <3> QED BY <2>11, <3>1, <3>2, <3>3, <3>4 DEF StartsWith
  <2>13. IsPrefix(Base, path) => IsPrefix(Base, req)
    <3>1. IsPrefix(Base, req) <=> StartsWith(req, Base)
      BY <2>4, <2>8, PrefixMeans
    <3>2. IsPrefix(Base, path) <=> StartsWith(path, Base)
      BY <2>3, <2>4, PrefixMeans
    <3>3. ASSUME m <= n, NEW i \in 1 .. m, Base[i] = path[i] PROVE Base[i] = req[i]
      <4>1. i \in 1 .. n
        BY <2>3, <2>11, <3>3
      <4> QED BY <2>4, <2>9, <2>11, <3>3, <4>1
    <3>4. Len(req) = n /\ Len(path) = n
      BY <2>8 DEF n
    <3> QED BY <2>11, <3>1, <3>2, <3>3, <3>4 DEF StartsWith
  <2>14. PathMatches(e.path, RequestPath(filling)) /\ RequestPath(filling) = WithBase(req)
    BY DEF Reached, RequestPath, WithBase, req
  <2>15. \A i \in 1 .. n : path[i] = Whole =>
           e.path[(IF IsPrefix(Base, path) THEN 0 ELSE m) + i] = Param
    BY <2>3 DEF FillsParams, path
  <2>16. Len(e.path) = (IF IsPrefix(Base, path) THEN 0 ELSE m) + n
    BY DEF FillsParams, path, n
  <2>17. e.path \in Seq(Literals \cup {Param})
    <3>1. PICK i \in DOMAIN endpoints : e = endpoints[i]
      BY DEF Reached, ToSet
    <3>2. e \in Endpoints(S)
      BY <3>1
    <3> QED BY <3>2 DEF Endpoints
  <2>18. PathMatches(e.path, WithBase(T))
    <3>1. CASE IsPrefix(Base, path)
      <4>1. WithBase(T) = T /\ WithBase(req) = req
        BY <2>12, <2>13, <3>1 DEF WithBase
      <4>2. Len(e.path) = n /\ DOMAIN e.path = 1 .. n
            /\ \A i \in 1 .. n : path[i] = Whole => e.path[i] = Param
        BY <2>3, <2>15, <2>16, <2>17, <3>1
      <4>3. \A i \in 1 .. n : e.path[i] = Param \/ e.path[i] = req[i]
        BY <2>14, <4>1, <4>2 DEF PathMatches
      <4>4. \A i \in 1 .. n : e.path[i] = Param \/ e.path[i] = T[i]
        BY <2>9, <2>10, <4>2, <4>3
      <4> QED BY <2>10, <4>1, <4>2, <4>4 DEF PathMatches
    <3>2. CASE ~IsPrefix(Base, path)
      <4>1. m # 0
        <5>1. IsPrefix(Base, path) <=> StartsWith(path, Base)
          BY <2>3, <2>4, PrefixMeans
        <5> QED BY <2>3, <2>11, <3>2, <5>1 DEF n, StartsWith
      <4>2. Len(e.path) = m + n /\ DOMAIN e.path = 1 .. m + n
            /\ \A i \in 1 .. n : path[i] = Whole => e.path[m + i] = Param
        BY <2>15, <2>16, <2>17, <3>2
      <4>3. WithBase(req) # req
        BY <2>3, <2>8, <2>11, <2>14, <4>1, <4>2 DEF PathMatches
      <4>4. WithBase(req) = Base \o req /\ WithBase(T) = Base \o T
        BY <2>12, <3>2, <4>3 DEF WithBase
      <4>5. /\ Len(Base \o T) = m + n
            /\ \A i \in 1 .. m + n : (Base \o T)[i] = IF i <= m THEN Base[i] ELSE T[i - m]
        <5>1. Base \in Seq(Literals \cup {Param})
          BY <2>4
        <5>2. Len(Base \o T) = Len(Base) + Len(T)
              /\ \A i \in 1 .. Len(Base) + Len(T) :
                   (Base \o T)[i] = IF i <= Len(Base) THEN Base[i] ELSE T[i - Len(Base)]
          BY <2>10, <5>1, ConcatProperties
        <5> QED BY <2>10, <5>2
      <4>6. \A i \in 1 .. m + n : (Base \o req)[i] = IF i <= m THEN Base[i] ELSE req[i - m]
        <5>1. \A i \in 1 .. Len(Base) + Len(req) :
                (Base \o req)[i] = IF i <= Len(Base) THEN Base[i] ELSE req[i - Len(Base)]
          BY <2>4, <2>8, ConcatProperties
        <5> QED BY <2>8, <5>1
      <4>7. \A i \in 1 .. m + n : e.path[i] = Param \/ e.path[i] = (Base \o req)[i]
        BY <2>14, <4>2, <4>4 DEF PathMatches
      <4>8. ASSUME NEW i \in 1 .. m + n PROVE e.path[i] = Param \/ e.path[i] = (Base \o T)[i]
        <5>1. CASE i <= m
          BY <4>5, <4>6, <4>7, <5>1
        <5>2. CASE ~(i <= m)
          <6>1. i - m \in 1 .. n /\ m + (i - m) = i
            BY <2>3, <2>11, <5>2
          <6>2. CASE path[i - m] = Whole
            BY <4>2, <6>1, <6>2
          <6>3. CASE path[i - m] # Whole
            <7>1. T[i - m] = path[i - m] /\ req[i - m] = path[i - m]
              BY <2>9, <2>10, <6>1, <6>3
            <7> QED BY <4>5, <4>6, <4>7, <5>2, <7>1
          <6> QED BY <6>2, <6>3
        <5> QED BY <5>1, <5>2
      <4> QED BY <4>2, <4>4, <4>5, <4>8 DEF PathMatches
    <3> QED BY <3>1, <3>2
  <2>19. e \in ToSet(endpoints) /\ e.method = call.method
    BY <1>1, <2>2 DEF Reached
  <2>20. ApplyBasePath(call) = WithBase(T)
    <3> HIDE DEF call
    <3>1. Len(path) = Len(T)
      BY <2>10 DEF n
    <3>2. IsPrefix(Base, T) => IncludesBase(call)
      BY <1>1, <2>12, <3>1 DEF BaseInText, IncludesBase, path
    <3>3. IncludesBase(call) => IsPrefix(Base, T)
      BY <1>1 DEF IncludesBase
    <3> QED BY <1>1, <3>2, <3>3 DEF ApplyBasePath, WithBase
  <2>21. ViolationOf(endpoints, call) = "none"
    <3> HIDE DEF call
    <3> QED BY <1>1, <2>18, <2>19, <2>20 DEF ViolationOf
  <2> QED BY <2>21 DEF IsBlocking, BlockingKinds
<1> QED BY <1>2, <1>3

---------------------------------------------------------------------------
(* The order of a graph: Kahn's sorting                                    *)

\* No two places of a sequence hold the same.
Distinct(s) == \A i, j \in DOMAIN s : s[i] = s[j] => i = j

\* A sequence of distinct elements is as long as they are many.
LEMMA DistinctCounts ==
  ASSUME NEW S, NEW s \in Seq(S), Distinct(s)
  PROVE  IsFiniteSet(ToSet(s)) /\ Cardinality(ToSet(s)) = Len(s)
<1>1. Len(s) \in Nat /\ DOMAIN s = 1 .. Len(s)
  OBVIOUS
<1>2. IsFiniteSet(1 .. Len(s)) /\ Cardinality(1 .. Len(s)) = Len(s)
  BY <1>1, FS_Interval
<1>3. s \in Bijection(1 .. Len(s), ToSet(s))
  BY <1>1 DEF Bijection, Injection, Surjection, IsInjective, Distinct, ToSet
<1>4. ExistsBijection(1 .. Len(s), ToSet(s))
  BY <1>3 DEF ExistsBijection
<1> QED BY <1>2, <1>4, FS_Bijection

\* From what always comes from somewhere something leads round for ever.
LEMMA WayRound ==
  ASSUME NEW R, IsFiniteSet(R), R # {}, NEW E, \A x \in R : \E y \in R : <<y, x>> \in E
  PROVE  \E C \in SUBSET R : C # {} /\ \A x \in C : \E y \in C : <<x, y>> \in E
<1> DEFINE Closed == {M \in FiniteSubsetsOf(R) : M # {} /\ \A x \in M : \E y \in M : <<y, x>> \in E}
<1>1. R \in Closed
  BY DEF FiniteSubsetsOf
<1>2. PICK M \in Closed : \A N \in Closed : <<N, M>> \notin StrictSubsetOrdering(R)
  <2>1. IsWellFoundedOn(StrictSubsetOrdering(R), FiniteSubsetsOf(R))
    BY FS_StrictSubsetOrderingWellFounded
  <2>2. Closed \subseteq FiniteSubsetsOf(R)
    OBVIOUS
  <2> HIDE DEF Closed
  <2> QED BY <1>1, <2>1, <2>2, WFMin
<1>3. ASSUME NEW x \in M, \A y \in M : <<x, y>> \notin E PROVE FALSE
  <2> DEFINE N == M \ {x}
  <2>1. N # {} /\ \A y \in N : \E z \in N : <<z, y>> \in E
    <3>1. \A y \in M : \E z \in M : <<z, y>> \in E
      OBVIOUS
    <3>2. \A y \in M : \E z \in N : <<z, y>> \in E
      <4> TAKE y \in M
      <4>1. PICK z \in M : <<z, y>> \in E
        BY <3>1
      <4>2. z # x
        BY <1>3, <4>1
      <4> QED BY <4>1, <4>2
    <3> QED BY <3>2
  <2>2. N \in SUBSET R /\ IsFiniteSet(N)
    BY FS_RemoveElement DEF FiniteSubsetsOf
  <2>3. N \in Closed
    BY <2>1, <2>2 DEF FiniteSubsetsOf
  <2>4. <<N, M>> \in StrictSubsetOrdering(R)
    <3>1. M \in SUBSET R /\ N \in SUBSET R /\ N \subseteq M /\ N # M
      BY <2>2 DEF FiniteSubsetsOf
    <3> HIDE DEF N
    <3> QED BY <3>1 DEF StrictSubsetOrdering
  <2> QED BY <1>2, <2>3, <2>4
<1>4. M \in SUBSET R /\ M # {}
  BY DEF FiniteSubsetsOf
<1> QED BY <1>3, <1>4

LEMMA AppendParts ==
  ASSUME NEW T, NEW v \in Seq(T), NEW x \in T
  PROVE  /\ ToSet(Append(v, x)) = ToSet(v) \cup {x}
         /\ Distinct(Append(v, x)) <=> Distinct(v) /\ x \notin ToSet(v)
<1>1. DOMAIN v = 1 .. Len(v) /\ Len(v) \in Nat /\ DOMAIN Append(v, x) = 1 .. Len(v) + 1
  OBVIOUS
<1>2. Append(v, x)[Len(v) + 1] = x /\ \A i \in 1 .. Len(v) : Append(v, x)[i] = v[i]
  OBVIOUS
<1> DEFINE w == Append(v, x)
<1> HIDE DEF w
<1>3. ToSet(w) = ToSet(v) \cup {x}
  BY <1>1, <1>2 DEF ToSet, w
<1>4. Distinct(w) => Distinct(v) /\ x \notin ToSet(v)
  BY <1>1, <1>2 DEF Distinct, ToSet, w
<1>5. Distinct(v) /\ x \notin ToSet(v) => Distinct(w)
  BY <1>1, <1>2 DEF Distinct, ToSet, w
<1> QED BY <1>3, <1>4, <1>5 DEF w

\* What is kept of distinct elements is distinct.
LEMMA OnlyDistinct ==
  ASSUME NEW T, NEW s \in Seq(T), NEW S, Distinct(s)
  PROVE  Distinct(Only(s, S)) /\ ToSet(Only(s, S)) = ToSet(s) \cap S
<1> DEFINE P == {u \in Seq(T) : /\ ToSet(Only(u, S)) = ToSet(u) \cap S
                                /\ Distinct(u) => Distinct(Only(u, S))}
<1>1. <<>> \in P
  <2>1. Only(<<>>, S) = <<>>
    BY OnlyOfNone
  <2>2. ToSet(<<>>) = {} /\ Distinct(<<>>)
    BY DEF ToSet, Distinct
  <2> QED BY <2>1, <2>2
<1>2. ASSUME NEW u \in Seq(T), NEW x \in T, u \in P PROVE Append(u, x) \in P
  <2>1. ASSUME NEW v \in Seq(T)
        PROVE  /\ ToSet(Append(v, x)) = ToSet(v) \cup {x}
               /\ Distinct(Append(v, x)) <=> Distinct(v) /\ x \notin ToSet(v)
    BY AppendParts
  <2>2. Only(u, S) \in Seq(T)
    BY OnlyTyped
  <2>5. Append(u, x) \in Seq(T)
    OBVIOUS
  <2>3. CASE x \in S
    <3>1. Only(Append(u, x), S) = Append(Only(u, S), x)
      BY <2>3, OnlyKeeps
    <3>2. ToSet(Append(Only(u, S), x)) = ToSet(Append(u, x)) \cap S
      BY <1>2, <2>1, <2>2, <2>3
    <3>3. Distinct(Append(u, x)) => Distinct(Append(Only(u, S), x))
      BY <1>2, <2>1, <2>2, <2>3
    <3> QED BY <2>5, <3>1, <3>2, <3>3
  <2>4. CASE x \notin S
    <3>1. Only(Append(u, x), S) = Only(u, S)
      BY <2>4, OnlyDrops
    <3>2. ToSet(Only(u, S)) = ToSet(Append(u, x)) \cap S
      BY <1>2, <2>1, <2>4
    <3>3. Distinct(Append(u, x)) => Distinct(Only(u, S))
      BY <1>2, <2>1
    <3> QED BY <2>5, <3>1, <3>2, <3>3
  <2> QED BY <2>3, <2>4
<1>3. Seq(T) \subseteq P
  <2> HIDE DEF P
  <2> QED BY <1>1, <1>2, GrowingUp
<1> QED BY <1>3

\* Graphs of nodes and edges of any kind.
Graphs(N, E) == [nodes : Seq(N), edges : Seq(E)]

SortStates(graph) ==
  [queue : Seq(Ids(graph)), order : Seq(Ids(graph)), indeg : [Ids(graph) -> Int]]

\* The edges into a node that have not been relaxed, and those out of the nodes
\* of an order.
Into(graph, x, done) == {i \in DrivingEdges(graph) : graph.edges[i].to = x /\ i \notin done}
OutOf(graph, ids) == {i \in DrivingEdges(graph) : graph.edges[i].from \in ids}

\* Each conjunct of the sorting's invariant; done are the edges relaxed so far.
Counted(graph, s, done) == \A x \in Ids(graph) : s.indeg[x] = Cardinality(Into(graph, x, done))
OnceEach(s) == Distinct(s.queue) /\ Distinct(s.order) /\ ToSet(s.queue) \cap ToSet(s.order) = {}
QueuedWhenFree(graph, s, done) ==
  \A x \in Ids(graph) : x \in ToSet(s.queue) \cup ToSet(s.order) <=> Into(graph, x, done) = {}
Ordered(graph, order) ==
  \A j \in DOMAIN order : \A i \in DrivingEdges(graph) : graph.edges[i].to = order[j] =>
    \E k \in DOMAIN order : k < j /\ order[k] = graph.edges[i].from

Sorting(graph, s, done) ==
  /\ s \in SortStates(graph)
  /\ Counted(graph, s, done)
  /\ OnceEach(s)
  /\ QueuedWhenFree(graph, s, done)
  /\ done \subseteq OutOf(graph, ToSet(s.order))
  /\ Ordered(graph, s.order)

LEMMA EdgesFinite ==
  ASSUME NEW N, NEW E, NEW graph \in Graphs(N, E), NEW x, NEW done
  PROVE  IsFiniteSet(Into(graph, x, done)) /\ Cardinality(Into(graph, x, done)) \in Nat
<1>1. DOMAIN graph.edges = 1 .. Len(graph.edges) /\ Len(graph.edges) \in Nat
  BY DEF Graphs
<1>2. IsFiniteSet(1 .. Len(graph.edges))
  BY <1>1, FS_Interval
<1>3. Into(graph, x, done) \in SUBSET (1 .. Len(graph.edges))
  BY <1>1 DEF Into, DrivingEdges
<1>4. IsFiniteSet(Into(graph, x, done))
  BY <1>2, <1>3, FS_Subset
<1> QED BY <1>4, FS_CardinalityType

\* What relaxing the edge i into id changes.
Lessened(graph, id, i, done) ==
  /\ Into(graph, id, done) # {}
  /\ Cardinality(Into(graph, id, done \cup {i})) = Cardinality(Into(graph, id, done)) - 1
  /\ \A x : x # id => Into(graph, x, done \cup {i}) = Into(graph, x, done)

LEMMA OneLess ==
  ASSUME NEW N, NEW E, NEW graph \in Graphs(N, E), NEW done,
         NEW i \in DrivingEdges(graph), i \notin done
  PROVE  Lessened(graph, graph.edges[i].to, i, done)
<1> DEFINE x == graph.edges[i].to
<1>1. i \in Into(graph, x, done)
  BY DEF Into
<1>2. Into(graph, x, done \cup {i}) = Into(graph, x, done) \ {i}
  BY DEF Into
<1>3. Cardinality(Into(graph, x, done) \ {i}) = Cardinality(Into(graph, x, done)) - 1
  BY <1>1, EdgesFinite, FS_RemoveElement
<1>4. \A y : y # x => Into(graph, y, done \cup {i}) = Into(graph, y, done)
  BY DEF Into
<1> QED BY <1>1, <1>2, <1>3, <1>4 DEF Lessened

\* Relaxing an edge keeps the invariant.
LEMMA RelaxKeeps ==
  ASSUME NEW N, NEW E, NEW graph \in Graphs(N, E), NEW s, NEW done,
         Sorting(graph, s, done),
         NEW i \in DrivingEdges(graph), i \notin done, graph.edges[i].from \in ToSet(s.order)
  PROVE  Sorting(graph, Relax(s, graph.edges[i].to), done \cup {i})
<1> DEFINE id == graph.edges[i].to
           indeg == [s.indeg EXCEPT ![id] = @ - 1]
           queue == IF s.indeg[id] = 1 THEN Append(s.queue, id) ELSE s.queue
           r == Relax(s, id)
<1>1. id \in Ids(graph)
  BY DEF DrivingEdges
<1>2. s.queue \in Seq(Ids(graph)) /\ s.order \in Seq(Ids(graph)) /\ s.indeg \in [Ids(graph) -> Int]
  BY DEF Sorting, SortStates
<1>3. r = [queue |-> queue, order |-> s.order, indeg |-> indeg]
  BY DEF Relax
<1>4. r.queue = queue /\ r.order = s.order /\ r.indeg = indeg
  BY <1>3
<1>5. r \in SortStates(graph)
  <2>1. queue \in Seq(Ids(graph))
    BY <1>1, <1>2
  <2>2. indeg \in [Ids(graph) -> Int]
    BY <1>1, <1>2
  <2> HIDE DEF queue, indeg, r
  <2> QED BY <1>2, <1>3, <2>1, <2>2 DEF SortStates
<1>6. /\ Into(graph, id, done) # {}
      /\ Cardinality(Into(graph, id, done \cup {i})) = Cardinality(Into(graph, id, done)) - 1
      /\ \A x : x # id => Into(graph, x, done \cup {i}) = Into(graph, x, done)
  <2>1. Lessened(graph, id, i, done)
    BY OneLess
  <2> HIDE DEF id
  <2> QED BY <2>1 DEF Lessened
<1>7. \A x \in Ids(graph) : s.indeg[x] = Cardinality(Into(graph, x, done))
  BY DEF Sorting, Counted
<1>8. Counted(graph, r, done \cup {i})
  <2>1. \A x \in Ids(graph) : indeg[x] = IF x = id THEN s.indeg[x] - 1 ELSE s.indeg[x]
    BY <1>1, <1>2
  <2> HIDE DEF indeg, r, id
  <2>2. \A x \in Ids(graph) : r.indeg[x] = Cardinality(Into(graph, x, done \cup {i}))
    BY <1>4, <1>6, <1>7, <2>1
  <2> QED BY <2>2 DEF Counted
<1>9. s.indeg[id] = 1 <=> Into(graph, id, done \cup {i}) = {}
  <2>1. s.indeg[id] = Cardinality(Into(graph, id, done \cup {i})) + 1
    <3>1. Cardinality(Into(graph, id, done)) \in Nat
      BY EdgesFinite
    <3> HIDE DEF id
    <3> QED BY <1>1, <1>6, <1>7, <3>1
  <2>2. Cardinality(Into(graph, id, done \cup {i})) = 0 <=> Into(graph, id, done \cup {i}) = {}
    BY EdgesFinite, FS_EmptySet
  <2>3. Cardinality(Into(graph, id, done \cup {i})) \in Nat
    BY EdgesFinite
  <2> DEFINE c == Cardinality(Into(graph, id, done \cup {i}))
             d == s.indeg[id]
  <2>4. d = c + 1 /\ c \in Nat
    BY <2>1, <2>3
  <2> HIDE DEF c, d
  <2>5. d = 1 <=> c = 0
    BY <2>4
  <2> QED BY <2>2, <2>5 DEF c, d
<1>10. id \notin ToSet(s.queue) \cup ToSet(s.order)
  BY <1>1, <1>6 DEF Sorting, QueuedWhenFree
<1>11. /\ Distinct(queue)
       /\ ToSet(queue) = ToSet(s.queue) \cup (IF s.indeg[id] = 1 THEN {id} ELSE {})
  <2>1. Distinct(s.queue)
    BY DEF Sorting, OnceEach
  <2> HIDE DEF id
  <2>2. CASE s.indeg[id] = 1
    BY <1>1, <1>2, <1>10, <2>1, <2>2, AppendParts
  <2>3. CASE s.indeg[id] # 1
    BY <2>1, <2>3
  <2> QED BY <2>2, <2>3
<1>12. OnceEach(r)
  <2> HIDE DEF queue, r, id
  <2> QED BY <1>4, <1>10, <1>11 DEF Sorting, OnceEach
<1>13. QueuedWhenFree(graph, r, done \cup {i})
  <2> HIDE DEF queue, r, id
  <2>1. \A x \in Ids(graph) :
          x \in ToSet(s.queue) \cup ToSet(s.order) <=> Into(graph, x, done) = {}
    BY DEF Sorting, QueuedWhenFree
  <2>2. \A x \in Ids(graph) : x \in ToSet(queue) \cup ToSet(s.order)
                                <=> Into(graph, x, done \cup {i}) = {}
    BY <1>6, <1>9, <1>10, <1>11, <2>1
  <2> QED BY <1>4, <2>2 DEF QueuedWhenFree
<1>14. done \cup {i} \subseteq OutOf(graph, ToSet(r.order))
  BY <1>4 DEF Sorting, OutOf
<1>15. Ordered(graph, r.order)
  BY <1>4 DEF Sorting
<1> QED BY <1>5, <1>8, <1>12, <1>13, <1>14, <1>15 DEF Sorting

\* Taking the head of the queue into the order keeps it.
LEMMA TakeKeeps ==
  ASSUME NEW N, NEW E, NEW graph \in Graphs(N, E), NEW s, NEW done,
         Sorting(graph, s, done), s.queue # <<>>
  PROVE  /\ Sorting(graph, [queue |-> Tail(s.queue), order |-> Append(s.order, Head(s.queue)),
                            indeg |-> s.indeg], done)
         /\ Head(s.queue) \in Ids(graph) \ ToSet(s.order)
<1> DEFINE id == Head(s.queue)
           queue == Tail(s.queue)
           order == Append(s.order, id)
           r == [queue |-> queue, order |-> order, indeg |-> s.indeg]
           I == Ids(graph)
<1>1. s.queue \in Seq(I) /\ s.order \in Seq(I) /\ s.indeg \in [I -> Int]
  BY DEF Sorting, SortStates
<1>2. id \in I /\ queue \in Seq(I) /\ order \in Seq(I)
  BY <1>1
<1>3. ToSet(s.queue) = {id} \cup ToSet(queue) /\ id \notin ToSet(queue) /\ Distinct(queue)
  <2>1. Len(s.queue) \in Nat /\ Len(s.queue) > 0 /\ DOMAIN s.queue = 1 .. Len(s.queue)
    BY <1>1
  <2>2. DOMAIN queue = 1 .. Len(s.queue) - 1
    BY <1>1, <2>1
  <2>3. \A i \in 1 .. Len(s.queue) - 1 : queue[i] = s.queue[i + 1]
    BY <1>1, <2>1
  <2>4. id = s.queue[1]
    BY <1>1, <2>1
  <2>5. \A i, j \in DOMAIN s.queue : s.queue[i] = s.queue[j] => i = j
    BY DEF Sorting, OnceEach, Distinct
  <2>6. \A i \in 1 .. Len(s.queue) : i = 1 \/ (i - 1 \in 1 .. Len(s.queue) - 1 /\ (i - 1) + 1 = i)
    BY <2>1
  <2>7. \A i \in 1 .. Len(s.queue) - 1 : i + 1 \in 1 .. Len(s.queue) /\ i + 1 # 1
    BY <2>1
  <2> HIDE DEF id, queue
  <2>8. ToSet(s.queue) = {id} \cup ToSet(queue)
    <3>1. ASSUME NEW i \in DOMAIN s.queue PROVE s.queue[i] \in {id} \cup ToSet(queue)
      <4>1. CASE i = 1
        BY <2>4, <4>1
      <4>2. CASE i # 1
        <5>1. PICK k \in DOMAIN queue : k + 1 = i
          BY <2>1, <2>2, <2>6, <4>2
        <5> QED BY <2>2, <2>3, <5>1 DEF ToSet
      <4> QED BY <4>1, <4>2
    <3>2. ASSUME NEW i \in DOMAIN queue PROVE queue[i] \in ToSet(s.queue)
      BY <2>1, <2>2, <2>3, <2>7 DEF ToSet
    <3>3. id \in ToSet(s.queue)
      BY <2>1, <2>4 DEF ToSet
    <3> QED BY <3>1, <3>2, <3>3 DEF ToSet
  <2>9. id \notin ToSet(queue)
    <3>1. 1 \in DOMAIN s.queue
      BY <2>1
    <3>2. ASSUME NEW i \in DOMAIN queue, queue[i] = id PROVE FALSE
      <4>1. i + 1 \in DOMAIN s.queue /\ i + 1 # 1 /\ s.queue[i + 1] = s.queue[1]
        BY <2>1, <2>2, <2>3, <2>4, <2>7, <3>2
      <4> QED BY <2>5, <3>1, <4>1
    <3> QED BY <3>2 DEF ToSet
  <2>10. Distinct(queue)
    <3>1. ASSUME NEW i \in DOMAIN queue, NEW j \in DOMAIN queue, queue[i] = queue[j] PROVE i = j
      <4>1. i + 1 \in DOMAIN s.queue /\ j + 1 \in DOMAIN s.queue
        BY <2>1, <2>2, <2>7
      <4>2. s.queue[i + 1] = s.queue[j + 1]
        BY <2>2, <2>3, <3>1
      <4>3. i + 1 = j + 1
        BY <2>5, <4>1, <4>2
      <4> QED BY <2>1, <2>2, <4>3
    <3> QED BY <3>1 DEF Distinct
  <2> QED BY <2>8, <2>9, <2>10
<1>4. /\ Distinct(s.order) /\ ToSet(s.queue) \cap ToSet(s.order) = {}
      /\ id \notin ToSet(s.order)
  BY <1>3 DEF Sorting, OnceEach
<1>5. Distinct(order) /\ ToSet(order) = ToSet(s.order) \cup {id}
  BY <1>1, <1>2, <1>4, AppendParts
<1>6. r.queue = queue /\ r.order = order /\ r.indeg = s.indeg
  OBVIOUS
<1>7. Into(graph, id, done) = {}
  BY <1>2, <1>3 DEF Sorting, QueuedWhenFree
<1>8. Ordered(graph, order)
  <2> SUFFICES ASSUME NEW j \in DOMAIN order, NEW i \in DrivingEdges(graph),
                      graph.edges[i].to = order[j]
               PROVE  \E k \in DOMAIN order : k < j /\ order[k] = graph.edges[i].from
    BY DEF Ordered
  <2>1. Len(s.order) \in Nat /\ DOMAIN s.order = 1 .. Len(s.order)
        /\ DOMAIN order = 1 .. Len(s.order) + 1
    BY <1>1, <1>2
  <2>2. order[Len(s.order) + 1] = id /\ \A k \in 1 .. Len(s.order) : order[k] = s.order[k]
    BY <1>1, <1>2
  <2> HIDE DEF id, order
  <2>3. CASE j = Len(s.order) + 1
    <3>1. i \in done
      BY <1>7, <2>2, <2>3 DEF Into
    <3>2. graph.edges[i].from \in ToSet(s.order)
      BY <3>1 DEF Sorting, OutOf
    <3>3. PICK k \in DOMAIN s.order : s.order[k] = graph.edges[i].from
      BY <3>2 DEF ToSet
    <3> QED BY <2>1, <2>2, <2>3, <3>3
  <2>4. CASE j # Len(s.order) + 1
    <3>1. j \in DOMAIN s.order /\ order[j] = s.order[j]
      BY <2>1, <2>2, <2>4
    <3>2. PICK k \in DOMAIN s.order : k < j /\ s.order[k] = graph.edges[i].from
      BY <3>1 DEF Sorting, Ordered
    <3> QED BY <2>1, <2>2, <3>2
  <2> QED BY <2>3, <2>4
<1>9. r \in SortStates(graph)
  <2> HIDE DEF queue, order
  <2> QED BY <1>1, <1>2 DEF SortStates
<1> HIDE DEF queue, order, r, id
<1>10. Counted(graph, r, done)
  BY <1>6 DEF Sorting, Counted
<1>11. OnceEach(r)
  BY <1>3, <1>4, <1>5, <1>6 DEF OnceEach
<1>12. QueuedWhenFree(graph, r, done)
  <2>1. ToSet(r.queue) \cup ToSet(r.order) = ToSet(s.queue) \cup ToSet(s.order)
    BY <1>3, <1>5, <1>6
  <2> QED BY <2>1 DEF Sorting, QueuedWhenFree
<1>13. done \subseteq OutOf(graph, ToSet(r.order))
  BY <1>5, <1>6 DEF Sorting, OutOf
<1>14. Sorting(graph, r, done)
  BY <1>6, <1>8, <1>9, <1>10, <1>11, <1>12, <1>13 DEF Sorting
<1> QED BY <1>2, <1>4, <1>14 DEF r, queue, order, id

\* How the relaxing after a pop goes on, edge by edge.
RelaxSteps(graph, s, f) ==
  /\ f[0] = [queue |-> Tail(s.queue), order |-> Append(s.order, Head(s.queue)),
             indeg |-> s.indeg]
  /\ \A k \in 1 .. Len(graph.edges) :
       f[k] = IF k \in DrivingEdges(graph) /\ graph.edges[k].from = Head(s.queue)
              THEN Relax(f[k - 1], graph.edges[k].to) ELSE f[k - 1]

LEMMA RelaxTyped ==
  ASSUME NEW graph, NEW s \in SortStates(graph), NEW id \in Ids(graph)
  PROVE  Relax(s, id) \in SortStates(graph)
<1> DEFINE queue == IF s.indeg[id] = 1 THEN Append(s.queue, id) ELSE s.queue
           indeg == [s.indeg EXCEPT ![id] = @ - 1]
<1>1. s.queue \in Seq(Ids(graph)) /\ s.order \in Seq(Ids(graph)) /\ s.indeg \in [Ids(graph) -> Int]
  BY DEF SortStates
<1>2. queue \in Seq(Ids(graph)) /\ indeg \in [Ids(graph) -> Int]
  BY <1>1
<1>3. Relax(s, id) = [queue |-> queue, order |-> s.order, indeg |-> indeg]
  BY DEF Relax
<1> HIDE DEF queue, indeg
<1> QED BY <1>1, <1>2, <1>3 DEF SortStates

LEMMA PopExists ==
  ASSUME NEW N, NEW E, NEW graph \in Graphs(N, E), NEW s \in SortStates(graph), s.queue # <<>>
  PROVE  \E f : RelaxSteps(graph, s, f) /\ Pop(graph, s) = f[Len(graph.edges)]
<1> DEFINE n == Len(graph.edges)
           V == SortStates(graph)
           id == Head(s.queue)
           base == [queue |-> Tail(s.queue), order |-> Append(s.order, id), indeg |-> s.indeg]
           On(k) == k \in DrivingEdges(graph) /\ graph.edges[k].from = id
           to == [k \in 1 .. n |-> graph.edges[k].to]
           step == [p \in (1 .. n) \X V |->
                      IF On(p[1]) THEN Relax(p[2], graph.edges[p[1]].to) ELSE p[2]]
           Is(f) == f = [k \in 0 .. n |->
                          IF k = 0 THEN base
                          ELSE IF On(k) THEN Relax(f[k - 1], graph.edges[k].to)
                               ELSE f[k - 1]]
           relaxed == CHOOSE f : Is(f)
<1>1. n \in Nat
  BY DEF Graphs
<1>2. base \in V
  BY DEF SortStates
<1>3. \A k \in 1 .. n, v \in V :
        (IF On(k) THEN Relax(v, graph.edges[k].to) ELSE v) \in V
  <2> TAKE k \in 1 .. n, v \in V
  <2>1. CASE On(k)
    <3>1. graph.edges[k].to \in Ids(graph)
      BY <2>1 DEF DrivingEdges
    <3>2. Relax(v, graph.edges[k].to) \in V
      BY <3>1, RelaxTyped
    <3> QED BY <2>1, <3>2
  <2>2. CASE ~On(k)
    BY <2>2
  <2> QED BY <2>1, <2>2
<1>4. step \in [(1 .. n) \X V -> V]
  <2> HIDE DEF n, V, On
  <2> QED BY <1>3
<1>5. \A k \in 1 .. n, v \in V :
        step[<<k, v>>] = IF On(k) THEN Relax(v, graph.edges[k].to) ELSE v
  <2> HIDE DEF n, V, On
  <2> QED OBVIOUS
<1>6. Pop(graph, s) = relaxed[n]
  BY DEF Pop
<1> HIDE DEF step, V, base, On, relaxed, n, id
<1>7. Recursion(n, V, base, step)
  BY <1>1, <1>2, <1>4, RecursionExists
<1>8. PICK f \in [0 .. n -> V] :
        f[0] = base /\ \A k \in 1 .. n : f[k] = step[<<k, f[k - 1]>>]
  BY <1>7 DEF Recursion
<1>9. \A k \in 1 .. n : k # 0 /\ k - 1 \in 0 .. n /\ k \in 0 .. n
  BY <1>1
<1>10. 0 \in 0 .. n /\ \A k \in 0 .. n : k # 0 => k \in 1 .. n
  BY <1>1
<1>11. \A k \in 1 .. n : f[k] = IF On(k) THEN Relax(f[k - 1], graph.edges[k].to) ELSE f[k - 1]
  BY <1>5, <1>8, <1>9
<1>12. f = [k \in 0 .. n |-> f[k]]
  BY <1>8
<1>13. Is(f)
  BY <1>8, <1>10, <1>11, <1>12
<1>14. Is(relaxed)
  BY <1>13 DEF relaxed
<1>15. relaxed[0] = base
  BY <1>10, <1>14
<1>16. \A k \in 1 .. n : relaxed[k] =
         IF On(k) THEN Relax(relaxed[k - 1], graph.edges[k].to) ELSE relaxed[k - 1]
  BY <1>9, <1>14
<1>17. RelaxSteps(graph, s, relaxed)
  BY <1>15, <1>16 DEF RelaxSteps, base, On, n, id
<1> QED BY <1>6, <1>17 DEF n

\* A state of the sorting with all edges out of its order relaxed.
Sorted(graph, s) == Sorting(graph, s, OutOf(graph, ToSet(s.order)))

LEMMA PopKeeps ==
  ASSUME NEW N, NEW E, NEW graph \in Graphs(N, E), NEW s, Sorted(graph, s), s.queue # <<>>
  PROVE  Sorted(graph, Pop(graph, s)) /\ Len(Pop(graph, s).order) = Len(s.order) + 1
<1> DEFINE n == Len(graph.edges)
           id == Head(s.queue)
           order == Append(s.order, id)
           D(k) == OutOf(graph, ToSet(s.order)) \cup
                   {i \in DrivingEdges(graph) : i <= k /\ graph.edges[i].from = id}
<1>1. s \in SortStates(graph) /\ s.order \in Seq(Ids(graph)) /\ Len(s.order) \in Nat
  BY DEF Sorted, Sorting, SortStates
<1>2. PICK f : RelaxSteps(graph, s, f) /\ Pop(graph, s) = f[n]
  BY <1>1, PopExists
<1>3. n \in Nat /\ DrivingEdges(graph) \subseteq 1 .. n
  BY DEF Graphs, DrivingEdges
<1>4. /\ Sorting(graph, f[0], OutOf(graph, ToSet(s.order)))
      /\ id \in Ids(graph) \ ToSet(s.order)
      /\ f[0].order = order
  <2> DEFINE done == OutOf(graph, ToSet(s.order))
             r == [queue |-> Tail(s.queue), order |-> Append(s.order, Head(s.queue)),
                   indeg |-> s.indeg]
  <2>1. Sorting(graph, s, done)
    BY DEF Sorted
  <2>2. f[0] = r /\ r.order = order
    BY <1>2 DEF RelaxSteps
  <2> HIDE DEF done
  <2>3. Sorting(graph, r, done) /\ id \in Ids(graph) \ ToSet(s.order)
    BY <2>1, TakeKeeps
  <2> HIDE DEF r
  <2> QED BY <2>2, <2>3 DEF done
<1>5. ToSet(order) = ToSet(s.order) \cup {id}
  BY <1>1, <1>4, AppendParts
<1> DEFINE P == {k \in 0 .. n : Sorting(graph, f[k], D(k)) /\ f[k].order = order}
<1>6. 0 \in P
  <2>1. D(0) = OutOf(graph, ToSet(s.order))
    BY <1>3
  <2> HIDE DEF D, order
  <2>2. 0 \in 0 .. n
    BY <1>3
  <2> QED BY <1>4, <2>1, <2>2
<1>7. ASSUME NEW k \in 0 .. n - 1, k \in P PROVE k + 1 \in P
  <2>1. k + 1 \in 1 .. n /\ (k + 1) - 1 = k /\ k + 1 \in 0 .. n
    BY <1>3
  <2>2. f[k + 1] = IF k + 1 \in DrivingEdges(graph) /\ graph.edges[k + 1].from = id
                   THEN Relax(f[k], graph.edges[k + 1].to) ELSE f[k]
    BY <1>2, <2>1 DEF RelaxSteps
  <2>3. Sorting(graph, f[k], D(k)) /\ f[k].order = order
    BY <1>7
  <2>4. CASE k + 1 \in DrivingEdges(graph) /\ graph.edges[k + 1].from = id
    <3>1. k + 1 \notin D(k)
      BY <1>4, <2>1, <2>4 DEF OutOf
    <3>2. D(k + 1) = D(k) \cup {k + 1}
      BY <1>3, <2>1, <2>4
    <3>3. graph.edges[k + 1].from \in ToSet(f[k].order)
      BY <1>5, <2>3, <2>4
    <3> HIDE DEF D, order, id, n
    <3>4. Sorting(graph, Relax(f[k], graph.edges[k + 1].to), D(k) \cup {k + 1})
      BY <2>3, <2>4, <3>1, <3>3, RelaxKeeps
    <3>5. Relax(f[k], graph.edges[k + 1].to).order = f[k].order
      BY DEF Relax
    <3> QED BY <2>1, <2>2, <2>3, <2>4, <3>2, <3>4, <3>5
  <2>5. CASE ~(k + 1 \in DrivingEdges(graph) /\ graph.edges[k + 1].from = id)
    <3>1. D(k + 1) = D(k)
      BY <1>3, <2>1, <2>5
    <3> HIDE DEF D, order, id, n
    <3> QED BY <2>1, <2>2, <2>3, <2>5, <3>1
  <2> QED BY <2>4, <2>5
<1>8. \A k \in 0 .. n : k \in P
  <2> HIDE DEF P, n
  <2> QED BY <1>3, <1>6, <1>7, CountingUp
<1>9. Sorting(graph, f[n], D(n)) /\ f[n].order = order
  <2>1. n \in P
    <3> HIDE DEF P, n
    <3> QED BY <1>3, <1>8
  <2> HIDE DEF n, D, order
  <2> QED BY <2>1
<1>10. D(n) = OutOf(graph, ToSet(order))
  BY <1>3, <1>5 DEF OutOf
<1>11. Len(order) = Len(s.order) + 1
  BY <1>1, <1>4
<1> HIDE DEF D, order
<1> QED BY <1>2, <1>9, <1>10, <1>11 DEF Sorted

LEMMA StartSorted ==
  ASSUME NEW N, NEW E, NEW graph \in Graphs(N, E), DuplicateIds(graph) = {}
  PROVE  /\ Sorted(graph, Start(graph)) /\ Start(graph).order = <<>>
         /\ IsFiniteSet(Ids(graph)) /\ Cardinality(Ids(graph)) = Len(graph.nodes)
<1> DEFINE I == Ids(graph)
           ids == [i \in DOMAIN graph.nodes |-> graph.nodes[i].id]
           indeg == [x \in I |-> Cardinality({i \in DrivingEdges(graph) : graph.edges[i].to = x})]
           free == {x \in I : indeg[x] = 0}
           queue == Only(ids, free)
           s == Start(graph)
<1>1. Len(graph.nodes) \in Nat /\ DOMAIN graph.nodes = 1 .. Len(graph.nodes)
  BY DEF Graphs
<1>2. ToSet(ids) = I
  BY DEF Ids, ToSet
<1>3. ids \in Seq(I) /\ Len(ids) = Len(graph.nodes)
  <2>1. ids = [i \in 1 .. Len(graph.nodes) |-> graph.nodes[i].id]
    BY <1>1
  <2>2. \A i \in 1 .. Len(graph.nodes) : graph.nodes[i].id \in I
    BY <1>1 DEF Ids, ToSet
  <2> HIDE DEF ids
  <2> QED BY <1>1, <2>1, <2>2
<1>4. Distinct(ids)
  <2> SUFFICES ASSUME NEW i \in DOMAIN graph.nodes, NEW j \in DOMAIN graph.nodes,
                      graph.nodes[i].id = graph.nodes[j].id, i # j
               PROVE  FALSE
    BY DEF Distinct
  <2>1. graph.nodes[i].id \in I
    BY DEF Ids, ToSet
  <2>2. [code |-> "duplicate_node_id", node |-> graph.nodes[i].id] \in DuplicateIds(graph)
    BY <2>1 DEF DuplicateIds
  <2> QED BY <2>2
<1>5. IsFiniteSet(I) /\ Cardinality(I) = Len(graph.nodes)
  <2> HIDE DEF ids, I
  <2> QED BY <1>2, <1>3, <1>4, DistinctCounts
<1>6. s = [queue |-> queue, order |-> <<>>, indeg |-> indeg]
  BY DEF Start
<1>7. queue \in Seq(I) /\ Distinct(queue) /\ ToSet(queue) = free
  <2>1. free \subseteq I
    OBVIOUS
  <2> HIDE DEF ids, I, free
  <2>2. queue \in Seq(I) /\ Distinct(queue) /\ ToSet(queue) = ToSet(ids) \cap free
    BY <1>3, <1>4, OnlyTyped, OnlyDistinct
  <2> QED BY <1>2, <2>1, <2>2
<1> DEFINE none == <<>>
<1>8. ToSet(none) = {} /\ none \in Seq(I) /\ Distinct(none) /\ DOMAIN none = {}
  BY DEF ToSet, Distinct
<1>9. OutOf(graph, ToSet(none)) = {}
  BY <1>8 DEF OutOf
<1>10. \A x \in I : indeg[x] = Cardinality(Into(graph, x, {}))
  BY DEF Into
<1>11. indeg \in [I -> Int]
  <2>1. \A x \in I : Cardinality(Into(graph, x, {})) \in Int
    BY EdgesFinite
  <2>2. indeg = [x \in I |-> indeg[x]]
    OBVIOUS
  <2> HIDE DEF indeg
  <2> QED BY <1>10, <2>1, <2>2
<1>12. \A x \in I : x \in free <=> Into(graph, x, {}) = {}
  <2>1. \A x \in I : Cardinality(Into(graph, x, {})) = 0 <=> Into(graph, x, {}) = {}
    BY EdgesFinite, FS_EmptySet
  <2> HIDE DEF indeg
  <2> QED BY <1>10, <2>1
<1>13. s.queue = queue /\ s.order = none /\ s.indeg = indeg
  BY <1>6
<1>14. s = [queue |-> queue, order |-> none, indeg |-> indeg]
  BY <1>6
<1> HIDE DEF s, queue, none, indeg, free, ids
<1>15. s \in SortStates(graph)
  BY <1>7, <1>8, <1>11, <1>14 DEF SortStates
<1>16. Counted(graph, s, {}) /\ OnceEach(s) /\ QueuedWhenFree(graph, s, {})
  BY <1>7, <1>8, <1>10, <1>12, <1>13 DEF Counted, OnceEach, QueuedWhenFree
<1>17. Ordered(graph, none)
  BY <1>8 DEF Ordered
<1>18. Sorting(graph, s, OutOf(graph, ToSet(s.order)))
  BY <1>9, <1>13, <1>15, <1>16, <1>17 DEF Sorting
<1> QED BY <1>5, <1>13, <1>18 DEF Sorted, s, none

\* How the sorting goes on, pop by pop.
SortSteps(graph, f) ==
  /\ f[0] = Start(graph)
  /\ \A n \in 1 .. Len(graph.nodes) :
       f[n] = IF f[n - 1].queue = <<>> THEN f[n - 1] ELSE Pop(graph, f[n - 1])

OrderOf(graph, order) ==
  IF Len(order) = Len(graph.nodes) THEN order
  ELSE [i \in DOMAIN graph.nodes |-> graph.nodes[i].id]

LEMMA SortExists ==
  ASSUME NEW N, NEW E, NEW graph \in Graphs(N, E), DuplicateIds(graph) = {}
  PROVE  \E f : /\ SortSteps(graph, f)
                /\ TopoOrder(graph) = OrderOf(graph, f[Len(graph.nodes)].order)
<1> DEFINE n == Len(graph.nodes)
           V == {s \in SortStates(graph) : Sorted(graph, s)}
           base == Start(graph)
           step == [p \in (1 .. n) \X V |-> IF p[2].queue = <<>> THEN p[2] ELSE Pop(graph, p[2])]
           Is(f) == f = [k \in 0 .. n |->
                          IF k = 0 THEN base
                          ELSE IF f[k - 1].queue = <<>> THEN f[k - 1] ELSE Pop(graph, f[k - 1])]
           after == CHOOSE f : Is(f)
<1>1. n \in Nat
  BY DEF Graphs
<1>2. base \in V
  BY StartSorted DEF Sorted, Sorting
<1>3. \A v \in V : (IF v.queue = <<>> THEN v ELSE Pop(graph, v)) \in V
  <2> TAKE v \in V
  <2>1. CASE v.queue # <<>>
    <3>1. Sorted(graph, Pop(graph, v))
      BY <2>1, PopKeeps
    <3>2. Pop(graph, v) \in SortStates(graph)
      BY <3>1 DEF Sorted, Sorting
    <3> QED BY <2>1, <3>1, <3>2
  <2> QED BY <2>1
<1>4. step \in [(1 .. n) \X V -> V]
  <2> HIDE DEF n, V
  <2> QED BY <1>3
<1>5. \A k \in 1 .. n, v \in V :
        step[<<k, v>>] = IF v.queue = <<>> THEN v ELSE Pop(graph, v)
  <2> HIDE DEF n, V
  <2> QED OBVIOUS
<1>6. TopoOrder(graph) = OrderOf(graph, after[n].order)
  BY DEF TopoOrder, OrderOf
<1> HIDE DEF step, V, base, after, n
<1>7. Recursion(n, V, base, step)
  BY <1>1, <1>2, <1>4, RecursionExists
<1>8. PICK f \in [0 .. n -> V] :
        f[0] = base /\ \A k \in 1 .. n : f[k] = step[<<k, f[k - 1]>>]
  BY <1>7 DEF Recursion
<1>9. \A k \in 1 .. n : k # 0 /\ k - 1 \in 0 .. n /\ k \in 0 .. n
  BY <1>1
<1>10. 0 \in 0 .. n /\ \A k \in 0 .. n : k # 0 => k \in 1 .. n
  BY <1>1
<1>11. \A k \in 1 .. n :
         f[k] = IF f[k - 1].queue = <<>> THEN f[k - 1] ELSE Pop(graph, f[k - 1])
  BY <1>5, <1>8, <1>9
<1>12. f = [k \in 0 .. n |-> f[k]]
  BY <1>8
<1>13. Is(f)
  BY <1>8, <1>10, <1>11, <1>12
<1>14. Is(after)
  BY <1>13 DEF after
<1>15. after[0] = base
  BY <1>10, <1>14
<1>16. \A k \in 1 .. n :
         after[k] = IF after[k - 1].queue = <<>> THEN after[k - 1] ELSE Pop(graph, after[k - 1])
  BY <1>9, <1>14
<1>17. SortSteps(graph, after)
  BY <1>15, <1>16 DEF SortSteps, base, n
<1> QED BY <1>6, <1>17 DEF n

\* Without a cycle, nothing is left when the queue is empty.
LEMMA NothingLeft ==
  ASSUME NEW N, NEW E, NEW graph \in Graphs(N, E), NEW s, Sorted(graph, s), s.queue = <<>>,
         IsFiniteSet(Ids(graph)), Cycles(graph) = {}
  PROVE  ToSet(s.order) = Ids(graph)
<1> DEFINE R == Ids(graph) \ ToSet(s.order)
           Lead == {<<graph.edges[i].from, graph.edges[i].to>> : i \in DrivingEdges(graph)}
<1>1. ToSet(s.order) \subseteq Ids(graph)
  BY DEF Sorted, Sorting, SortStates, ToSet
<1>2. ToSet(s.queue) = {}
  BY DEF ToSet
<1>3. ASSUME R # {} PROVE FALSE
  <2>1. ASSUME NEW x \in R PROVE \E y \in R : <<y, x>> \in Lead
    <3>1. Into(graph, x, OutOf(graph, ToSet(s.order))) # {}
      BY <1>2 DEF Sorted, Sorting, QueuedWhenFree
    <3>2. PICK i \in DrivingEdges(graph) :
            graph.edges[i].to = x /\ graph.edges[i].from \notin ToSet(s.order)
      BY <3>1 DEF Into, OutOf
    <3>3. graph.edges[i].from \in R
      BY <3>2 DEF DrivingEdges
    <3> QED BY <3>2, <3>3
  <2>2. IsFiniteSet(R)
    BY FS_Subset
  <2>3. PICK C \in SUBSET R : C # {} /\ \A x \in C : \E y \in C : <<x, y>> \in Lead
    <3> HIDE DEF R, Lead
    <3> QED BY <1>3, <2>1, <2>2, WayRound
  <2>4. ASSUME NEW x \in C
        PROVE  \E i \in DrivingEdges(graph) : graph.edges[i].from = x /\ graph.edges[i].to \in C
    <3>1. PICK y \in C : <<x, y>> \in Lead
      BY <2>3
    <3> QED BY <3>1
  <2>5. PICK x \in C : TRUE
    BY <2>3
  <2>6. [code |-> "cycle_detected", node |-> x] \in Cycles(graph)
    BY <2>4, <2>5 DEF Cycles
  <2> QED BY <2>6
<1> QED BY <1>1, <1>3

\* The order of a graph without a cycle and without two nodes of one id.
LEMMA OrderIsSorted ==
  ASSUME NEW N, NEW E, NEW graph \in Graphs(N, E),
         DuplicateIds(graph) = {}, Cycles(graph) = {}
  PROVE  /\ Len(TopoOrder(graph)) = Len(graph.nodes) /\ ToSet(TopoOrder(graph)) = Ids(graph)
         /\ Ordered(graph, TopoOrder(graph))
<1> DEFINE n == Len(graph.nodes)
<1>1. PICK f : SortSteps(graph, f) /\ TopoOrder(graph) = OrderOf(graph, f[n].order)
  BY SortExists
<1>2. n \in Nat
  BY DEF Graphs
<1>3. /\ Sorted(graph, Start(graph)) /\ Start(graph).order = <<>>
      /\ IsFiniteSet(Ids(graph)) /\ Cardinality(Ids(graph)) = n
  BY StartSorted
<1> HIDE DEF n
<1> DEFINE P == {k \in 0 .. n : Sorted(graph, f[k]) /\ (f[k].queue = <<>> \/ Len(f[k].order) = k)}
<1>4. 0 \in P
  <2>1. f[0] = Start(graph) /\ 0 \in 0 .. n
    BY <1>1, <1>2 DEF SortSteps
  <2>2. Len(f[0].order) = 0
    BY <1>3, <2>1
  <2> QED BY <1>3, <2>1, <2>2
<1>5. ASSUME NEW k \in 0 .. n - 1, k \in P PROVE k + 1 \in P
  <2>1. k + 1 \in 1 .. n /\ (k + 1) - 1 = k /\ k + 1 \in 0 .. n
    BY <1>2
  <2>2. f[k + 1] = IF f[k].queue = <<>> THEN f[k] ELSE Pop(graph, f[k])
    BY <1>1, <2>1 DEF SortSteps, n
  <2>3. Sorted(graph, f[k]) /\ (f[k].queue = <<>> \/ Len(f[k].order) = k)
    BY <1>5
  <2>4. CASE f[k].queue = <<>>
    <3>1. f[k + 1] = f[k]
      BY <2>2, <2>4
    <3> QED BY <2>1, <2>3, <2>4, <3>1
  <2>5. CASE f[k].queue # <<>>
    <3>1. f[k + 1] = Pop(graph, f[k])
      BY <2>2, <2>5
    <3>2. Sorted(graph, Pop(graph, f[k])) /\ Len(Pop(graph, f[k]).order) = Len(f[k].order) + 1
      BY <2>3, <2>5, PopKeeps
    <3>3. Len(f[k].order) = k
      BY <2>3, <2>5
    <3> QED BY <2>1, <3>1, <3>2, <3>3
  <2> QED BY <2>4, <2>5
<1>6. n \in P
  <2>1. \A k \in 0 .. n : k \in P
    <3> HIDE DEF P
    <3> QED BY <1>2, <1>4, <1>5, CountingUp
  <2> QED BY <1>2, <2>1
<1> DEFINE s == f[n]
<1>7. Sorted(graph, s) /\ (s.queue = <<>> \/ Len(s.order) = n)
  BY <1>6
<1> HIDE DEF s
<1>8. s.order \in Seq(Ids(graph)) /\ Distinct(s.order) /\ Ordered(graph, s.order)
  BY <1>7 DEF Sorted, Sorting, SortStates, OnceEach
<1>9. IsFiniteSet(ToSet(s.order)) /\ Cardinality(ToSet(s.order)) = Len(s.order)
  BY <1>8, DistinctCounts
<1>10. ToSet(s.order) = Ids(graph)
  <2>1. CASE s.queue = <<>>
    BY <1>3, <1>7, <2>1, NothingLeft
  <2>2. CASE Len(s.order) = n
    <3>1. ToSet(s.order) \in SUBSET Ids(graph)
      BY <1>8 DEF ToSet
    <3> QED BY <1>3, <1>9, <2>2, <3>1, FS_Subset
  <2> QED BY <1>7, <2>1, <2>2
<1>11. Len(s.order) = n
  BY <1>3, <1>9, <1>10
<1>12. TopoOrder(graph) = s.order
  BY <1>1, <1>11 DEF OrderOf, n, s
<1> QED BY <1>8, <1>10, <1>11, <1>12 DEF n

LEMMA DanglingIs ==
  ASSUME NEW graph, NEW x,
         \E e \in ToSet(graph.edges) : x \in {e.from, e.to}, x \notin Ids(graph)
  PROVE  [code |-> "dangling_reference", node |-> x] \in DanglingRefs(graph)
<1>1. x \in (UNION {{e.from, e.to} : e \in ToSet(graph.edges)}) \ Ids(graph)
  OBVIOUS
<1> QED BY <1>1, Zenon DEF DanglingRefs

LEMMA EveryGraphOrdersItself ==
  ASSUME NEW N, NEW E, NEW graph \in Graphs(N, E)
  PROVE  GraphOrdersItself(graph)
<1> SUFFICES ASSUME ValidateLogicBackbone(graph) = {}
             PROVE  GraphOrdersItself(graph)
  BY DEF GraphOrdersItself
<1> DEFINE order == TopoOrder(graph)
<1>1. /\ DuplicateIds(graph) = {} /\ DanglingRefs(graph) = {} /\ Cycles(graph) = {}
      /\ ConsumptionAndTriggers(graph) = {}
  BY DEF ValidateLogicBackbone
<1>2. /\ Len(order) = Len(graph.nodes) /\ ToSet(order) = Ids(graph)
      /\ Ordered(graph, order)
  BY <1>1, OrderIsSorted
<1> HIDE DEF order
<1>3. ASSUME NEW e \in ToSet(graph.edges) PROVE e.from \in Ids(graph) /\ e.to \in Ids(graph)
  <2>1. ASSUME NEW x \in {e.from, e.to}, x \notin Ids(graph) PROVE FALSE
    <3>1. [code |-> "dangling_reference", node |-> x] \in DanglingRefs(graph)
      BY <2>1, DanglingIs
    <3> QED BY <1>1, <3>1
  <2> QED BY <2>1
<1>4. ASSUME NEW e \in ToSet(graph.edges), e.kind \in DrivingKinds
      PROVE  Precedes(order, e.from, e.to)
  <2>1. PICK i \in DOMAIN graph.edges : graph.edges[i] = e
    BY DEF ToSet
  <2>2. i \in DrivingEdges(graph)
    BY <1>3, <1>4, <2>1 DEF DrivingEdges
  <2>3. PICK j \in DOMAIN order : order[j] = e.to
    BY <1>2, <1>3 DEF ToSet
  <2>4. PICK k \in DOMAIN order : k < j /\ order[k] = e.from
    BY <1>2, <2>1, <2>2, <2>3 DEF Ordered
  <2> QED BY <2>3, <2>4 DEF Precedes
<1>5. ASSUME NEW m \in ToSet(graph.nodes), m.role \in MustBeConsumed
      PROVE  \E e \in ToSet(graph.edges) :
               e.kind \in DrivingKinds /\ e.from = m.id /\ Precedes(order, m.id, e.to)
  <2>1. [code |-> "orphan_node", node |-> m.id] \notin ConsumptionAndTriggers(graph)
    BY <1>1
  <2>2. m.id \in {e.from : e \in {e \in ToSet(graph.edges) :
                                    e.to \in Ids(graph) /\ e.kind \in DrivingKinds}}
    BY <1>5, <2>1 DEF ConsumptionAndTriggers
  <2>3. PICK e \in ToSet(graph.edges) : e.kind \in DrivingKinds /\ e.from = m.id
    BY <2>2
  <2> QED BY <1>4, <2>3
<1>6. ASSUME NEW m \in ToSet(graph.nodes), m.role = "trigger"
      PROVE  \E e \in Triggers(graph) : e.from = m.id /\ Precedes(order, m.id, e.to)
  <2>1. [code |-> "unbound_trigger", node |-> m.id] \notin ConsumptionAndTriggers(graph)
    BY <1>1
  <2>2. m.id \in {e.from : e \in {e \in ToSet(graph.edges) :
                                    e.to \in Ids(graph) /\ e.kind \in {"triggers"}}}
    BY <1>6, <2>1 DEF ConsumptionAndTriggers
  <2>3. PICK e \in ToSet(graph.edges) : e.kind = "triggers" /\ e.from = m.id
    BY <2>2
  <2> QED BY <1>4, <2>3 DEF Triggers, DrivingKinds
<1> QED BY <1>2, <1>4, <1>5, <1>6 DEF GraphOrdersItself, order

---------------------------------------------------------------------------
(* The steps of the profiles                                               *)

LEMMA ConcatHas ==
  ASSUME NEW T, NEW a \in Seq(T), NEW b \in Seq(T)
  PROVE  ToSet(a) \subseteq ToSet(a \o b) /\ ToSet(b) \subseteq ToSet(a \o b)
<1> DEFINE n == Len(a)
           m == Len(b)
<1>1. n \in Nat /\ m \in Nat /\ DOMAIN a = 1 .. n /\ DOMAIN b = 1 .. m
  OBVIOUS
<1>2. /\ a \o b \in Seq(T) /\ Len(a \o b) = n + m
      /\ \A i \in 1 .. n + m : (a \o b)[i] = IF i <= n THEN a[i] ELSE b[i - n]
  BY ConcatProperties
<1>3. DOMAIN (a \o b) = 1 .. n + m
  BY <1>2
<1> HIDE DEF n, m
<1>4. \A i \in 1 .. n : i \in 1 .. n + m /\ (a \o b)[i] = a[i]
  BY <1>1, <1>2
<1>5. \A i \in 1 .. m : n + i \in 1 .. n + m /\ (a \o b)[n + i] = b[i]
  <2> SUFFICES ASSUME NEW i \in 1 .. m
               PROVE  n + i \in 1 .. n + m /\ (a \o b)[n + i] = b[i]
    OBVIOUS
  <2>1. n + i \in 1 .. n + m /\ ~(n + i <= n) /\ (n + i) - n = i
    BY <1>1
  <2> QED BY <1>2, <2>1
<1> QED BY <1>1, <1>3, <1>4, <1>5 DEF ToSet

\* Every element of a part is in the flattened sequence.
LEMMA FlattenHas ==
  ASSUME NEW T, NEW seqs \in Seq(Seq(T)), NEW i \in DOMAIN seqs, NEW x \in ToSet(seqs[i])
  PROVE  x \in ToSet(FlattenSeq(seqs))
<1> DEFINE n == Len(seqs)
<1>1. n \in Nat /\ n # 0 /\ i \in 1 .. n
  OBVIOUS
<1>2. PICK flat : FlattenSteps(seqs, flat) /\ FlattenSeq(seqs) = flat[n]
  BY <1>1, FlattenExists
<1> DEFINE Has(k) == flat[k] \in Seq(T) /\ (i <= k => x \in ToSet(flat[k]))
           P == {k \in 0 .. n : k = 0 \/ Has(k)}
<1>3. 0 \in P
  BY <1>1
<1>4. ASSUME NEW k \in 0 .. n - 1, k \in P PROVE k + 1 \in P
  <2>1. k \in Nat /\ k + 1 \in 1 .. n
    BY <1>1
  <2>2. CASE k = 0
    <3>1. flat[1] = seqs[1] /\ 1 \in 1 .. n
      BY <1>1, <1>2 DEF FlattenSteps
    <3>2. i <= 1 => i = 1
      BY <1>1
    <3>3. Has(1)
      BY <3>1, <3>2
    <3> QED BY <2>1, <2>2, <3>3
  <2>3. CASE k # 0
    <3>1. k + 1 \in 2 .. n /\ (k + 1) - 1 = k
      BY <1>1, <2>1, <2>3
    <3>2. flat[k + 1] = flat[k] \o seqs[k + 1]
      BY <1>2, <3>1 DEF FlattenSteps
    <3>3. Has(k)
      BY <1>4, <2>3
    <3> DEFINE a == flat[k]
               b == seqs[k + 1]
    <3>4. a \in Seq(T) /\ b \in Seq(T)
      BY <2>1, <3>3
    <3>5. (i <= k => x \in ToSet(a)) /\ (i = k + 1 => x \in ToSet(b))
      BY <3>3
    <3> HIDE DEF a, b
    <3>6. a \o b \in Seq(T)
      BY <3>4
    <3>7. ToSet(a) \subseteq ToSet(a \o b) /\ ToSet(b) \subseteq ToSet(a \o b)
      BY <3>4, ConcatHas
    <3>8. i <= k + 1 => i <= k \/ i = k + 1
      BY <1>1, <2>1
    <3>9. Has(k + 1)
      BY <3>2, <3>5, <3>6, <3>7, <3>8 DEF a, b
    <3> QED BY <2>1, <3>9
  <2> QED BY <2>2, <2>3
<1>5. \A k \in 0 .. n : k \in P
  <2> HIDE DEF P, n
  <2> QED BY <1>1, <1>3, <1>4, CountingUp
<1> QED BY <1>1, <1>2, <1>5

StepNames ==
  {"project_brief", "scope", "prd", "acceptance_criteria", "technical_architecture",
   "information_architecture", "data_model", "logic_backbone", "api_contract",
   "test_strategy", "mvp_plan", "build_plan", "implementation_log", "change_evidence",
   "integration_notes", "verification_report", "acceptance_mapping", "failure_fix_log",
   "regression_evidence", "final_build_verdict", "release", "evolution_report"}

States == {"discovery", "spec", "design", "plan", "build", "verify", "ship", "reflect"}

LEMMA TablesTyped ==
  /\ \A s \in States : Steps010[s] \in Seq(StepNames)
  /\ \A s \in States : Steps020[s] \in Seq(StepNames)
  /\ \A s \in States : Steps030[s] \in Seq(StepNames)
  /\ \A s \in States : Steps090[s] \in Seq(StepNames)
<1>1. DOMAIN Steps010 = States /\ \A s \in States : Steps010[s] \in Seq(StepNames)
  <2>1. <<"project_brief", "scope">> \in Seq(StepNames)
    BY DEF StepNames
  <2>2. <<"prd", "acceptance_criteria">> \in Seq(StepNames)
    BY DEF StepNames
  <2>3. <<"technical_architecture", "information_architecture", "data_model", "api_contract",
          "test_strategy">> \in Seq(StepNames)
    BY DEF StepNames
  <2>4. <<"mvp_plan">> \in Seq(StepNames)
    BY DEF StepNames
  <2>5. <<>> \in Seq(StepNames)
    BY DEF StepNames
  <2> DEFINE a == <<"project_brief", "scope">>
             b == <<"prd", "acceptance_criteria">>
             c == <<"technical_architecture", "information_architecture", "data_model",
                    "api_contract", "test_strategy">>
             d == <<"mvp_plan">>
             none == <<>>
  <2>6. Steps010 = [discovery |-> a, spec |-> b, design |-> c, plan |-> d,
                    build |-> none, verify |-> none, ship |-> none, reflect |-> none]
    BY DEF Steps010
  <2>7. {a, b, c, d, none} \subseteq Seq(StepNames)
    BY <2>1, <2>2, <2>3, <2>4, <2>5
  <2> HIDE DEF a, b, c, d, none
  <2> QED BY <2>6, <2>7 DEF States
<1>2. DOMAIN Steps020 = States /\ \A s \in States : Steps020[s] \in Seq(StepNames)
  <2>1. <<"project_brief">> \in Seq(StepNames)
    BY DEF StepNames
  <2>2. <<"scope", "prd", "acceptance_criteria">> \in Seq(StepNames)
    BY DEF StepNames
  <2>3. <<"mvp_plan", "build_plan">> \in Seq(StepNames)
    BY DEF StepNames
  <2>4. <<"implementation_log", "change_evidence", "integration_notes">> \in Seq(StepNames)
    BY DEF StepNames
  <2>5. <<"verification_report", "acceptance_mapping", "failure_fix_log",
          "regression_evidence", "final_build_verdict">> \in Seq(StepNames)
    BY DEF StepNames
  <2> DEFINE a == <<"project_brief">>
             b == <<"scope", "prd", "acceptance_criteria">>
             c == <<"mvp_plan", "build_plan">>
             d == <<"implementation_log", "change_evidence", "integration_notes">>
             e == <<"verification_report", "acceptance_mapping", "failure_fix_log",
                    "regression_evidence", "final_build_verdict">>
  <2>6. Steps020 = [Steps010 EXCEPT !.discovery = a, !.spec = b, !.plan = c, !.build = d,
                                    !.verify = e]
    BY DEF Steps020
  <2>7. {a, b, c, d, e} \subseteq Seq(StepNames)
    BY <2>1, <2>2, <2>3, <2>4, <2>5
  <2> HIDE DEF a, b, c, d, e
  <2> QED BY <1>1, <2>6, <2>7
<1>3. DOMAIN Steps030 = States /\ \A s \in States : Steps030[s] \in Seq(StepNames)
  <2>1. <<"technical_architecture", "information_architecture", "data_model",
          "logic_backbone", "api_contract", "test_strategy">> \in Seq(StepNames)
    BY DEF StepNames
  <2> DEFINE a == <<"technical_architecture", "information_architecture", "data_model",
                    "logic_backbone", "api_contract", "test_strategy">>
  <2>2. Steps030 = [Steps020 EXCEPT !.design = a]
    BY DEF Steps030
  <2> HIDE DEF a
  <2> QED BY <1>2, <2>1, <2>2 DEF a
<1>4. \A s \in States : Steps090[s] \in Seq(StepNames)
  <2>1. <<"release">> \in Seq(StepNames) /\ <<"evolution_report">> \in Seq(StepNames)
    BY DEF StepNames
  <2> DEFINE a == <<"release">>
             b == <<"evolution_report">>
  <2>2. Steps090 = [Steps030 EXCEPT !.ship = a, !.reflect = b]
    BY DEF Steps090
  <2>3. {a, b} \subseteq Seq(StepNames)
    BY <2>1
  <2> HIDE DEF a, b
  <2> QED BY <1>3, <2>2, <2>3
<1> QED BY <1>1, <1>2, <1>3, <1>4

LEMMA VerdictIsAStep == "final_build_verdict" \in StepSet(DefaultVersion)
<1> DEFINE v == DefaultVersion
           seqs == [i \in DOMAIN StateOrder |-> StepsByState(v)[StateOrder[i]]]
<1>1. v \in KnownVersions /\ StepsByState(v) = Steps090
  BY DEF DefaultVersion, KnownVersions, StepsByState, Version
<1>2. StepSet(v) = ToSet(FlattenSeq(seqs))
  BY <1>1 DEF StepSet, Flat, Flats
<1>3. DOMAIN StateOrder = 1 .. 8 /\ \A i \in 1 .. 8 : StateOrder[i] \in States
  BY DEF StateOrder, States
<1>4. \A i \in 1 .. 8 : Steps090[StateOrder[i]] \in Seq(StepNames)
  BY <1>3, TablesTyped
<1>5. seqs \in Seq(Seq(StepNames)) /\ DOMAIN seqs = 1 .. 8
  <2>1. seqs = [i \in 1 .. 8 |-> Steps090[StateOrder[i]]]
    BY <1>1, <1>3
  <2> HIDE DEF seqs
  <2> QED BY <1>4, <2>1
<1>6. StateOrder[6] = "verify"
  BY DEF StateOrder
<1>7. seqs[6] = Steps090["verify"]
  BY <1>1, <1>3, <1>6
<1>8. Steps090["verify"] = Steps020["verify"]
  BY DEF Steps090, Steps030
<1>9. Steps020["verify"][5] = "final_build_verdict" /\ 5 \in DOMAIN Steps020["verify"]
  BY DEF Steps020, Steps010
<1>10. "final_build_verdict" \in ToSet(seqs[6])
  BY <1>7, <1>8, <1>9 DEF ToSet
<1> HIDE DEF seqs
<1>11. "final_build_verdict" \in ToSet(FlattenSeq(seqs))
  BY <1>5, <1>10, FlattenHas
<1> QED BY <1>2, <1>11

---------------------------------------------------------------------------
(* The order of the steps                                                  *)

\* The elements of a sequence are in the order of R.
InOrder(s, R) == \A i, j \in DOMAIN s : i < j => R[s[i]] < R[s[j]]

\* Two sequences in order, one after the other, are in order and lose nothing.
Joined(a, b, T, R) ==
  a \o b \in Seq(T) /\ InOrder(a \o b, R) /\ ToSet(a \o b) = ToSet(a) \cup ToSet(b)

LEMMA ConcatInOrder ==
  ASSUME NEW T, NEW R \in [T -> Nat], NEW a \in Seq(T), NEW b \in Seq(T), NEW c \in Nat,
         InOrder(a, R), InOrder(b, R),
         \A x \in ToSet(a) : R[x] <= c, \A x \in ToSet(b) : R[x] > c
  PROVE  Joined(a, b, T, R)
<1> DEFINE n == Len(a)
           m == Len(b)
           d == a \o b
<1>1. n \in Nat /\ m \in Nat /\ DOMAIN a = 1 .. n /\ DOMAIN b = 1 .. m
  OBVIOUS
<1>2. /\ d \in Seq(T) /\ Len(d) = n + m
      /\ \A i \in 1 .. n + m : d[i] = IF i <= n THEN a[i] ELSE b[i - n]
  BY ConcatProperties
<1>3. DOMAIN d = 1 .. n + m
  BY <1>2
<1>4. ToSet(a) \subseteq ToSet(d) /\ ToSet(b) \subseteq ToSet(d)
  BY ConcatHas
<1>10. \A i \in DOMAIN a : a[i] \in ToSet(a) /\ a[i] \in T
  BY DEF ToSet
<1>11. \A i \in DOMAIN b : b[i] \in ToSet(b) /\ b[i] \in T
  BY DEF ToSet
<1> HIDE DEF n, m, d
<1>5. \A i \in 1 .. n + m :
        \/ i \in 1 .. n /\ d[i] = a[i]
        \/ i > n /\ i - n \in 1 .. m /\ d[i] = b[i - n]
  <2> TAKE i \in 1 .. n + m
  <2>1. i <= n => i \in 1 .. n
    BY <1>1
  <2>2. ~(i <= n) => i > n /\ i - n \in 1 .. m
    BY <1>1
  <2>3. d[i] = IF i <= n THEN a[i] ELSE b[i - n]
    BY <1>2
  <2> QED BY <2>1, <2>2, <2>3
<1>6. ToSet(d) \subseteq ToSet(a) \cup ToSet(b)
  BY <1>1, <1>3, <1>5 DEF ToSet
<1>7. ASSUME NEW i \in DOMAIN d, NEW j \in DOMAIN d, i < j PROVE R[d[i]] < R[d[j]]
  <2>1. i \in 1 .. n + m /\ j \in 1 .. n + m
    BY <1>3
  <2>2. CASE i \in 1 .. n /\ j \in 1 .. n
    <3>1. d[i] = a[i] /\ d[j] = a[j]
      BY <1>1, <1>5, <2>1, <2>2
    <3> QED BY <1>1, <1>7, <2>2, <3>1 DEF InOrder
  <2>3. CASE i \in 1 .. n /\ j > n
    <3>1. d[i] = a[i] /\ j - n \in 1 .. m /\ d[j] = b[j - n]
      BY <1>1, <1>5, <2>1, <2>3
    <3>2. R[a[i]] <= c /\ R[b[j - n]] > c
      BY <1>1, <1>10, <1>11, <2>3, <3>1
    <3>3. R[a[i]] \in Nat /\ R[b[j - n]] \in Nat
      BY <1>1, <1>10, <1>11, <2>3, <3>1
    <3> QED BY <3>1, <3>2, <3>3
  <2>4. CASE i > n /\ j > n
    <3>1. i - n \in 1 .. m /\ d[i] = b[i - n]
      BY <1>1, <1>5, <2>1, <2>4
    <3>2. j - n \in 1 .. m /\ d[j] = b[j - n]
      BY <1>1, <1>5, <2>1, <2>4
    <3>3. i - n < j - n
      BY <1>1, <1>7, <2>1
    <3> QED BY <1>1, <3>1, <3>2, <3>3 DEF InOrder
  <2> QED BY <1>1, <1>7, <2>1, <2>2, <2>3, <2>4
<1>8. InOrder(d, R)
  BY <1>7 DEF InOrder
<1>9. ToSet(d) = ToSet(a) \cup ToSet(b)
  BY <1>4, <1>6
<1> QED BY <1>2, <1>8, <1>9 DEF d, Joined

\* The parts of a flattened sequence each in order, and each after the ones
\* before it: part i between cut[i - 1] and cut[i].
PartsInOrder(seqs, R, cut) ==
  \A i \in DOMAIN seqs :
    /\ InOrder(seqs[i], R)
    /\ \A x \in ToSet(seqs[i]) : cut[i - 1] < R[x] /\ R[x] <= cut[i]

\* The flattened sequence is in order and has what its parts have.
Flattened(seqs, T, R) ==
  /\ FlattenSeq(seqs) \in Seq(T) /\ InOrder(FlattenSeq(seqs), R)
  /\ ToSet(FlattenSeq(seqs)) = UNION {ToSet(seqs[i]) : i \in DOMAIN seqs}

LEMMA FlattenInOrder ==
  ASSUME NEW T, NEW R \in [T -> Nat], NEW seqs \in Seq(Seq(T)), Len(seqs) # 0,
         NEW cut \in [0 .. Len(seqs) -> Nat],
         \A i \in 1 .. Len(seqs) : cut[i - 1] <= cut[i],
         PartsInOrder(seqs, R, cut)
  PROVE  Flattened(seqs, T, R)
<1> DEFINE n == Len(seqs)
<1>1. n \in Nat /\ n # 0 /\ DOMAIN seqs = 1 .. n
  OBVIOUS
<1>2. PICK flat : FlattenSteps(seqs, flat) /\ FlattenSeq(seqs) = flat[n]
  BY <1>1, FlattenExists
<1>3. ASSUME NEW i \in 1 .. n
      PROVE  /\ cut[i - 1] \in Nat /\ cut[i] \in Nat /\ cut[i - 1] <= cut[i]
             /\ seqs[i] \in Seq(T) /\ InOrder(seqs[i], R)
             /\ \A x \in ToSet(seqs[i]) : x \in T /\ R[x] \in Nat
             /\ \A x \in ToSet(seqs[i]) : cut[i - 1] < R[x] /\ R[x] <= cut[i]
  <2>1. i - 1 \in 0 .. n /\ i \in 0 .. n
    BY <1>1
  <2>2. seqs[i] \in Seq(T)
    BY <1>1
  <2>3. \A x \in ToSet(seqs[i]) : x \in T
    BY <2>2 DEF ToSet
  <2>4. cut[i - 1] \in Nat /\ cut[i] \in Nat /\ cut[i - 1] <= cut[i]
    BY <2>1
  <2>5. InOrder(seqs[i], R) /\ \A x \in ToSet(seqs[i]) : cut[i - 1] < R[x] /\ R[x] <= cut[i]
    BY <1>1 DEF PartsInOrder
  <2> QED BY <2>2, <2>3, <2>4, <2>5
<1> DEFINE Upto(k) == UNION {ToSet(seqs[i]) : i \in 1 .. k}
           Holds(k) == /\ flat[k] \in Seq(T) /\ InOrder(flat[k], R)
                       /\ ToSet(flat[k]) = Upto(k) /\ \A x \in ToSet(flat[k]) : R[x] <= cut[k]
           P == {k \in 0 .. n : k = 0 \/ Holds(k)}
<1>4. 0 \in P
  BY <1>1
<1>5. ASSUME NEW k \in 0 .. n - 1, k \in P PROVE k + 1 \in P
  <2>1. k \in Nat /\ k + 1 \in 1 .. n
    BY <1>1
  <2>2. CASE k = 0
    <3>1. flat[1] = seqs[1] /\ 1 \in 1 .. n
      BY <1>1, <1>2 DEF FlattenSteps
    <3>2. seqs[1] \in Seq(T) /\ InOrder(seqs[1], R) /\ \A x \in ToSet(seqs[1]) : R[x] <= cut[1]
      BY <1>3, <3>1
    <3>3. Upto(1) = ToSet(seqs[1])
      OBVIOUS
    <3> HIDE DEF Upto
    <3> QED BY <2>1, <2>2, <3>1, <3>2, <3>3
  <2>3. CASE k # 0
    <3>1. k + 1 \in 2 .. n /\ (k + 1) - 1 = k /\ k \in 1 .. n
      BY <1>1, <2>1, <2>3
    <3> DEFINE a == flat[k]
               b == seqs[k + 1]
    <3>2. flat[k + 1] = a \o b
      BY <1>2, <3>1 DEF FlattenSteps
    <3>3. /\ a \in Seq(T) /\ InOrder(a, R) /\ ToSet(a) = Upto(k)
          /\ \A x \in ToSet(a) : R[x] <= cut[k]
      BY <1>5, <2>3
    <3>4. /\ b \in Seq(T) /\ InOrder(b, R)
          /\ \A x \in ToSet(b) : R[x] \in Nat /\ cut[k] < R[x] /\ R[x] <= cut[k + 1]
          /\ cut[k] \in Nat /\ cut[k + 1] \in Nat /\ cut[k] <= cut[k + 1]
      BY <1>3, <2>1, <3>1
    <3>6. Upto(k + 1) = Upto(k) \cup ToSet(b)
      <4>1. k \in Nat
        BY <2>1
      <4>2. \A i : i \in 1 .. k + 1 <=> i \in 1 .. k \/ i = k + 1
        <5> HIDE DEF n, Upto, Holds, P
        <5> QED BY <4>1
      <4> QED BY <4>2
    <3>7. \A x \in ToSet(a) : R[x] \in Nat
      <4>1. \A x \in ToSet(a) : x \in T
        BY <3>3 DEF ToSet
      <4> QED BY <4>1
    <3> DEFINE c == cut[k]
               e == cut[k + 1]
    <3>8. /\ \A x \in ToSet(a) : R[x] <= c
          /\ \A x \in ToSet(b) : R[x] > c /\ R[x] <= e
          /\ c \in Nat /\ e \in Nat /\ c <= e
      BY <3>3, <3>4
    <3> HIDE DEF a, b, c, e, Upto
    <3>9. a \o b \in Seq(T) /\ InOrder(a \o b, R) /\ ToSet(a \o b) = ToSet(a) \cup ToSet(b)
      <4>1. Joined(a, b, T, R)
        BY <3>3, <3>4, <3>8, ConcatInOrder
      <4> QED BY <4>1 DEF Joined
    <3>10. \A x \in ToSet(a) \cup ToSet(b) : R[x] <= e
      BY <3>7, <3>8
    <3>11. Holds(k + 1)
      BY <3>2, <3>3, <3>6, <3>9, <3>10 DEF e
    <3> QED BY <2>1, <3>11
  <2> QED BY <2>2, <2>3
<1>6. n \in P
  <2>1. \A k \in 0 .. n : k \in P
    <3> HIDE DEF P, n
    <3> QED BY <1>1, <1>4, <1>5, CountingUp
  <2>2. n \in 0 .. n
    BY <1>1
  <2> QED BY <2>1, <2>2
<1>7. Holds(n)
  <2> HIDE DEF Holds, n
  <2> QED BY <1>1, <1>6
<1> QED BY <1>1, <1>2, <1>7 DEF Flattened

\* The place of every step in the order that all profiles share.
Rank ==
  [project_brief |-> 1, scope |-> 2, prd |-> 3, acceptance_criteria |-> 4,
   technical_architecture |-> 5, information_architecture |-> 6, data_model |-> 7,
   logic_backbone |-> 8, api_contract |-> 9, test_strategy |-> 10, mvp_plan |-> 11,
   build_plan |-> 12, implementation_log |-> 13, change_evidence |-> 14,
   integration_notes |-> 15, verification_report |-> 16, acceptance_mapping |-> 17,
   failure_fix_log |-> 18, regression_evidence |-> 19, final_build_verdict |-> 20,
   release |-> 21, evolution_report |-> 22]

LEMMA RankTyped == Rank \in [StepNames -> 1 .. 22]
BY DEF Rank, StepNames

LEMMA RankInjective == \A x, y \in StepNames : Rank[x] = Rank[y] => x = y
BY DEF Rank, StepNames

\* A part of a profile: steps in order with ranks above lo and up to hi.
Fits(s, lo, hi) ==
  /\ s \in Seq(StepNames) /\ InOrder(s, Rank)
  /\ \A x \in ToSet(s) : lo < Rank[x] /\ Rank[x] <= hi

\* Steps whose ranks count up from lo fit after lo.
LEMMA RunFits ==
  ASSUME NEW s \in Seq(StepNames), NEW lo \in Nat, \A i \in 1 .. Len(s) : Rank[s[i]] = lo + i
  PROVE  Fits(s, lo, lo + Len(s))
BY DEF Fits, InOrder, ToSet

\* The parts the tables of the profiles are made of.
LEMMA PartsFit ==
  /\ Fits(<<"project_brief">>, 0, 1)
  /\ Fits(<<"project_brief", "scope">>, 0, 2)
  /\ Fits(<<"prd", "acceptance_criteria">>, 2, 4)
  /\ Fits(<<"scope", "prd", "acceptance_criteria">>, 1, 4)
  /\ Fits(<<"technical_architecture", "information_architecture", "data_model",
            "api_contract", "test_strategy">>, 4, 10)
  /\ Fits(<<"technical_architecture", "information_architecture", "data_model",
            "logic_backbone", "api_contract", "test_strategy">>, 4, 10)
  /\ Fits(<<"mvp_plan">>, 10, 11)
  /\ Fits(<<"mvp_plan", "build_plan">>, 10, 12)
  /\ Fits(<<"implementation_log", "change_evidence", "integration_notes">>, 12, 15)
  /\ Fits(<<"verification_report", "acceptance_mapping", "failure_fix_log",
            "regression_evidence", "final_build_verdict">>, 15, 20)
  /\ Fits(<<"release">>, 20, 21)
  /\ Fits(<<"evolution_report">>, 21, 22)
  /\ \A lo, hi \in Nat : Fits(<<>>, lo, hi)
<1>1. Fits(<<"project_brief">>, 0, 1)
  <2> DEFINE s == <<"project_brief">>
  <2>1. s \in Seq(StepNames) /\ Len(s) = 1
    BY DEF StepNames
  <2>2. \A i \in 1 .. 1 : Rank[s[i]] = 0 + i
    BY DEF Rank
  <2> HIDE DEF s
  <2>3. Fits(s, 0, 0 + 1)
    BY <2>1, <2>2, RunFits
  <2> QED BY <2>3 DEF s
<1>2. Fits(<<"project_brief", "scope">>, 0, 2)
  <2> DEFINE s == <<"project_brief", "scope">>
  <2>1. s \in Seq(StepNames) /\ Len(s) = 2
    BY DEF StepNames
  <2>2. \A i \in 1 .. 2 : Rank[s[i]] = 0 + i
    BY DEF Rank
  <2> HIDE DEF s
  <2>3. Fits(s, 0, 0 + 2)
    BY <2>1, <2>2, RunFits
  <2> QED BY <2>3 DEF s
<1>3. Fits(<<"prd", "acceptance_criteria">>, 2, 4)
  <2> DEFINE s == <<"prd", "acceptance_criteria">>
  <2>1. s \in Seq(StepNames) /\ Len(s) = 2
    BY DEF StepNames
  <2>2. \A i \in 1 .. 2 : Rank[s[i]] = 2 + i
    BY DEF Rank
  <2> HIDE DEF s
  <2>3. Fits(s, 2, 2 + 2)
    BY <2>1, <2>2, RunFits
  <2> QED BY <2>3 DEF s
<1>4. Fits(<<"scope", "prd", "acceptance_criteria">>, 1, 4)
  <2> DEFINE s == <<"scope", "prd", "acceptance_criteria">>
  <2>1. s \in Seq(StepNames) /\ Len(s) = 3
    BY DEF StepNames
  <2>2. \A i \in 1 .. 3 : Rank[s[i]] = 1 + i
    BY DEF Rank
  <2> HIDE DEF s
  <2>3. Fits(s, 1, 1 + 3)
    BY <2>1, <2>2, RunFits
  <2> QED BY <2>3 DEF s
<1>5. Fits(<<"technical_architecture", "information_architecture", "data_model",
            "logic_backbone", "api_contract", "test_strategy">>, 4, 10)
  <2> DEFINE s == <<"technical_architecture", "information_architecture", "data_model",
                     "logic_backbone", "api_contract", "test_strategy">>
  <2>1. s \in Seq(StepNames) /\ Len(s) = 6
    BY DEF StepNames
  <2>2. \A i \in 1 .. 6 : Rank[s[i]] = 4 + i
    BY DEF Rank
  <2> HIDE DEF s
  <2>3. Fits(s, 4, 4 + 6)
    BY <2>1, <2>2, RunFits
  <2> QED BY <2>3 DEF s
<1>6. Fits(<<"mvp_plan">>, 10, 11)
  <2> DEFINE s == <<"mvp_plan">>
  <2>1. s \in Seq(StepNames) /\ Len(s) = 1
    BY DEF StepNames
  <2>2. \A i \in 1 .. 1 : Rank[s[i]] = 10 + i
    BY DEF Rank
  <2> HIDE DEF s
  <2>3. Fits(s, 10, 10 + 1)
    BY <2>1, <2>2, RunFits
  <2> QED BY <2>3 DEF s
<1>7. Fits(<<"mvp_plan", "build_plan">>, 10, 12)
  <2> DEFINE s == <<"mvp_plan", "build_plan">>
  <2>1. s \in Seq(StepNames) /\ Len(s) = 2
    BY DEF StepNames
  <2>2. \A i \in 1 .. 2 : Rank[s[i]] = 10 + i
    BY DEF Rank
  <2> HIDE DEF s
  <2>3. Fits(s, 10, 10 + 2)
    BY <2>1, <2>2, RunFits
  <2> QED BY <2>3 DEF s
<1>8. Fits(<<"implementation_log", "change_evidence", "integration_notes">>, 12, 15)
  <2> DEFINE s == <<"implementation_log", "change_evidence", "integration_notes">>
  <2>1. s \in Seq(StepNames) /\ Len(s) = 3
    BY DEF StepNames
  <2>2. \A i \in 1 .. 3 : Rank[s[i]] = 12 + i
    BY DEF Rank
  <2> HIDE DEF s
  <2>3. Fits(s, 12, 12 + 3)
    BY <2>1, <2>2, RunFits
  <2> QED BY <2>3 DEF s
<1>9. Fits(<<"verification_report", "acceptance_mapping", "failure_fix_log",
            "regression_evidence", "final_build_verdict">>, 15, 20)
  <2> DEFINE s == <<"verification_report", "acceptance_mapping", "failure_fix_log",
                     "regression_evidence", "final_build_verdict">>
  <2>1. s \in Seq(StepNames) /\ Len(s) = 5
    BY DEF StepNames
  <2>2. \A i \in 1 .. 5 : Rank[s[i]] = 15 + i
    BY DEF Rank
  <2> HIDE DEF s
  <2>3. Fits(s, 15, 15 + 5)
    BY <2>1, <2>2, RunFits
  <2> QED BY <2>3 DEF s
<1>10. Fits(<<"release">>, 20, 21)
  <2> DEFINE s == <<"release">>
  <2>1. s \in Seq(StepNames) /\ Len(s) = 1
    BY DEF StepNames
  <2>2. \A i \in 1 .. 1 : Rank[s[i]] = 20 + i
    BY DEF Rank
  <2> HIDE DEF s
  <2>3. Fits(s, 20, 20 + 1)
    BY <2>1, <2>2, RunFits
  <2> QED BY <2>3 DEF s
<1>11. Fits(<<"evolution_report">>, 21, 22)
  <2> DEFINE s == <<"evolution_report">>
  <2>1. s \in Seq(StepNames) /\ Len(s) = 1
    BY DEF StepNames
  <2>2. \A i \in 1 .. 1 : Rank[s[i]] = 21 + i
    BY DEF Rank
  <2> HIDE DEF s
  <2>3. Fits(s, 21, 21 + 1)
    BY <2>1, <2>2, RunFits
  <2> QED BY <2>3 DEF s
<1>12. Fits(<<"technical_architecture", "information_architecture", "data_model",
            "api_contract", "test_strategy">>, 4, 10)
  <2> DEFINE s == <<"technical_architecture", "information_architecture", "data_model",
                     "api_contract", "test_strategy">>
  <2>1. s \in Seq(StepNames) /\ Len(s) = 5
    BY DEF StepNames
  <2>2. \A i \in 1 .. 5 : Rank[s[i]] = IF i <= 3 THEN 4 + i ELSE 5 + i
    BY DEF Rank
  <2> HIDE DEF s
  <2>3. DOMAIN s = 1 .. 5
    BY <2>1
  <2>4. InOrder(s, Rank)
    BY <2>2, <2>3 DEF InOrder
  <2>5. \A x \in ToSet(s) : 4 < Rank[x] /\ Rank[x] <= 10
    BY <2>2, <2>3 DEF ToSet
  <2>6. Fits(s, 4, 10)
    BY <2>1, <2>4, <2>5 DEF Fits
  <2> QED BY <2>6 DEF s
<1>13. ASSUME NEW lo \in Nat, NEW hi \in Nat PROVE Fits(<<>>, lo, hi)
  BY DEF Fits, InOrder, ToSet
<1> QED BY <1>1, <1>2, <1>3, <1>4, <1>5, <1>6, <1>7, <1>8, <1>9, <1>10, <1>11, <1>12, <1>13

\* Where the states of a version divide the ranks.
Cut(ranks) == [i \in 0 .. 8 |-> ranks[i + 1]]

CutOf(v) ==
  Cut(IF v = Version(1) THEN <<0, 2, 4, 10, 11, 11, 11, 11, 11>>
      ELSE IF v = Version(9) THEN <<0, 1, 4, 10, 12, 15, 20, 21, 22>>
      ELSE <<0, 1, 4, 10, 12, 15, 20, 20, 20>>)

LEMMA CutRises ==
  ASSUME NEW v
  PROVE  CutOf(v) \in [0 .. 8 -> Nat] /\ \A i \in 1 .. 8 : CutOf(v)[i - 1] <= CutOf(v)[i]
BY DEF CutOf, Cut

\* Every state of a table has the ranks between its cuts.
TableFits(t, cut) == \A i \in 1 .. 8 : Fits(t[StateOrder[i]], cut[i - 1], cut[i])

LEMMA ByState ==
  ASSUME NEW t, NEW r \in Seq(Nat), Len(r) = 9,
         Fits(t.discovery, r[1], r[2]), Fits(t.spec, r[2], r[3]), Fits(t.design, r[3], r[4]),
         Fits(t.plan, r[4], r[5]), Fits(t.build, r[5], r[6]), Fits(t.verify, r[6], r[7]),
         Fits(t.ship, r[7], r[8]), Fits(t.reflect, r[8], r[9])
  PROVE  TableFits(t, Cut(r))
<1> SUFFICES ASSUME NEW i \in 1 .. 8
             PROVE  Fits(t[StateOrder[i]], Cut(r)[i - 1], Cut(r)[i])
  BY DEF TableFits
<1>1. Cut(r)[i - 1] = r[i] /\ Cut(r)[i] = r[i + 1]
  BY DEF Cut
<1>2. Fits(t[StateOrder[i]], r[i], r[i + 1])
  <2>1. i \in {1, 2, 3, 4, 5, 6, 7, 8}
    OBVIOUS
  <2> QED BY <2>1 DEF StateOrder
<1> QED BY <1>1, <1>2

LEMMA VersionsDiffer ==
  \A m, n \in Nat : Version(m) = Version(n) => m = n
BY DEF Version

\* The table of every version fits its cuts.
LEMMA TablesFit ==
  ASSUME NEW v \in KnownVersions
  PROVE  TableFits(StepsByState(v), CutOf(v))
<1>1. /\ Version(1) # Version(2) /\ Version(1) # Version(9) /\ Version(2) # Version(9)
  BY VersionsDiffer
<1>2. TableFits(Steps010, Cut(<<0, 2, 4, 10, 11, 11, 11, 11, 11>>))
  <2> DEFINE r == <<0, 2, 4, 10, 11, 11, 11, 11, 11>>
  <2>1. r \in Seq(Nat) /\ Len(r) = 9
    OBVIOUS
  <2>2. /\ r[1] = 0 /\ r[2] = 2 /\ r[3] = 4 /\ r[4] = 10 /\ r[5] = 11
        /\ r[6] = 11 /\ r[7] = 11 /\ r[8] = 11 /\ r[9] = 11
    OBVIOUS
  <2>3. /\ Fits(Steps010.discovery, 0, 2) /\ Fits(Steps010.spec, 2, 4)
        /\ Fits(Steps010.design, 4, 10) /\ Fits(Steps010.plan, 10, 11)
        /\ Fits(Steps010.build, 11, 11) /\ Fits(Steps010.verify, 11, 11)
        /\ Fits(Steps010.ship, 11, 11) /\ Fits(Steps010.reflect, 11, 11)
    BY PartsFit DEF Steps010
  <2> HIDE DEF r
  <2>4. TableFits(Steps010, Cut(r))
    BY <2>1, <2>2, <2>3, ByState
  <2> QED BY <2>4 DEF r
<1>3. TableFits(Steps030, Cut(<<0, 1, 4, 10, 12, 15, 20, 20, 20>>))
      /\ TableFits(Steps020, Cut(<<0, 1, 4, 10, 12, 15, 20, 20, 20>>))
  <2> DEFINE r == <<0, 1, 4, 10, 12, 15, 20, 20, 20>>
  <2>1. r \in Seq(Nat) /\ Len(r) = 9
    OBVIOUS
  <2>2. /\ r[1] = 0 /\ r[2] = 1 /\ r[3] = 4 /\ r[4] = 10 /\ r[5] = 12
        /\ r[6] = 15 /\ r[7] = 20 /\ r[8] = 20 /\ r[9] = 20
    OBVIOUS
  <2>3. /\ Fits(Steps020.discovery, 0, 1) /\ Fits(Steps020.spec, 1, 4)
        /\ Fits(Steps020.design, 4, 10) /\ Fits(Steps020.plan, 10, 12)
        /\ Fits(Steps020.build, 12, 15) /\ Fits(Steps020.verify, 15, 20)
        /\ Fits(Steps020.ship, 20, 20) /\ Fits(Steps020.reflect, 20, 20)
    BY PartsFit DEF Steps020, Steps010
  <2>4. /\ Fits(Steps030.discovery, 0, 1) /\ Fits(Steps030.spec, 1, 4)
        /\ Fits(Steps030.design, 4, 10) /\ Fits(Steps030.plan, 10, 12)
        /\ Fits(Steps030.build, 12, 15) /\ Fits(Steps030.verify, 15, 20)
        /\ Fits(Steps030.ship, 20, 20) /\ Fits(Steps030.reflect, 20, 20)
    BY PartsFit DEF Steps030, Steps020, Steps010
  <2> HIDE DEF r
  <2>5. TableFits(Steps020, Cut(r))
    BY <2>1, <2>2, <2>3, ByState
  <2>6. TableFits(Steps030, Cut(r))
    BY <2>1, <2>2, <2>4, ByState
  <2> QED BY <2>5, <2>6 DEF r
<1>4. TableFits(Steps090, Cut(<<0, 1, 4, 10, 12, 15, 20, 21, 22>>))
  <2> DEFINE r == <<0, 1, 4, 10, 12, 15, 20, 21, 22>>
  <2>1. r \in Seq(Nat) /\ Len(r) = 9
    OBVIOUS
  <2>2. /\ r[1] = 0 /\ r[2] = 1 /\ r[3] = 4 /\ r[4] = 10 /\ r[5] = 12
        /\ r[6] = 15 /\ r[7] = 20 /\ r[8] = 21 /\ r[9] = 22
    OBVIOUS
  <2>3. /\ Fits(Steps090.discovery, 0, 1) /\ Fits(Steps090.spec, 1, 4)
        /\ Fits(Steps090.design, 4, 10) /\ Fits(Steps090.plan, 10, 12)
        /\ Fits(Steps090.build, 12, 15) /\ Fits(Steps090.verify, 15, 20)
        /\ Fits(Steps090.ship, 20, 21) /\ Fits(Steps090.reflect, 21, 22)
    BY PartsFit DEF Steps090, Steps030, Steps020, Steps010
  <2> HIDE DEF r
  <2>4. TableFits(Steps090, Cut(r))
    BY <2>1, <2>2, <2>3, ByState
  <2> QED BY <2>4 DEF r
<1>5. CASE v = Version(1)
  <2>1. StepsByState(v) = Steps010 /\ CutOf(v) = Cut(<<0, 2, 4, 10, 11, 11, 11, 11, 11>>)
    BY <1>1, <1>5 DEF StepsByState, CutOf
  <2> QED BY <1>2, <2>1
<1>6. CASE v = Version(2)
  <2>1. StepsByState(v) = Steps020 /\ CutOf(v) = Cut(<<0, 1, 4, 10, 12, 15, 20, 20, 20>>)
    BY <1>1, <1>6 DEF StepsByState, CutOf
  <2> QED BY <1>3, <2>1
<1>7. CASE v = Version(9)
  <2>1. StepsByState(v) = Steps090 /\ CutOf(v) = Cut(<<0, 1, 4, 10, 12, 15, 20, 21, 22>>)
    BY <1>1, <1>7 DEF StepsByState, CutOf
  <2> QED BY <1>4, <2>1
<1>8. CASE v \notin {Version(1), Version(2), Version(9)}
  <2>1. StepsByState(v) = Steps030 /\ CutOf(v) = Cut(<<0, 1, 4, 10, 12, 15, 20, 20, 20>>)
    BY <1>8 DEF StepsByState, CutOf
  <2> QED BY <1>3, <2>1
<1> QED BY <1>5, <1>6, <1>7, <1>8

\* The steps of a version come in the order of their ranks.
LEMMA FlatInOrder ==
  ASSUME NEW v \in KnownVersions
  PROVE  /\ Flat(v) \in Seq(StepNames) /\ InOrder(Flat(v), Rank)
         /\ StepSet(v) = UNION {ToSet(StepsByState(v)[s]) : s \in States}
<1> DEFINE t == StepsByState(v)
           seqs == [i \in DOMAIN StateOrder |-> t[StateOrder[i]]]
<1>1. DOMAIN StateOrder = 1 .. 8 /\ {StateOrder[i] : i \in 1 .. 8} = States
  BY DEF StateOrder, States
<1>2. TableFits(t, CutOf(v))
  BY TablesFit
<1>3. Flat(v) = FlattenSeq(seqs)
  BY DEF Flat, Flats
<1>4. seqs = [i \in 1 .. 8 |-> t[StateOrder[i]]]
  BY <1>1
<1> HIDE DEF seqs, t
<1>5. seqs \in Seq(Seq(StepNames)) /\ Len(seqs) = 8 /\ DOMAIN seqs = 1 .. 8
  <2>1. \A i \in 1 .. 8 : t[StateOrder[i]] \in Seq(StepNames)
    BY <1>2 DEF TableFits, Fits
  <2> QED BY <1>4, <2>1
<1>6. PartsInOrder(seqs, Rank, CutOf(v))
  BY <1>2, <1>4, <1>5 DEF PartsInOrder, TableFits, Fits
<1>7. Rank \in [StepNames -> Nat]
  BY RankTyped
<1>8. /\ Flat(v) \in Seq(StepNames) /\ InOrder(Flat(v), Rank)
      /\ ToSet(Flat(v)) = UNION {ToSet(seqs[i]) : i \in DOMAIN seqs}
  <2> DEFINE c == CutOf(v)
  <2>1. /\ c \in [0 .. Len(seqs) -> Nat] /\ \A i \in 1 .. Len(seqs) : c[i - 1] <= c[i]
        /\ Len(seqs) # 0 /\ PartsInOrder(seqs, Rank, c)
    BY <1>5, <1>6, CutRises
  <2> HIDE DEF c
  <2>2. Flattened(seqs, StepNames, Rank)
    BY <1>5, <1>7, <2>1, FlattenInOrder
  <2> QED BY <1>3, <2>2 DEF Flattened
<1>9. UNION {ToSet(seqs[i]) : i \in DOMAIN seqs} = UNION {ToSet(t[s]) : s \in States}
  <2>1. \A i \in 1 .. 8 : seqs[i] = t[StateOrder[i]] /\ StateOrder[i] \in States
    BY <1>1, <1>4
  <2>2. \A s \in States : \E i \in 1 .. 8 : StateOrder[i] = s
    BY <1>1
  <2>3. ASSUME NEW x, \E i \in DOMAIN seqs : x \in ToSet(seqs[i])
        PROVE  \E s \in States : x \in ToSet(t[s])
    BY <1>5, <2>1, <2>3
  <2>4. ASSUME NEW x, NEW s \in States, x \in ToSet(t[s])
        PROVE  \E i \in DOMAIN seqs : x \in ToSet(seqs[i])
    BY <1>5, <2>1, <2>2, <2>4
  <2> QED BY <2>3, <2>4
<1> QED BY <1>8, <1>9 DEF StepSet, t

\* A step of a version is at its position.
LEMMA Placed ==
  ASSUME NEW v \in KnownVersions, NEW x \in StepSet(v)
  PROVE  /\ x \in StepNames /\ Rank[x] \in 1 .. 22
         /\ Position(v, x) \in 1 .. Len(Flat(v)) /\ Flat(v)[Position(v, x)] = x
<1>1. Flat(v) \in Seq(StepNames)
  BY FlatInOrder
<1>2. \E i \in DOMAIN Flat(v) : Flat(v)[i] = x
  BY DEF StepSet, ToSet
<1>3. Position(v, x) \in DOMAIN Flat(v) /\ Flat(v)[Position(v, x)] = x
  BY <1>2 DEF Position
<1>4. x \in StepNames
  BY <1>1, <1>3
<1> QED BY <1>1, <1>3, <1>4, RankTyped

LEMMA RankIsNatural ==
  ASSUME NEW v \in KnownVersions, NEW x \in StepSet(v)
  PROVE  Rank[x] \in Nat
<1>1. Rank[x] \in 1 .. 22
  BY Placed
<1> QED BY <1>1

\* Positions follow the ranks.
LEMMA PlacedByRank ==
  ASSUME NEW v \in KnownVersions, NEW i \in 1 .. Len(Flat(v)), NEW x \in StepSet(v)
  PROVE  /\ Flat(v)[i] \in StepSet(v)
         /\ i < Position(v, x) <=> Rank[Flat(v)[i]] < Rank[x]
         /\ i = Position(v, x) <=> Flat(v)[i] = x
<1> DEFINE p == Position(v, x)
           f == Flat(v)
<1>1. f \in Seq(StepNames) /\ InOrder(f, Rank)
  BY FlatInOrder
<1>2. p \in 1 .. Len(f) /\ f[p] = x
  BY Placed
<1>3. f[i] \in StepSet(v)
  BY <1>1 DEF StepSet, ToSet
<1>4. Rank[f[i]] \in 1 .. 22 /\ Rank[x] \in 1 .. 22
  BY <1>3, Placed
<1>10. i \in Nat /\ p \in Nat
  BY <1>1, <1>2
<1>11. Rank[f[i]] \in Nat /\ Rank[x] \in Nat
  BY <1>3, RankIsNatural
<1> HIDE DEF p, f
<1>5. i < p => Rank[f[i]] < Rank[x]
  BY <1>1, <1>2 DEF InOrder, f
<1>6. p < i => Rank[x] < Rank[f[i]]
  BY <1>1, <1>2 DEF InOrder, f
<1> DEFINE a == Rank[f[i]]
           b == Rank[x]
<1>7. /\ i = p => a = b /\ f[i] = x
      /\ f[i] = x => a = b
      /\ a \in Nat /\ b \in Nat /\ i \in Nat /\ p \in Nat
      /\ i < p => a < b
      /\ p < i => b < a
  <2>1. i = p => f[i] = x
    BY <1>2
  <2>2. f[i] = x => a = b
    OBVIOUS
  <2>3. a \in Nat /\ b \in Nat
    BY <1>11
  <2>4. (i < p => a < b) /\ (p < i => b < a)
    BY <1>5, <1>6
  <2> HIDE DEF a, b
  <2> QED BY <1>10, <2>1, <2>2, <2>3, <2>4
<1> HIDE DEF a, b
<1>8. i < p <=> a < b
  BY <1>7
<1>9. i = p <=> f[i] = x
  BY <1>7
<1> QED BY <1>3, <1>8, <1>9 DEF p, f, a, b

LEMMA PositionsByRank ==
  ASSUME NEW v \in KnownVersions, NEW x \in StepSet(v), NEW y \in StepSet(v)
  PROVE  Position(v, x) < Position(v, y) <=> Rank[x] < Rank[y]
BY Placed, PlacedByRank

LEMMA BeforeByRank ==
  ASSUME NEW v \in KnownVersions, NEW x \in StepSet(v)
  PROVE  Before(v, x) = {y \in StepSet(v) : Rank[y] < Rank[x]}
<1> DEFINE p == Position(v, x)
           f == Flat(v)
<1>1. p \in 1 .. Len(f) /\ f \in Seq(StepNames)
  BY Placed, FlatInOrder
<1>2. ASSUME NEW i \in 1 .. p - 1 PROVE f[i] \in StepSet(v) /\ Rank[f[i]] < Rank[x]
  <2>1. i \in 1 .. Len(f) /\ i < p
    BY <1>1
  <2> QED BY <2>1, PlacedByRank
<1>3. ASSUME NEW y \in StepSet(v), Rank[y] < Rank[x] PROVE \E i \in 1 .. p - 1 : f[i] = y
  <2>1. Position(v, y) \in 1 .. Len(f) /\ f[Position(v, y)] = y
    BY Placed
  <2>2. Position(v, y) < p
    BY <1>3, PositionsByRank
  <2> QED BY <1>1, <2>1, <2>2
<1> HIDE DEF p, f
<1>4. Before(v, x) = {f[i] : i \in 1 .. p - 1}
  BY DEF Before, p, f
<1> QED BY <1>2, <1>3, <1>4

\* The position of a step counts the steps before it.
LEMMA PositionCounts ==
  ASSUME NEW v \in KnownVersions, NEW x \in StepSet(v)
  PROVE  Position(v, x) = Cardinality(Before(v, x)) + 1
<1> DEFINE p == Position(v, x)
           f == Flat(v)
           g == [i \in 1 .. p - 1 |-> f[i]]
<1>1. p \in 1 .. Len(f) /\ f \in Seq(StepNames)
  BY Placed, FlatInOrder
<1>2. IsFiniteSet(1 .. p - 1) /\ Cardinality(1 .. p - 1) = p - 1
  BY <1>1, FS_Interval
<1>3. Before(v, x) = {f[i] : i \in 1 .. p - 1}
  BY DEF Before
<1>4. ASSUME NEW i \in 1 .. p - 1, NEW j \in 1 .. p - 1, f[i] = f[j] PROVE i = j
  <2>1. i \in 1 .. Len(f) /\ j \in 1 .. Len(f)
    BY <1>1
  <2>2. f[j] \in StepSet(v)
    BY <2>1, PlacedByRank
  <2>3. i = Position(v, f[j]) /\ j = Position(v, f[j])
    BY <1>4, <2>1, <2>2, PlacedByRank
  <2> QED BY <2>3
<1> HIDE DEF p, f
<1>5. g \in Bijection(1 .. p - 1, Before(v, x))
  BY <1>3, <1>4 DEF Bijection, Injection, Surjection, IsInjective
<1>6. ExistsBijection(1 .. p - 1, Before(v, x))
  BY <1>5 DEF ExistsBijection
<1>7. Cardinality(Before(v, x)) = p - 1
  BY <1>2, <1>6, FS_Bijection
<1> QED BY <1>1, <1>7 DEF p

---------------------------------------------------------------------------
(* Upgrades                                                                *)

\* The steps that 0.9.0 added, and those of 0.1.0.
LateSteps == {"release", "evolution_report"}

FirstSteps == {"project_brief", "scope", "prd", "acceptance_criteria", "technical_architecture",
               "information_architecture", "data_model", "api_contract", "test_strategy",
               "mvp_plan"}

\* The steps of every version.
LEMMA StepSets ==
  ASSUME NEW v \in KnownVersions
  PROVE  StepSet(v) = IF v = Version(1) THEN FirstSteps
                      ELSE IF v = Version(2) THEN StepNames \ ({"logic_backbone"} \cup LateSteps)
                      ELSE IF v = Version(9) THEN StepNames
                      ELSE StepNames \ LateSteps
<1>1. /\ Version(1) # Version(2) /\ Version(1) # Version(9) /\ Version(2) # Version(9)
  BY VersionsDiffer
<1> DEFINE All(t) == UNION {ToSet(t[s]) : s \in States}
<1>2. ASSUME NEW t
      PROVE  All(t) = ToSet(t.discovery) \cup ToSet(t.spec) \cup ToSet(t.design)
                      \cup ToSet(t.plan) \cup ToSet(t.build) \cup ToSet(t.verify)
                      \cup ToSet(t.ship) \cup ToSet(t.reflect)
  BY DEF States
<1>3. ToSet(<<>>) = {}
  BY DEF ToSet
<1>4. /\ ToSet(Steps010.discovery) = {"project_brief", "scope"}
      /\ ToSet(Steps010.spec) = {"prd", "acceptance_criteria"}
      /\ ToSet(Steps010.design) = {"technical_architecture", "information_architecture",
                                   "data_model", "api_contract", "test_strategy"}
      /\ ToSet(Steps010.plan) = {"mvp_plan"}
      /\ ToSet(Steps010.build) = {} /\ ToSet(Steps010.verify) = {}
      /\ ToSet(Steps010.ship) = {} /\ ToSet(Steps010.reflect) = {}
  BY DEF Steps010, ToSet
<1>5. /\ ToSet(Steps020.discovery) = {"project_brief"}
      /\ ToSet(Steps020.spec) = {"scope", "prd", "acceptance_criteria"}
      /\ ToSet(Steps020.design) = ToSet(Steps010.design)
      /\ ToSet(Steps020.plan) = {"mvp_plan", "build_plan"}
      /\ ToSet(Steps020.build) = {"implementation_log", "change_evidence", "integration_notes"}
      /\ ToSet(Steps020.verify) = {"verification_report", "acceptance_mapping",
                                   "failure_fix_log", "regression_evidence",
                                   "final_build_verdict"}
      /\ ToSet(Steps020.ship) = {} /\ ToSet(Steps020.reflect) = {}
  BY DEF Steps020, Steps010, ToSet
<1>6. /\ ToSet(Steps030.discovery) = ToSet(Steps020.discovery)
      /\ ToSet(Steps030.spec) = ToSet(Steps020.spec)
      /\ ToSet(Steps030.design) = {"technical_architecture", "information_architecture",
                                   "data_model", "logic_backbone", "api_contract",
                                   "test_strategy"}
      /\ ToSet(Steps030.plan) = ToSet(Steps020.plan)
      /\ ToSet(Steps030.build) = ToSet(Steps020.build)
      /\ ToSet(Steps030.verify) = ToSet(Steps020.verify)
      /\ ToSet(Steps030.ship) = {} /\ ToSet(Steps030.reflect) = {}
  BY DEF Steps030, Steps020, Steps010, ToSet
<1>7. /\ ToSet(Steps090.discovery) = ToSet(Steps020.discovery)
      /\ ToSet(Steps090.spec) = ToSet(Steps020.spec)
      /\ ToSet(Steps090.design) = ToSet(Steps030.design)
      /\ ToSet(Steps090.plan) = ToSet(Steps020.plan)
      /\ ToSet(Steps090.build) = ToSet(Steps020.build)
      /\ ToSet(Steps090.verify) = ToSet(Steps020.verify)
      /\ ToSet(Steps090.ship) = {"release"} /\ ToSet(Steps090.reflect) = {"evolution_report"}
  BY DEF Steps090, Steps030, Steps020, Steps010, ToSet
<1> HIDE DEF All
<1>8. /\ All(Steps010) = FirstSteps
      /\ All(Steps020) = StepNames \ ({"logic_backbone"} \cup LateSteps)
      /\ All(Steps030) = StepNames \ LateSteps
      /\ All(Steps090) = StepNames
  <2>1. All(Steps010) = FirstSteps
    BY <1>2, <1>4 DEF FirstSteps
  <2>2. All(Steps020) = StepNames \ ({"logic_backbone"} \cup LateSteps)
    BY <1>2, <1>4, <1>5 DEF StepNames, LateSteps
  <2>3. All(Steps030) = StepNames \ LateSteps
    BY <1>2, <1>5, <1>6 DEF StepNames, LateSteps
  <2>4. All(Steps090) = StepNames
    BY <1>2, <1>5, <1>6, <1>7 DEF StepNames
  <2> QED BY <2>1, <2>2, <2>3, <2>4
<1>9. StepSet(v) = All(StepsByState(v))
  BY FlatInOrder DEF All
<1>10. StepsByState(v) = IF v = Version(1) THEN Steps010 ELSE IF v = Version(2) THEN Steps020
                         ELSE IF v = Version(9) THEN Steps090 ELSE Steps030
  BY <1>1 DEF StepsByState
<1> QED BY <1>8, <1>9, <1>10

\* Pins whose upgrades keep the place: the bundled versions, and every other
\* one from 0.3.0 on.
Pins == {pin \in Nat \X Nat \X Nat : pin \in KnownVersions \/ AtLeast(pin, Version(3))}

\* From 0.3.0 on the profiles differ in nothing but the late steps.
LEMMA LateVersions ==
  ASSUME NEW v \in KnownVersions, AtLeast(v, Version(3))
  PROVE  StepSet(v) = StepNames \/ StepSet(v) = StepNames \ LateSteps
<1>1. v # Version(1) /\ v # Version(2)
  BY DEF AtLeast, Version
<1> QED BY <1>1, StepSets

\* A newer profile has every step of an older one.
LEMMA NewerHasAll ==
  ASSUME NEW v \in KnownVersions, NEW w \in KnownVersions, AtLeast(w, v)
  PROVE  StepSet(v) \subseteq StepSet(w)
<1>1. /\ w = Version(1) => v = Version(1)
      /\ w = Version(2) => v = Version(1) \/ v = Version(2)
      /\ v = Version(9) => w = Version(9)
  BY DEF AtLeast, Version, KnownVersions
<1>2. FirstSteps \subseteq StepNames \ ({"logic_backbone"} \cup LateSteps)
  BY DEF FirstSteps, StepNames, LateSteps
<1> QED BY <1>1, <1>2, StepSets

\* An upgrade from a pin of 0.3.0 or later, or an unknown one, goes there too.
LEMMA PinsReach ==
  ASSUME NEW pin \in Pins, NEW target \in KnownVersions, AtLeast(target, pin)
  PROVE  /\ pin \notin KnownVersions => AtLeast(target, Version(3))
         /\ AtLeast(pin, Version(3)) => AtLeast(target, Version(3))
<1>1. pin \in Nat \X Nat \X Nat /\ target \in Nat \X Nat \X Nat
  BY DEF Pins, KnownVersions, Version
<1>2. AtLeast(pin, Version(3)) => AtLeast(target, Version(3))
  BY <1>1 DEF AtLeast, Version
<1> QED BY <1>2 DEF Pins

LEMMA LocationsTyped ==
  ASSUME NEW v \in KnownVersions, NEW at \in Locations(v)
  PROVE  at.state \in States /\ at.step \in StepSet(v)
<1>1. PICK s \in StepSet(v) : at = [state |-> StateOf(v, s), step |-> s]
  BY DEF Locations
<1>2. ToSet(StateOrder) = States
  BY DEF StateOrder, States, ToSet
<1>3. \E t \in States : s \in ToSet(StepsByState(v)[t])
  BY FlatInOrder
<1>4. StateOf(v, s) \in States
  BY <1>2, <1>3 DEF StateOf
<1> QED BY <1>1, <1>4

\* A step of the old profile that is before one of both is in the new one too.
LEMMA NothingSkipped ==
  ASSUME NEW old \in KnownVersions, NEW new \in KnownVersions,
         AtLeast(new, old) \/ (AtLeast(old, Version(3)) /\ AtLeast(new, Version(3))),
         NEW x \in StepSet(old), NEW y \in StepSet(new), Rank[x] < Rank[y]
  PROVE  x \in StepSet(new)
<1>1. CASE AtLeast(new, old)
  BY <1>1, NewerHasAll
<1>2. CASE AtLeast(old, Version(3)) /\ AtLeast(new, Version(3))
  <2>1. StepSet(old) \subseteq StepNames
    BY Placed
  <2>2. CASE StepSet(new) = StepNames
    BY <2>1, <2>2
  <2>3. CASE StepSet(new) = StepNames \ LateSteps
    <3>1. Rank["release"] = 21 /\ Rank["evolution_report"] = 22
      BY DEF Rank
    <3>2. \A z \in StepNames : Rank[z] \in 1 .. 22
      BY RankTyped
    <3>3. y \in StepNames /\ y \notin LateSteps
      BY <2>3
    <3>4. Rank[y] # 21 /\ Rank[y] # 22
      BY <3>1, <3>3, RankInjective DEF LateSteps, StepNames
    <3>5. x \notin LateSteps
      BY <3>1, <3>2, <3>3, <3>4 DEF LateSteps
    <3> QED BY <2>1, <2>3, <3>5
  <2> QED BY <1>2, <2>2, <2>3, LateVersions
<1> QED BY <1>1, <1>2

LEMMA EveryUpgradeKeepsThePlace ==
  ASSUME NEW pin \in Pins, NEW target, NEW at \in Locations(ResolveProfile(pin))
  PROVE  UpgradeKeepsThePlace(pin, target, at)
<1> DEFINE old == ResolveProfile(pin)
           step == at.step
<1> SUFFICES ASSUME ValidateUpgrade(pin, target, at) = "proceed"
             PROVE  UpgradeKeepsThePlace(pin, target, at)
  BY DEF UpgradeKeepsThePlace
<1>1. target \in KnownVersions /\ AtLeast(target, pin) /\ IsKnownLocation(target, at)
  BY DEF ValidateUpgrade, MissingCursorId
<1>2. old \in KnownVersions
  BY DEF ResolveProfile, DefaultVersion, KnownVersions
<1>3. at.state \in States /\ step \in StepSet(old)
  BY <1>2, LocationsTyped
<1>4. step \in StepSet(target)
  BY <1>1, <1>3, FlatInOrder DEF IsKnownLocation
<1>5. AtLeast(target, old) \/ (AtLeast(old, Version(3)) /\ AtLeast(target, Version(3)))
  <2>1. CASE pin \in KnownVersions
    BY <1>1, <2>1 DEF ResolveProfile
  <2>2. CASE pin \notin KnownVersions
    <3>1. old = Version(9)
      BY <2>2 DEF ResolveProfile, DefaultVersion
    <3>2. AtLeast(old, Version(3))
      BY <3>1 DEF AtLeast, Version
    <3> QED BY <1>1, <2>2, <3>2, PinsReach
  <2> QED BY <2>1, <2>2
<1>6. AtLeast(old, Version(3)) => AtLeast(target, Version(3))
  <2>1. CASE pin \in KnownVersions
    BY <1>1, <2>1, PinsReach DEF ResolveProfile
  <2>2. CASE pin \notin KnownVersions
    BY <1>1, <2>2, PinsReach
  <2> QED BY <2>1, <2>2
<1> HIDE DEF old, step
<1>7. \A v \in KnownVersions : \A x \in StepSet(v) :
        Before(v, x) = {y \in StepSet(v) : Rank[y] < Rank[x]}
  BY BeforeByRank
<1>8. Before(target, step) \cap StepSet(old) = Before(old, step)
  <2>1. \A x \in StepSet(old) : Rank[x] < Rank[step] => x \in StepSet(target)
    BY <1>1, <1>2, <1>4, <1>5, NothingSkipped
  <2> QED BY <1>1, <1>2, <1>3, <1>4, <1>7, <2>1
<1>9. NextStep(target, step).step \notin Before(old, step)
  <2>1. Before(old, step) \subseteq StepNames
    BY <1>2, <1>3, <1>7, Placed
  <2>2. CASE NextStep(target, step) = NoStep
    <3>1. "none" \notin StepNames
      BY DEF StepNames
    <3> QED BY <2>1, <2>2, <3>1 DEF NoStep
  <2>3. CASE NextStep(target, step) # NoStep
    <3> DEFINE p == Position(target, step)
               next == Flat(target)[p + 1]
    <3>1. p # Len(Flat(target)) /\ NextStep(target, step).step = next
      BY <2>3 DEF NextStep
    <3>2. p + 1 \in 1 .. Len(Flat(target)) /\ p \in Nat
      <4>1. p \in 1 .. Len(Flat(target)) /\ Flat(target) \in Seq(StepNames)
        BY <1>1, <1>4, Placed, FlatInOrder
      <4> QED BY <3>1, <4>1
    <3>3. ~(p + 1 < p)
      BY <3>2
    <3>4. ~(Rank[next] < Rank[step])
      BY <1>1, <1>4, <3>2, <3>3, PlacedByRank
    <3> QED BY <1>2, <1>3, <1>7, <3>1, <3>4
  <2> QED BY <2>2, <2>3
<1>10. ASSUME AtLeast(old, Version(3)), NEW s \in Before(old, step)
       PROVE  ArtifactPath(target, s) = ArtifactPath(old, s)
  <2>1. s \in StepSet(old) /\ Rank[s] < Rank[step]
    BY <1>2, <1>3, <1>7, <1>10
  <2>2. s \in StepSet(target)
    BY <1>1, <1>2, <1>4, <1>5, <2>1, NothingSkipped
  <2>3. AtLeast(target, Version(3))
    BY <1>6, <1>10
  <2>4. Before(old, s) = Before(target, s)
    <3>1. \A x \in StepSet(old) : Rank[x] < Rank[s] => x \in StepSet(target)
      BY <1>1, <1>2, <1>10, <2>2, <2>3, NothingSkipped
    <3>2. \A x \in StepSet(target) : Rank[x] < Rank[s] => x \in StepSet(old)
      BY <1>1, <1>2, <1>10, <2>1, <2>3, NothingSkipped
    <3> QED BY <1>1, <1>2, <1>7, <2>1, <2>2, <3>1, <3>2
  <2>5. Position(old, s) = Position(target, s)
    BY <1>1, <1>2, <2>1, <2>2, <2>4, PositionCounts
  <2> QED BY <2>1, <2>2, <2>5 DEF ArtifactPath
<1> QED BY <1>1, <1>8, <1>9, <1>10 DEF UpgradeKeepsThePlace, old, step

---------------------------------------------------------------------------
(* Deadlines of the rules                                                  *)

\* No step comes later than its rank.
LEMMA PlaceWithinRank ==
  ASSUME NEW v \in KnownVersions, NEW x \in StepSet(v)
  PROVE  Position(v, x) \in 1 .. Rank[x]
<1> DEFINE f == Flat(v)
           n == Len(f)
           P == {k \in 0 .. n : k = 0 \/ k <= Rank[f[k]]}
<1>1. f \in Seq(StepNames) /\ InOrder(f, Rank) /\ n \in Nat /\ DOMAIN f = 1 .. n
  BY FlatInOrder
<1>2. \A k \in 1 .. n : Rank[f[k]] \in 1 .. 22 /\ Rank[f[k]] \in Nat
  BY <1>1, RankTyped
<1>3. ASSUME NEW k \in 0 .. n - 1, k \in P PROVE k + 1 \in P
  <2>1. k \in Nat /\ k + 1 \in 1 .. n
    BY <1>1
  <2>2. CASE k = 0
    <3>1. Rank[f[1]] \in 1 .. 22
      BY <1>2, <2>1, <2>2
    <3> QED BY <2>1, <2>2, <3>1
  <2>3. CASE k # 0
    <3>1. k \in 1 .. n /\ k <= Rank[f[k]]
      BY <1>1, <1>3, <2>1, <2>3
    <3>2. Rank[f[k]] < Rank[f[k + 1]]
      BY <1>1, <2>1, <3>1 DEF InOrder
    <3>3. Rank[f[k]] \in Nat /\ Rank[f[k + 1]] \in Nat
      BY <1>2, <2>1, <3>1
    <3>4. k + 1 <= Rank[f[k + 1]]
      BY <2>1, <3>1, <3>2, <3>3
    <3> QED BY <2>1, <3>4
  <2> QED BY <2>2, <2>3
<1>4. \A k \in 0 .. n : k \in P
  <2>1. 0 \in P
    BY <1>1
  <2> HIDE DEF P, n
  <2> QED BY <1>1, <1>3, <2>1, CountingUp
<1>5. Position(v, x) \in 1 .. n /\ f[Position(v, x)] = x
  BY Placed
<1>6. Position(v, x) <= Rank[x]
  BY <1>1, <1>4, <1>5
<1> QED BY <1>1, <1>5, <1>6, Placed

\* A step of the version that writes a document.
HasDocument(v, x) == x \in StepSet(v) /\ ArtifactPath(v, x) # NoDocument

\* Documents are numbered in the order of their steps.
LEMMA SlotsInOrder ==
  ASSUME NEW v \in KnownVersions, NEW x, NEW y, HasDocument(v, x), HasDocument(v, y)
  PROVE  /\ ArtifactPath(v, x)[1] \in Nat
         /\ Position(v, x) < Position(v, y) => ArtifactPath(v, x)[1] < ArtifactPath(v, y)[1]
<1> DEFINE p(s) == Position(v, s)
           slot(s) == IF s = "evolution_report" THEN 23 ELSE p(s) - 1
<1>1. ASSUME NEW s, HasDocument(v, s)
      PROVE  /\ s \in StepNames /\ s \in StepSet(v) /\ ArtifactPath(v, s)[1] = slot(s)
             /\ p(s) \in 1 .. 22 /\ p(s) \in Nat
             /\ Rank[s] \in 1 .. 22
  <2>1. s \in StepSet(v) /\ ArtifactPath(v, s) = <<slot(s), s>>
    BY <1>1 DEF HasDocument, ArtifactPath
  <2>2. s \in StepNames /\ Rank[s] \in 1 .. 22
    BY <2>1, Placed
  <2>3. p(s) \in 1 .. Rank[s]
    BY <2>1, PlaceWithinRank
  <2> HIDE DEF p, slot
  <2> QED BY <2>1, <2>2, <2>3
<1>2. p(x) < p(y) => x # "evolution_report"
  <2> SUFFICES ASSUME p(x) < p(y), x = "evolution_report" PROVE FALSE
    OBVIOUS
  <2>1. Rank[x] < Rank[y]
    BY <1>1, PositionsByRank
  <2>2. Rank[x] = 22
    BY DEF Rank
  <2> QED BY <1>1, <2>1, <2>2
<1>3. p(x) \in Nat /\ p(x) \in 1 .. 22 /\ p(y) \in 1 .. 22
  BY <1>1
<1> HIDE DEF p
<1>4. slot(x) \in Nat /\ (p(x) < p(y) => slot(x) < slot(y))
  BY <1>2, <1>3
<1> QED BY <1>1, <1>4 DEF p

\* The globs of a slug: none, one, or those of the technical architecture.
LEMMA GlobsAre ==
  ASSUME NEW slug
  PROVE  \/ Globs(slug) = <<>>
         \/ \E S \in SUBSET StepNames : Globs(slug) = <<S>>
         \/ Globs(slug) = <<{"technical_architecture"},
                            {"technical_architecture", "information_architecture"}>>
<1> SUFFICES ASSUME slug \in DOMAIN Wired
             PROVE  \/ \E S \in SUBSET StepNames : Wired[slug] = <<S>>
                    \/ Wired[slug] = <<{"technical_architecture"},
                                       {"technical_architecture", "information_architecture"}>>
  BY DEF Globs
<1> DEFINE One(S) == S \in SUBSET StepNames
<1>1. /\ One({"project_brief"}) /\ One({"scope"}) /\ One({"prd"})
      /\ One({"acceptance_criteria", "acceptance_mapping"})
      /\ One({"information_architecture"}) /\ One({"data_model"}) /\ One({"api_contract"})
      /\ One({"test_strategy"}) /\ One({"logic_backbone"}) /\ One({"mvp_plan"})
      /\ One({"integration_notes"}) /\ One({"build_plan"}) /\ One({"evolution_report"})
  BY DEF StepNames
<1> HIDE DEF One
<1>2. ASSUME NEW S, One(S), Wired[slug] = <<S>> PROVE \E T \in SUBSET StepNames : Wired[slug] = <<T>>
  BY <1>2 DEF One
<1>3. DOMAIN Wired = {"brief", "scope", "prd", "acceptance", "ia", "tech_arch", "data_model",
                      "api", "test_strategy", "logic_backbone", "mvp_plan",
                      "real_data_wiring", "reproducibility", "evolution"}
  BY DEF Wired
<1>4. CASE slug = "tech_arch"
  BY <1>4 DEF Wired
<1>5. CASE slug # "tech_arch"
  <2>1. \E S : One(S) /\ Wired[slug] = <<S>>
    <3>1. /\ Wired["brief"] = <<{"project_brief"}>>
          /\ Wired["scope"] = <<{"scope"}>>
          /\ Wired["prd"] = <<{"prd"}>>
          /\ Wired["acceptance"] = <<{"acceptance_criteria", "acceptance_mapping"}>>
          /\ Wired["ia"] = <<{"information_architecture"}>>
          /\ Wired["data_model"] = <<{"data_model"}>>
          /\ Wired["api"] = <<{"api_contract"}>>
          /\ Wired["test_strategy"] = <<{"test_strategy"}>>
          /\ Wired["logic_backbone"] = <<{"logic_backbone"}>>
          /\ Wired["mvp_plan"] = <<{"mvp_plan"}>>
          /\ Wired["real_data_wiring"] = <<{"integration_notes"}>>
          /\ Wired["reproducibility"] = <<{"build_plan"}>>
          /\ Wired["evolution"] = <<{"evolution_report"}>>
      BY DEF Wired
    <3> QED BY <1>1, <1>3, <1>5, <3>1, ZenonT(30)
  <2> QED BY <1>2, <2>1
<1> QED BY <1>4, <1>5

\* The documents any glob of a slug names, and their places in the workflow.
Named(slug) == UNION ToSet(Globs(slug))
PlacesOf(v, slug) == {i \in DOMAIN Flat(v) : Flat(v)[i] \in Named(slug) /\ HasDocument(v, Flat(v)[i])}

\* The deadline of a slug is its first place, or there is none.
LEMMA EarliestIs ==
  ASSUME NEW v \in KnownVersions, NEW slug
  PROVE  LET e == EarliestStepForSlug(v, slug)
         IN  IF PlacesOf(v, slug) = {} THEN e = Never
             ELSE e \in PlacesOf(v, slug) /\ e \in Nat \ {0} /\ \A j \in PlacesOf(v, slug) : e <= j
<1> DEFINE I == PlacesOf(v, slug)
           J == {i \in DOMAIN Flat(v) :
                   Flat(v)[i] \in UNION ToSet(Globs(slug)) /\ ArtifactPath(v, Flat(v)[i]) # NoDocument}
<1>1. Flat(v) \in Seq(StepNames)
  BY FlatInOrder
<1>2. I = J
  <2>1. \A i \in DOMAIN Flat(v) : Flat(v)[i] \in StepSet(v)
    BY DEF StepSet, ToSet
  <2> QED BY <2>1 DEF PlacesOf, Named, HasDocument
<1>3. EarliestStepForSlug(v, slug) = IF J = {} THEN Never ELSE CHOOSE i \in J : \A j \in J : i <= j
  BY DEF EarliestStepForSlug
<1>4. J \in SUBSET Nat /\ 0 \notin J
  BY <1>1
<1> HIDE DEF I, J
<1>5. J # {} => \E i \in J : \A j \in J : i <= j
  BY <1>4, LeastNatural
<1> QED BY <1>2, <1>3, <1>4, <1>5 DEF I

\* What is written at a step: the documents of the steps no later.
LEMMA WrittenIs ==
  ASSUME NEW v \in KnownVersions, NEW step \in StepSet(v)
  PROVE  Written(v, step) =
           {s \in StepSet(v) : HasDocument(v, s) /\ Position(v, s) <= Position(v, step)}
<1>1. ASSUME NEW s \in StepSet(v)
      PROVE  s \in Before(v, step) \cup {step} <=> Position(v, s) <= Position(v, step)
  <2> DEFINE p == Position(v, s)
             q == Position(v, step)
  <2>1. p \in Nat /\ q \in Nat /\ p \in 1 .. Len(Flat(v)) /\ Flat(v)[p] = s
    BY FlatInOrder, Placed
  <2>2. s \in Before(v, step) <=> p < q
    BY BeforeByRank, PositionsByRank
  <2>3. s = step <=> p = q
    BY <2>1, PlacedByRank
  <2> HIDE DEF p, q
  <2>4. p <= q <=> p < q \/ p = q
    BY <2>1
  <2> QED BY <2>2, <2>3, <2>4 DEF p, q
<1>2. Before(v, step) \cup {step} \subseteq StepSet(v)
  BY BeforeByRank
<1> QED BY <1>1, <1>2 DEF Written, HasDocument

\* Something is written for a slug from its deadline on.
LEMMA WrittenFromTheDeadline ==
  ASSUME NEW v \in KnownVersions, NEW step \in StepSet(v), NEW slug
  PROVE  /\ EarliestStepForSlug(v, slug) = Never => Written(v, step) \cap Named(slug) = {}
         /\ EarliestStepForSlug(v, slug) # Never =>
              (Position(v, step) >= EarliestStepForSlug(v, slug)
                 <=> Written(v, step) \cap Named(slug) # {})
<1> DEFINE e == EarliestStepForSlug(v, slug)
           q == Position(v, step)
           W == Written(v, step) \cap Named(slug)
<1>1. q \in Nat /\ q \in 1 .. Len(Flat(v)) /\ Flat(v) \in Seq(StepNames)
  BY FlatInOrder, Placed
<1>2. ASSUME NEW s \in W
      PROVE  Position(v, s) \in PlacesOf(v, slug) /\ Position(v, s) <= q
  <2>1. s \in StepSet(v) /\ HasDocument(v, s) /\ Position(v, s) <= q
    BY WrittenIs
  <2>2. Position(v, s) \in DOMAIN Flat(v) /\ Flat(v)[Position(v, s)] = s
    BY <1>1, <2>1, Placed
  <2> QED BY <2>1, <2>2 DEF PlacesOf
<1>3. ASSUME NEW i \in PlacesOf(v, slug), i <= q PROVE Flat(v)[i] \in W
  <2>1. i \in 1 .. Len(Flat(v)) /\ HasDocument(v, Flat(v)[i]) /\ Flat(v)[i] \in Named(slug)
    BY <1>1 DEF PlacesOf
  <2>2. Flat(v)[i] \in StepSet(v)
    BY <2>1 DEF HasDocument
  <2>3. i = Position(v, Flat(v)[i])
    BY <2>1, <2>2, PlacedByRank
  <2> QED BY <1>3, <2>1, <2>2, <2>3, WrittenIs
<1>4. /\ PlacesOf(v, slug) = {} => e = Never
      /\ PlacesOf(v, slug) # {} =>
           e \in PlacesOf(v, slug) /\ e \in Nat \ {0} /\ \A j \in PlacesOf(v, slug) : e <= j
  BY EarliestIs
<1> HIDE DEF e, q, W
<1>5. e = Never => W = {}
  BY <1>2, <1>4 DEF Never
<1>6. ASSUME e # Never, q >= e PROVE W # {}
  BY <1>1, <1>3, <1>4, <1>6
<1>7. ASSUME e # Never, NEW s \in W PROVE q >= e
  <2>1. /\ e \in Nat /\ e <= Position(v, s) /\ Position(v, s) <= q
        /\ Position(v, s) \in Nat
    <3>1. Position(v, s) \in PlacesOf(v, slug) /\ Position(v, s) <= q
      BY <1>2
    <3>2. PlacesOf(v, slug) \subseteq Nat
      BY <1>1 DEF PlacesOf
    <3> QED BY <1>4, <3>1, <3>2
  <2> QED BY <1>1, <2>1
<1> QED BY <1>5, <1>6, <1>7 DEF e, q, W

\* The first of a set of documents: the one with the least slot.
LEMMA FirstDocument ==
  ASSUME NEW v \in KnownVersions, NEW hits, hits # {}, \A s \in hits : HasDocument(v, s)
  PROVE  LET s == CHOOSE s \in hits : \A t \in hits : ArtifactPath(v, s)[1] <= ArtifactPath(v, t)[1]
         IN  s \in hits /\ \A t \in hits : Position(v, s) <= Position(v, t)
<1> DEFINE slot(s) == ArtifactPath(v, s)[1]
           slots == {slot(s) : s \in hits}
           least == CHOOSE s \in hits : \A t \in hits : slot(s) <= slot(t)
<1>1. slots \in SUBSET Nat /\ slots # {}
  BY SlotsInOrder
<1>2. \E s \in hits : \A t \in hits : slot(s) <= slot(t)
  <2>1. PICK n \in slots : \A m \in slots : n <= m
    <3> HIDE DEF slots
    <3> QED BY <1>1, LeastNatural
  <2> QED BY <2>1
<1>3. least \in hits /\ \A t \in hits : slot(least) <= slot(t)
  <2> HIDE DEF slot
  <2> QED BY <1>2
<1> HIDE DEF least
<1>4. ASSUME NEW t \in hits PROVE Position(v, least) <= Position(v, t)
  <2>1. HasDocument(v, least) /\ HasDocument(v, t)
    BY <1>3
  <2>2. slot(least) \in Nat /\ slot(t) \in Nat
    BY <2>1, SlotsInOrder
  <2>3. Position(v, t) < Position(v, least) => slot(t) < slot(least)
    BY <2>1, SlotsInOrder
  <2>4. slot(least) <= slot(t)
    BY <1>3
  <2>5. Position(v, least) \in Nat /\ Position(v, t) \in Nat
    <3>1. Flat(v) \in Seq(StepNames)
      BY FlatInOrder
    <3> QED BY <2>1, <3>1, Placed DEF HasDocument
  <2> HIDE DEF slot
  <2> QED BY <2>2, <2>3, <2>4, <2>5
<1> QED BY <1>3, <1>4 DEF least

\* The globs that match some document, and what the first of them hits.
Matched(slug, docs) == {i \in DOMAIN Globs(slug) : docs \cap Globs(slug)[i] # {}}
Hits(slug, docs) == docs \cap Globs(slug)[Min(Matched(slug, docs))]

\* A slug resolves to the first document its first matching glob hits.
LEMMA ResolvesSome ==
  ASSUME NEW v \in KnownVersions, NEW slug, NEW docs, \A s \in docs : HasDocument(v, s)
  PROVE  /\ Matched(slug, docs) \in SUBSET Nat
         /\ Matched(slug, docs) # {} <=> docs \cap Named(slug) # {}
         /\ Matched(slug, docs) = {} => ResolveArtifact(v, slug, docs) = NoDocument
         /\ Matched(slug, docs) # {} =>
              \E s \in Hits(slug, docs) :
                /\ ResolveArtifact(v, slug, docs) = ArtifactPath(v, s)
                /\ \A t \in Hits(slug, docs) : Position(v, s) <= Position(v, t)
<1> DEFINE M == Matched(slug, docs)
           H == Hits(slug, docs)
<1>1. DOMAIN Globs(slug) \in SUBSET Nat
  BY GlobsAre
<1>2. M \in SUBSET Nat
  BY <1>1 DEF Matched
<1>3. M # {} <=> docs \cap Named(slug) # {}
  BY DEF Matched, Named, ToSet
<1>4. ResolveArtifact(v, slug, docs) =
        IF M = {} THEN NoDocument
        ELSE ArtifactPath(v, CHOOSE s \in H :
               \A t \in H : ArtifactPath(v, s)[1] <= ArtifactPath(v, t)[1])
  BY DEF ResolveArtifact, Matched, Hits
<1>5. M # {} => H # {} /\ \A s \in H : HasDocument(v, s)
  <2>1. M # {} => Min(M) \in M
    <3> HIDE DEF M
    <3> QED BY <1>2, LeastIsMin
  <2> QED BY <2>1 DEF Matched, Hits
<1> HIDE DEF M, H
<1>6. ASSUME M # {}
      PROVE  \E s \in H : /\ ResolveArtifact(v, slug, docs) = ArtifactPath(v, s)
                          /\ \A t \in H : Position(v, s) <= Position(v, t)
  BY <1>4, <1>5, <1>6, FirstDocument
<1> QED BY <1>2, <1>3, <1>4, <1>6 DEF M, H

\* The first glob of a slug names its first document.
LEMMA FirstGlobFirst ==
  ASSUME NEW v \in KnownVersions, NEW slug, EarliestStepForSlug(v, slug) # Never
  PROVE  1 \in DOMAIN Globs(slug) /\ Flat(v)[EarliestStepForSlug(v, slug)] \in Globs(slug)[1]
<1> DEFINE e == EarliestStepForSlug(v, slug)
           f == Flat(v)
           ta == "technical_architecture"
           ia == "information_architecture"
<1>1. e \in PlacesOf(v, slug) /\ \A j \in PlacesOf(v, slug) : e <= j
  BY EarliestIs
<1>2. e \in 1 .. Len(f) /\ f \in Seq(StepNames) /\ f[e] \in Named(slug) /\ HasDocument(v, f[e])
  BY <1>1, FlatInOrder DEF PlacesOf
<1>3. Globs(slug) # <<>>
  BY <1>2 DEF Named, ToSet
<1>4. ASSUME NEW S, Globs(slug) = <<S>> PROVE 1 \in DOMAIN Globs(slug) /\ f[e] \in Globs(slug)[1]
  <2>1. DOMAIN Globs(slug) = {1} /\ Globs(slug)[1] = S
    BY <1>4
  <2> QED BY <1>2, <2>1 DEF Named, ToSet
<1>5. CASE Globs(slug) = <<{ta}, {ta, ia}>>
  <2>1. DOMAIN Globs(slug) = {1, 2} /\ Globs(slug)[1] = {ta} /\ Globs(slug)[2] = {ta, ia}
    BY <1>5
  <2>2. Named(slug) = {ta, ia}
    BY <2>1 DEF Named, ToSet
  <2>3. ta \in StepSet(v) /\ ia \in StepSet(v)
    <3>1. {ta, ia} \cap ({"logic_backbone"} \cup LateSteps) = {}
      BY DEF LateSteps
    <3>2. {ta, ia} \subseteq FirstSteps /\ {ta, ia} \subseteq StepNames
      BY DEF FirstSteps, StepNames
    <3> HIDE DEF ta, ia
    <3> QED BY <3>1, <3>2, StepSets
  <2>4. Rank[ta] < Rank[ia]
    BY DEF Rank
  <2>5. HasDocument(v, ta)
    BY <2>3 DEF HasDocument, ArtifactPath, NoDocument
  <2>6. Position(v, ta) \in PlacesOf(v, slug)
    <3>1. Position(v, ta) \in 1 .. Len(f) /\ f[Position(v, ta)] = ta
      BY <2>3, Placed
    <3> QED BY <1>2, <2>2, <2>5, <3>1 DEF PlacesOf
  <2>7. f[e] # ia
    <3> SUFFICES ASSUME f[e] = ia PROVE FALSE
      OBVIOUS
    <3>1. e = Position(v, ia)
      BY <1>2, <2>3, PlacedByRank
    <3>2. Position(v, ta) < Position(v, ia)
      BY <2>3, <2>4, PositionsByRank
    <3>3. e \in Nat /\ Position(v, ta) \in Nat
      BY <1>2, <2>3, Placed
    <3> QED BY <1>1, <2>6, <3>1, <3>2, <3>3
  <2> QED BY <1>2, <2>1, <2>2, <2>7
<1> QED BY <1>3, <1>4, <1>5, GlobsAre

\* From its deadline on a slug resolves to the document it was computed from.
LEMMA ResolvesToTheEarliest ==
  ASSUME NEW v \in KnownVersions, NEW step \in StepSet(v), NEW slug,
         EarliestStepForSlug(v, slug) # Never,
         Position(v, step) >= EarliestStepForSlug(v, slug)
  PROVE  ResolveArtifact(v, slug, Written(v, step))
           = ArtifactPath(v, Flat(v)[EarliestStepForSlug(v, slug)])
<1> DEFINE e == EarliestStepForSlug(v, slug)
           first == Flat(v)[e]
           docs == Written(v, step)
           M == Matched(slug, docs)
           H == Hits(slug, docs)
<1>1. /\ e \in PlacesOf(v, slug) /\ \A j \in PlacesOf(v, slug) : e <= j
      /\ e \in Nat /\ e # 0
  BY EarliestIs
<1>2. /\ Flat(v) \in Seq(StepNames) /\ e \in 1 .. Len(Flat(v)) /\ HasDocument(v, first)
      /\ first \in StepSet(v)
  BY <1>1, FlatInOrder DEF PlacesOf, HasDocument
<1>3. e = Position(v, first)
  BY <1>2, PlacedByRank
<1>4. \A s \in docs : s \in StepSet(v) /\ HasDocument(v, s)
  BY WrittenIs
<1>5. first \in docs
  BY <1>2, <1>3, WrittenIs
<1>6. 1 \in DOMAIN Globs(slug) /\ first \in Globs(slug)[1]
  BY FirstGlobFirst
<1>7. M \in SUBSET Nat /\ 1 \in M
  BY <1>4, <1>5, <1>6, ResolvesSome DEF Matched
<1>8. 0 \notin M
  <2>1. 0 \notin DOMAIN Globs(slug)
    BY GlobsAre
  <2> QED BY <2>1 DEF Matched
<1>9. Min(M) = 1
  <2> HIDE DEF M
  <2>1. Min(M) \in M /\ Min(M) <= 1
    BY <1>7, LeastIsMin
  <2>2. Min(M) \in Nat /\ Min(M) # 0
    BY <1>7, <1>8, <2>1
  <2> DEFINE m == Min(M)
  <2>3. m \in Nat /\ m # 0 /\ m <= 1
    BY <2>1, <2>2
  <2> HIDE DEF m
  <2>4. m = 1
    BY <2>3
  <2> QED BY <2>4 DEF m
<1>10. H = docs \cap Globs(slug)[1]
  BY <1>9 DEF Hits
<1>11. PICK s \in H : /\ ResolveArtifact(v, slug, docs) = ArtifactPath(v, s)
                      /\ \A t \in H : Position(v, s) <= Position(v, t)
  <2>1. M # {}
    BY <1>7
  <2> HIDE DEF M, H, docs
  <2> QED BY <1>4, <2>1, ResolvesSome DEF M, H
<1>12. s \in docs /\ s \in Named(slug) /\ Position(v, s) <= e
  <2>1. first \in H
    BY <1>5, <1>6, <1>10
  <2>2. s \in docs /\ s \in Globs(slug)[1]
    BY <1>10, <1>11
  <2>3. Position(v, s) <= e
    BY <1>3, <1>11, <2>1
  <2> QED BY <1>6, <2>2, <2>3 DEF Named, ToSet
<1>13. Position(v, s) \in PlacesOf(v, slug) /\ Position(v, s) \in Nat /\ Flat(v)[Position(v, s)] = s
  <2>1. s \in StepSet(v) /\ HasDocument(v, s)
    BY <1>4, <1>12
  <2>2. Position(v, s) \in 1 .. Len(Flat(v)) /\ Flat(v)[Position(v, s)] = s
    BY <2>1, Placed
  <2> QED BY <1>2, <1>12, <2>1, <2>2 DEF PlacesOf
<1>14. Position(v, s) = e
  BY <1>1, <1>12, <1>13
<1>15. s = first
  BY <1>13, <1>14
<1> QED BY <1>11, <1>15

\* The first step of BUILD has a place in every version but the first.
LEMMA BuildStarts ==
  ASSUME NEW v \in KnownVersions
  PROVE  /\ FirstStepOfState(v, "build") \in 0 .. Len(Flat(v))
         /\ v # Version(1) => FirstStepOfState(v, "build") # Never
<1> DEFINE steps == StepsByState(v)["build"]
<1>1. steps = <<>> \/ steps[1] \in StepSet(v)
  <2>1. steps \in Seq(StepNames)
    BY TablesTyped DEF StepsByState, States
  <2>2. steps # <<>> => steps[1] \in ToSet(steps)
    <3> HIDE DEF steps
    <3> QED BY <2>1 DEF ToSet
  <2>3. ToSet(steps) \subseteq StepSet(v)
    BY FlatInOrder DEF States
  <2> QED BY <2>2, <2>3
<1>2. v # Version(1) => steps # <<>>
  BY DEF StepsByState, Steps090, Steps030, Steps020, Steps010
<1>3. Flat(v) \in Seq(StepNames)
  BY FlatInOrder
<1> HIDE DEF steps
<1>4. FirstStepOfState(v, "build") = IF steps = <<>> THEN Never ELSE Position(v, steps[1])
  BY DEF FirstStepOfState, steps
<1>5. steps # <<>> => Position(v, steps[1]) \in 1 .. Len(Flat(v))
  BY <1>1, Placed
<1> QED BY <1>2, <1>3, <1>4, <1>5 DEF Never

\* An input with a deadline can be answered from it on, and not before.
LEMMA InputsDue ==
  ASSUME NEW v \in KnownVersions, NEW step \in StepSet(v), NEW input
  PROVE  /\ InputDue(v, input) \in 0 .. Len(Flat(v))
         /\ InputDue(v, input) # Never =>
              (Position(v, step) >= InputDue(v, input) <=> Answerable(v, input, step))
<1>1. Flat(v) \in Seq(StepNames)
  BY FlatInOrder
<1>2. CASE input[1] = "repo"
  <2>1. InputDue(v, input) = FirstStepOfState(v, "build") \/ InputDue(v, input) = Never
    BY <1>2 DEF InputDue
  <2>2. InputDue(v, input) \in 0 .. Len(Flat(v))
    BY <1>1, <2>1, BuildStarts DEF Never
  <2>3. Answerable(v, input, step) <=> Position(v, step) >= FirstStepOfState(v, "build")
    BY <1>2 DEF Answerable
  <2> QED BY <2>1, <2>2, <2>3
<1>3. CASE input[1] # "repo"
  <2> DEFINE slug == input[1]
             e == EarliestStepForSlug(v, slug)
  <2>1. InputDue(v, input) = e
    BY <1>3 DEF InputDue
  <2>2. e \in 0 .. Len(Flat(v))
    <3>1. PlacesOf(v, slug) \subseteq 0 .. Len(Flat(v))
      BY <1>1 DEF PlacesOf
    <3> QED BY <1>1, <3>1, EarliestIs DEF Never
  <2>3. Answerable(v, input, step) <=> ResolveArtifact(v, slug, Written(v, step)) # NoDocument
    BY <1>3 DEF Answerable
  <2>4. ResolveArtifact(v, slug, Written(v, step)) # NoDocument
          <=> Written(v, step) \cap Named(slug) # {}
    <3> DEFINE docs == Written(v, step)
    <3>1. \A s \in docs : HasDocument(v, s)
      BY WrittenIs
    <3>2. Matched(slug, docs) # {} => ResolveArtifact(v, slug, docs) # NoDocument
      <4> SUFFICES ASSUME Matched(slug, docs) # {}
                   PROVE  ResolveArtifact(v, slug, docs) # NoDocument
        OBVIOUS
      <4>1. PICK s \in Hits(slug, docs) : ResolveArtifact(v, slug, docs) = ArtifactPath(v, s)
        <5> HIDE DEF docs
        <5> QED BY <3>1, ResolvesSome
      <4>2. s \in docs
        BY DEF Hits
      <4> QED BY <3>1, <4>1, <4>2 DEF HasDocument
    <3> HIDE DEF docs
    <3>3. /\ Matched(slug, docs) # {} <=> docs \cap Named(slug) # {}
          /\ Matched(slug, docs) = {} => ResolveArtifact(v, slug, docs) = NoDocument
      BY <3>1, ResolvesSome
    <3> QED BY <3>2, <3>3 DEF docs
  <2> QED BY <2>1, <2>2, <2>3, <2>4, WrittenFromTheDeadline
<1> QED BY <1>2, <1>3

\* A rule has a deadline when it has inputs and each of them has one.
HasDeadline(v, rule) ==
  rule.requires # {} /\ \A i \in rule.requires : InputDue(v, i) # Never

\* The deadline of a rule is the latest of its inputs'.
LEMMA DueStepIs ==
  ASSUME NEW v \in KnownVersions, NEW rule
  PROVE  /\ DueStep(v, rule) # Never <=> HasDeadline(v, rule)
         /\ DueStep(v, rule) # Never =>
              /\ DueStep(v, rule) \in Nat
              /\ \E i \in rule.requires : DueStep(v, rule) = InputDue(v, i)
              /\ \A i \in rule.requires : /\ InputDue(v, i) \in Nat /\ InputDue(v, i) # Never
                                          /\ InputDue(v, i) <= DueStep(v, rule)
<1> DEFINE n == Len(Flat(v))
           due == {InputDue(v, i) : i \in rule.requires}
           late == {n - d : d \in due}
<1>1. n \in Nat
  <2>1. Flat(v) \in Seq(StepNames)
    BY FlatInOrder
  <2> QED BY <2>1
<1>2. DueStep(v, rule) = IF due = {} \/ Never \in due THEN Never
                         ELSE CHOOSE i \in due : \A j \in due : j <= i
  BY DEF DueStep
<1>3. HasDeadline(v, rule) <=> due # {} /\ Never \notin due
  BY DEF HasDeadline
<1>4. due \subseteq 0 .. n
  <2>1. PICK step : step \in StepSet(v)
    BY StepSets DEF StepNames, FirstSteps, LateSteps
  <2> QED BY <2>1, InputsDue
<1> SUFFICES ASSUME due # {}, Never \notin due
             PROVE  /\ DueStep(v, rule) # Never /\ DueStep(v, rule) \in Nat
                    /\ \E i \in rule.requires : DueStep(v, rule) = InputDue(v, i)
                    /\ \A i \in rule.requires :
                         /\ InputDue(v, i) \in Nat /\ InputDue(v, i) # Never
                         /\ InputDue(v, i) <= DueStep(v, rule)
  <2> HIDE DEF due
  <2> QED BY <1>2, <1>3
<1> HIDE DEF n
<1>5. \E i \in due : \A j \in due : j <= i
  <2> HIDE DEF due
  <2>1. late \in SUBSET Nat /\ late # {}
    <3>1. \A d \in 0 .. n : n - d \in Nat
      BY <1>1
    <3>2. \A d \in due : n - d \in Nat
      BY <1>4, <3>1
    <3> QED BY <3>2
  <2>2. PICK m \in late : \A k \in late : m <= k
    <3> HIDE DEF late
    <3> QED BY <2>1, LeastNatural
  <2>3. PICK i \in due : m = n - i
    OBVIOUS
  <2>4. ASSUME NEW j \in due PROVE j <= i
    <3>1. n - i <= n - j
      BY <2>2, <2>3
    <3> QED BY <1>1, <1>4, <3>1
  <2> QED BY <2>4
<1>6. DueStep(v, rule) \in due /\ \A j \in due : j <= DueStep(v, rule)
  <2> HIDE DEF due
  <2> QED BY <1>2, <1>5
<1>7. \A d \in due : d \in Nat /\ d # Never
  BY <1>1, <1>4
<1>8. \A i \in rule.requires : InputDue(v, i) \in due
  OBVIOUS
<1>9. \E i \in rule.requires : DueStep(v, rule) = InputDue(v, i)
  BY <1>6
<1> HIDE DEF due
<1> QED BY <1>6, <1>7, <1>8, <1>9

\* What the gate promises of one rule with a deadline, whatever it asks for.
OnTime(v, rule, step) ==
  /\ ~NotDue(v, rule, step) <=> \A i \in rule.requires : Answerable(v, i, step)
  /\ ~NotDue(v, rule, step) =>
       \A s \in Slugs(rule) :
         ResolveArtifact(v, s, Written(v, step)) =
           ArtifactPath(v, Flat(v)[EarliestStepForSlug(v, s)])

\* Every rule that has a deadline is on time.
LEMMA EveryRuleOnTime ==
  ASSUME NEW v \in KnownVersions, PreciseActivation(v), NEW step \in StepSet(v),
         NEW rule, rule.severity = "block", DueStep(v, rule) # Never
  PROVE  OnTime(v, rule, step)
<1> DEFINE d == DueStep(v, rule)
           q == Position(v, step)
<1>1. NotDue(v, rule, step) <=> q < d
  BY DEF NotDue, EnforcedFrom
<1>2. d \in Nat /\ q \in Nat
  <2>1. Flat(v) \in Seq(StepNames)
    BY FlatInOrder
  <2> QED BY <2>1, DueStepIs, Placed
<1>3. ASSUME NEW i \in rule.requires
      PROVE  /\ InputDue(v, i) \in Nat /\ InputDue(v, i) # Never /\ InputDue(v, i) <= d
             /\ q >= InputDue(v, i) <=> Answerable(v, i, step)
  BY DueStepIs, InputsDue
<1>4. PICK last \in rule.requires : d = InputDue(v, last)
  BY DueStepIs
<1> HIDE DEF d, q
<1>5. q >= d <=> \A i \in rule.requires : Answerable(v, i, step)
  <2>1. ASSUME q >= d, NEW i \in rule.requires PROVE Answerable(v, i, step)
    BY <1>2, <1>3, <2>1
  <2>2. ASSUME \A i \in rule.requires : Answerable(v, i, step) PROVE q >= d
    BY <1>3, <1>4, <2>2
  <2> QED BY <2>1, <2>2
<1>6. ~NotDue(v, rule, step) <=> q >= d
  BY <1>1, <1>2
<1>7. ASSUME q >= d, NEW s \in Slugs(rule)
      PROVE  ResolveArtifact(v, s, Written(v, step)) =
               ArtifactPath(v, Flat(v)[EarliestStepForSlug(v, s)])
  <2>1. PICK i \in rule.requires : i[1] = s /\ i[1] # "repo"
    BY DEF Slugs
  <2>2. InputDue(v, i) = EarliestStepForSlug(v, s)
    BY <2>1 DEF InputDue
  <2>3. EarliestStepForSlug(v, s) # Never /\ q >= EarliestStepForSlug(v, s)
    BY <1>2, <1>3, <1>7, <2>2
  <2> QED BY <2>3, ResolvesToTheEarliest DEF q
<1> QED BY <1>5, <1>6, <1>7 DEF OnTime

---------------------------------------------------------------------------
(* The rulebook                                                            *)

\* The fields of the rules by the forms they are written in.
LEMMA RuleFields ==
  ASSUME NEW id, NEW tiers, NEW requires, NEW check
  PROVE  LET r == Rule(id, tiers, requires, check)
         IN  /\ r.id = id /\ r.tiers = tiers /\ r.severity = "block"
             /\ r.requires = requires /\ r.check = check
BY DEF Rule

LEMMA WarnFields ==
  ASSUME NEW id, NEW tiers, NEW requires, NEW check
  PROVE  LET r == WarnRule(id, tiers, requires, check)
         IN  /\ r.id = id /\ r.severity = "warn" /\ r.requires = requires /\ r.check = check
BY DEF WarnRule, Rule

LEMMA AsksFields ==
  ASSUME NEW id, NEW tiers, NEW from, NEW field, NEW predicate
  PROVE  LET r == Asks(id, tiers, from, field, predicate)
         IN  /\ r.id = id /\ r.tiers = tiers /\ r.severity = "block"
             /\ r.requires = {<<from, field>>} /\ r.check = {<<field, predicate>>}
BY DEF Asks, Rule

LEMMA AdvisesFields ==
  ASSUME NEW id, NEW tiers, NEW from, NEW field, NEW predicate
  PROVE  LET r == Advises(id, tiers, from, field, predicate)
         IN  /\ r.id = id /\ r.severity = "warn"
             /\ r.requires = {<<from, field>>} /\ r.check = {<<field, predicate>>}
BY DEF Advises, Asks, Rule

\* An input the engine can look for, and one it can look for early.
Known(i) == IF i[1] = "repo" THEN i[2] \in RepoFacts ELSE i[1] \in DOMAIN Wired \cup Unwired
Soon(i) == \/ i[1] = "repo" /\ i[2] \in RepoFacts
           \/ i[1] \in {"brief", "scope", "prd", "mvp_plan", "acceptance"}

\* A rule asks for known inputs, checks what it asks for, or a field the engine
\* derives or finds in the README, and at the solo tier has a deadline.
WellWritten(r) ==
  /\ \A i \in r.requires : Known(i)
  /\ \A c \in r.check : \/ c[1] \in DerivedFields
                        \/ \E i \in r.requires : i[2] = c[1]
                        \/ OnlyRepo(r)
  /\ r.severity = "block" /\ "solo" \in r.tiers =>
       r.requires # {} /\ \A i \in r.requires : Soon(i)

LEMMA TiersDiffer == "solo" \notin Medium /\ "solo" \notin Large
BY DEF Medium, Large

\* A rule about one input.
LEMMA AsksWellWritten ==
  ASSUME NEW id, NEW tiers, NEW from, NEW field, NEW predicate,
         Known(<<from, field>>), "solo" \in tiers => Soon(<<from, field>>)
  PROVE  WellWritten(Asks(id, tiers, from, field, predicate))
<1> DEFINE r == Asks(id, tiers, from, field, predicate)
<1>1. /\ r.requires = {<<from, field>>} /\ r.check = {<<field, predicate>>} /\ r.tiers = tiers
  BY AsksFields
<1> HIDE DEF r
<1>2. WellWritten(r)
  BY <1>1 DEF WellWritten
<1> QED BY <1>2 DEF r

LEMMA AdvisesWellWritten ==
  ASSUME NEW id, NEW tiers, NEW from, NEW field, NEW predicate, Known(<<from, field>>)
  PROVE  WellWritten(Advises(id, tiers, from, field, predicate))
<1> DEFINE r == Advises(id, tiers, from, field, predicate)
<1>1. /\ r.requires = {<<from, field>>} /\ r.check = {<<field, predicate>>}
      /\ r.severity = "warn"
  BY AdvisesFields
<1> HIDE DEF r
<1>2. WellWritten(r)
  BY <1>1 DEF WellWritten
<1> QED BY <1>2 DEF r

\* A rule about two inputs that checks both.
LEMMA PairWellWritten ==
  ASSUME NEW id, NEW tiers, NEW s, NEW f, NEW t, NEW g, NEW p, NEW q,
         Known(<<s, f>>), Known(<<t, g>>),
         "solo" \in tiers => Soon(<<s, f>>) /\ Soon(<<t, g>>)
  PROVE  WellWritten(Rule(id, tiers, {<<s, f>>, <<t, g>>}, {<<f, p>>, <<g, q>>}))
<1> DEFINE r == Rule(id, tiers, {<<s, f>>, <<t, g>>}, {<<f, p>>, <<g, q>>})
<1>1. /\ r.requires = {<<s, f>>, <<t, g>>} /\ r.check = {<<f, p>>, <<g, q>>}
      /\ r.tiers = tiers
  BY RuleFields
<1> HIDE DEF r
<1>2. WellWritten(r)
  BY <1>1 DEF WellWritten
<1> QED BY <1>2 DEF r

\* The tiers above solo; the slugs of documents, and those of the documents
\* that every version has early.
TeamTiers == {Medium, Large}
Sourced == DOMAIN Wired \cup Unwired
EarlySources == {"brief", "scope", "prd", "mvp_plan", "acceptance"}

\* Where the rules of the book look.
LEMMA SourcesKnown ==
  /\ "brief" \in Sourced /\ "scope" \in Sourced /\ "prd" \in Sourced /\ "ia" \in Sourced
  /\ "acceptance" \in Sourced /\ "data_model" \in Sourced /\ "api" \in Sourced
  /\ "test_strategy" \in Sourced /\ "mvp_plan" \in Sourced /\ "real_data_wiring" \in Sourced
  /\ "reproducibility" \in Sourced /\ "config_env" \in Sourced /\ "rollback" \in Sourced
  /\ "validation" \in Sourced /\ "debug" \in Sourced /\ "release_notes" \in Sourced
  /\ "dev_log" \in Sourced /\ "observability" \in Sourced /\ "audit_trail" \in Sourced
  /\ "ai_governance" \in Sourced /\ "decision_log" \in Sourced
  /\ Medium \in TeamTiers /\ Large \in TeamTiers
<1>1. DOMAIN Wired = {"brief", "scope", "prd", "acceptance", "ia", "tech_arch", "data_model",
                      "api", "test_strategy", "logic_backbone", "mvp_plan",
                      "real_data_wiring", "reproducibility", "evolution"}
  BY DEF Wired
<1> QED BY <1>1 DEF Sourced, Unwired, TeamTiers

LEMMA InputsKnown ==
  /\ \A s \in Sourced : \A f : Known(<<s, f>>)
  /\ \A f \in RepoFacts : Known(<<"repo", f>>) /\ Soon(<<"repo", f>>)
  /\ \A s \in EarlySources : \A f : Known(<<s, f>>) /\ Soon(<<s, f>>)
<1>1. "repo" \notin Sourced /\ EarlySources \subseteq Sourced
  <2>1. "repo" \notin DOMAIN Wired
    BY DEF Wired
  <2> QED BY <2>1, SourcesKnown DEF Sourced, Unwired, EarlySources
<1>2. \A s \in Sourced : \A f : Known(<<s, f>>)
  BY <1>1 DEF Known, Sourced
<1>3. \A f \in RepoFacts : Known(<<"repo", f>>) /\ Soon(<<"repo", f>>)
  BY DEF Known, Soon
<1>4. \A s \in EarlySources : \A f : Soon(<<s, f>>)
  BY DEF Soon, EarlySources
<1> QED BY <1>1, <1>2, <1>3, <1>4

\* The rules about one input, of the repository, of the early documents at any
\* tier, of any document above solo.
LEMMA RulesOfOne ==
  /\ \A id, f, p : \A t \in TeamTiers, s \in Sourced :
       WellWritten(Asks(id, t, s, f, p)) /\ WellWritten(Advises(id, t, s, f, p))
  /\ \A id, t, p : \A f \in RepoFacts : WellWritten(Asks(id, t, "repo", f, p))
  /\ \A id, t, f, p : \A s \in EarlySources : WellWritten(Asks(id, t, s, f, p))
<1>1. \A t \in TeamTiers : "solo" \notin t
  BY TiersDiffer DEF TeamTiers
<1>2. ASSUME NEW id, NEW f, NEW p, NEW t \in TeamTiers, NEW s \in Sourced
      PROVE  WellWritten(Asks(id, t, s, f, p)) /\ WellWritten(Advises(id, t, s, f, p))
  <2>1. Known(<<s, f>>) /\ "solo" \notin t
    BY <1>1, InputsKnown
  <2> QED BY <2>1, AsksWellWritten, AdvisesWellWritten
<1>3. ASSUME NEW id, NEW t, NEW p, NEW f \in RepoFacts
      PROVE  WellWritten(Asks(id, t, "repo", f, p))
  BY InputsKnown, AsksWellWritten
<1>4. ASSUME NEW id, NEW t, NEW f, NEW p, NEW s \in EarlySources
      PROVE  WellWritten(Asks(id, t, s, f, p))
  BY InputsKnown, AsksWellWritten
<1> QED BY <1>2, <1>3, <1>4

LEMMA ProbedFacts ==
  /\ "git_initialized" \in RepoFacts /\ "dependency_lockfile" \in RepoFacts
  /\ "ci_config" \in RepoFacts /\ "test_dir" \in RepoFacts /\ "license_file" \in RepoFacts
  /\ "readme" \in RepoFacts /\ "dev_scripts" \in RepoFacts /\ "build_passes" \in RepoFacts
  /\ "test_command_passes" \in RepoFacts
BY DEF RepoFacts, PathFacts, CommandFacts

\* A rule about any inputs.
LEMMA RuleWellWritten ==
  ASSUME NEW id, NEW tiers, NEW requires, NEW check, \A i \in requires : Known(i),
         "solo" \in tiers => requires # {} /\ \A i \in requires : Soon(i),
         \A c \in check : \/ c[1] \in DerivedFields
                          \/ \E i \in requires : i[2] = c[1]
                          \/ \A i \in requires : i[1] = "repo"
  PROVE  WellWritten(Rule(id, tiers, requires, check))
<1> DEFINE r == Rule(id, tiers, requires, check)
<1>1. r.requires = requires /\ r.check = check /\ r.tiers = tiers
  BY RuleFields
<1> HIDE DEF r
<1>2. (\A i \in requires : i[1] = "repo") => OnlyRepo(r)
  BY <1>1 DEF OnlyRepo, Slugs
<1>3. WellWritten(r)
  BY <1>1, <1>2 DEF WellWritten
<1> QED BY <1>3 DEF r

\* A rule that asks for one input and checks a field it does not name.
LEMMA OneWellWritten ==
  ASSUME NEW id, NEW tiers, NEW s, NEW f, NEW g, NEW p, Known(<<s, f>>),
         "solo" \in tiers => Soon(<<s, f>>), g \in DerivedFields \/ s = "repo"
  PROVE  WellWritten(Rule(id, tiers, {<<s, f>>}, {<<g, p>>}))
<1> DEFINE requires == {<<s, f>>}
           check == {<<g, p>>}
<1>1. /\ requires # {} /\ \A i \in requires : Known(i)
      /\ "solo" \in tiers => \A i \in requires : Soon(i)
      /\ \A c \in check : c[1] \in DerivedFields \/ \A i \in requires : i[1] = "repo"
  OBVIOUS
<1> HIDE DEF requires, check
<1>2. WellWritten(Rule(id, tiers, requires, check))
  BY <1>1, RuleWellWritten
<1> QED BY <1>2 DEF requires, check

LEMMA EarlyOnes ==
  /\ "brief" \in EarlySources /\ "scope" \in EarlySources /\ "prd" \in EarlySources
  /\ "mvp_plan" \in EarlySources /\ "acceptance" \in EarlySources
BY DEF EarlySources

\* Every rule of the book is well written, section by section.
LEMMA StrategyWellWritten == \A r \in StrategyRules : WellWritten(r)
<1>1. WellWritten(Rule("cio_cto", Small, {<<"brief", "problem_statement">>,
                      <<"scope", "stop_conditions">>}, {<<"problem_statement", NotEmpty>>,
                      <<"stop_conditions", Count>>}))
  BY SourcesKnown, ProbedFacts, EarlyOnes, InputsKnown, TiersDiffer, PairWellWritten
<1>2. WellWritten(WarnRule("pmo_proportionality", Small, {},
                      {<<"process_events_vs_tier_ceiling", WithinLimit>>}))
  <2> DEFINE check == {<<"process_events_vs_tier_ceiling", WithinLimit>>}
             r == WarnRule("pmo_proportionality", Small, {}, check)
  <2>1. r.requires = {} /\ r.check = check /\ r.severity = "warn"
    BY WarnFields
  <2>2. \A c \in check : c[1] \in DerivedFields
    BY DEF DerivedFields
  <2> HIDE DEF r, check
  <2>3. WellWritten(r)
    BY <2>1, <2>2 DEF WellWritten
  <2> QED BY <2>3 DEF r, check
<1>3. WellWritten(Rule("vendor_manager", Medium, {<<"repo", "dependency_lockfile">>,
                      <<"repo", "license_file">>}, {<<"dependency_lockfile", Exists>>,
                      <<"license_file", Exists>>}))
  BY SourcesKnown, ProbedFacts, EarlyOnes, InputsKnown, TiersDiffer, PairWellWritten
<1> QED BY <1>1, <1>2, <1>3, SourcesKnown, ProbedFacts, EarlyOnes, RulesOfOne
  DEF StrategyRules

LEMMA ArchitectureWellWritten == \A r \in ArchitectureRules : WellWritten(r)
<1>1. WellWritten(Rule("product_manager", Medium, {<<"scope", "in_scope">>,
                      <<"scope", "must_not_do">>}, {<<"in_scope", NotEmpty>>,
                      <<"must_not_do", NotEmpty>>}))
  BY SourcesKnown, ProbedFacts, EarlyOnes, InputsKnown, TiersDiffer, PairWellWritten
<1>2. WellWritten(Rule("system_architect", Medium, {<<"api", "tech_stack">>,
                      <<"api", "nfr">>}, {<<"tech_stack", NotEmpty>>, <<"nfr", Count>>}))
  BY SourcesKnown, ProbedFacts, EarlyOnes, InputsKnown, TiersDiffer, PairWellWritten
<1>3. WellWritten(Rule("data_architect", Large, {<<"data_model", "schema">>,
                      <<"data_model", "stable_ids">>}, {<<"schema", NotEmpty>>,
                      <<"stable_ids", NotEmpty>>}))
  BY SourcesKnown, ProbedFacts, EarlyOnes, InputsKnown, TiersDiffer, PairWellWritten
<1> QED BY <1>1, <1>2, <1>3, SourcesKnown, ProbedFacts, EarlyOnes, RulesOfOne
  DEF ArchitectureRules

LEMMA DeliveryWellWritten == \A r \in DeliveryRules : WellWritten(r)
<1>1. WellWritten(Rule("developer", Small, {<<"repo", "git_initialized">>,
                      <<"repo", "build_passes">>}, {<<"git_initialized", True>>,
                      <<"build_passes", True>>}))
  BY SourcesKnown, ProbedFacts, EarlyOnes, InputsKnown, TiersDiffer, PairWellWritten
<1>2. WellWritten(Rule("it_pm", Small, {<<"mvp_plan", "phases">>, <<"mvp_plan", "risks">>},
                      {<<"phases", Count>>, <<"risks", Count>>}))
  BY SourcesKnown, ProbedFacts, EarlyOnes, InputsKnown, TiersDiffer, PairWellWritten
<1>3. WellWritten(Rule("qa_engineer", Small, {<<"repo", "test_dir">>,
                      <<"repo", "test_command_passes">>, <<"acceptance", "scenarios">>},
                      {<<"test_dir", Exists>>, <<"test_command_passes", True>>,
                      <<"each_acceptance_scenario_has_test_ref", True>>}))
  <2> DEFINE requires == {<<"repo", "test_dir">>, <<"repo", "test_command_passes">>,
                         <<"acceptance", "scenarios">>}
             check == {<<"test_dir", Exists>>, <<"test_command_passes", True>>,
                      <<"each_acceptance_scenario_has_test_ref", True>>}
  <2>1. /\ requires # {} /\ \A i \in requires : Known(i)
        /\ "solo" \in Small => \A i \in requires : Soon(i)
    BY SourcesKnown, ProbedFacts, EarlyOnes, InputsKnown, TiersDiffer
  <2>2. \A c \in check : c[1] \in DerivedFields \/ \E i \in requires : i[2] = c[1]
    BY DEF DerivedFields
  <2> HIDE DEF requires, check
  <2>3. WellWritten(Rule("qa_engineer", Small, requires, check))
    BY <2>1, <2>2, RuleWellWritten
  <2> QED BY <2>3 DEF requires, check
<1>4. WellWritten(Rule("backend_engineer", Medium, {<<"acceptance", "scenarios">>},
                      {<<"each_scenario_has_impl_or_test_ref", True>>}))
  BY SourcesKnown, ProbedFacts, EarlyOnes, InputsKnown, TiersDiffer, OneWellWritten
    DEF DerivedFields
<1> QED BY <1>1, <1>2, <1>3, <1>4, SourcesKnown, ProbedFacts, EarlyOnes, RulesOfOne
  DEF DeliveryRules

LEMMA ReleaseWellWritten == \A r \in ReleaseRules : WellWritten(r)
<1>1. WellWritten(Rule("release_manager", Medium, {<<"release_notes", "version">>,
                      <<"release_notes", "release_notes">>}, {<<"version", NotEmpty>>,
                      <<"release_notes", NotEmpty>>}))
  BY SourcesKnown, ProbedFacts, EarlyOnes, InputsKnown, TiersDiffer, PairWellWritten
<1>2. WellWritten(Rule("test_automation_engineer", Large, {<<"repo", "ci_config">>,
                      <<"repo", "test_dir">>}, {<<"ci_runs_tests", True>>}))
  <2> DEFINE requires == {<<"repo", "ci_config">>, <<"repo", "test_dir">>}
             check == {<<"ci_runs_tests", True>>}
  <2>1. /\ requires # {} /\ \A i \in requires : Known(i)
        /\ "solo" \in Large => \A i \in requires : Soon(i)
    BY SourcesKnown, ProbedFacts, EarlyOnes, InputsKnown, TiersDiffer
  <2>2. \A c \in check : c[1] \in DerivedFields \/ \E i \in requires : i[2] = c[1]
    BY DEF DerivedFields
  <2> HIDE DEF requires, check
  <2>3. WellWritten(Rule("test_automation_engineer", Large, requires, check))
    BY <2>1, <2>2, RuleWellWritten
  <2> QED BY <2>3 DEF requires, check
<1> QED BY <1>1, <1>2, SourcesKnown, ProbedFacts, EarlyOnes, RulesOfOne
  DEF ReleaseRules

LEMMA ServiceWellWritten == \A r \in ServiceRules : WellWritten(r)
<1>1. WellWritten(Rule("service_desk_analyst", Small, {<<"repo", "readme">>},
                      {<<"support_channel", NotEmpty>>}))
  BY SourcesKnown, ProbedFacts, EarlyOnes, InputsKnown, TiersDiffer, OneWellWritten
    DEF DerivedFields
<1>2. WellWritten(Rule("change_manager", Medium, {<<"audit_trail", "events">>},
                      {<<"gated_advance", True>>}))
  BY SourcesKnown, ProbedFacts, EarlyOnes, InputsKnown, TiersDiffer, OneWellWritten
    DEF DerivedFields
<1> QED BY <1>1, <1>2, SourcesKnown, ProbedFacts, EarlyOnes, RulesOfOne
  DEF ServiceRules

LEMMA ContinuityWellWritten == \A r \in ContinuityRules : WellWritten(r)
<1>1. WellWritten(Rule("training_specialist", Medium, {<<"repo", "readme">>},
                      {<<"quickstart", NotEmpty>>}))
  BY SourcesKnown, ProbedFacts, EarlyOnes, InputsKnown, TiersDiffer, OneWellWritten
    DEF DerivedFields
<1>2. WellWritten(Rule("knowledge_manager", Large,
                      {<<"decision_log", "decision_log_entries">>,
                      <<"dev_log", "dev_log_entries">>}, {<<"decision_log_entries", Count>>,
                      <<"dev_log_entries", Count>>}))
  BY SourcesKnown, ProbedFacts, EarlyOnes, InputsKnown, TiersDiffer, PairWellWritten
<1> QED BY <1>1, <1>2, SourcesKnown, ProbedFacts, EarlyOnes, RulesOfOne
  DEF ContinuityRules

\* The ids of the rules, section by section.
StrategyIds ==
  {"cio_cto", "ciso", "brm", "enterprise_architect", "pmo_director", "pmo_proportionality",
   "quality_manager", "vendor_manager", "compliance_manager", "it_auditor",
   "it_finance_analyst"}

ArchitectureIds ==
  {"ba", "product_manager", "solution_architect", "system_architect", "ux_ui_designer",
   "data_architect", "integration_architect", "security_architect"}

DeliveryIds ==
  {"developer", "devops_engineer", "it_pm", "qa_engineer", "backend_engineer", "data_engineer",
   "dba", "frontend_engineer"}

ReleaseIds ==
  {"release_manager", "scrum_master", "config_manager", "mobile_engineer",
   "performance_engineer", "platform_engineer", "test_automation_engineer"}

ServiceIds ==
  {"service_desk_analyst", "change_manager", "cloud_engineer", "config_asset_manager",
   "end_user_computing", "incident_manager", "infra_manager", "network_engineer",
   "service_delivery_manager", "sre"}

ContinuityIds ==
  {"sys_admin", "training_specialist", "bcm_manager", "capacity_planner", "dr_manager",
   "iam_admin", "knowledge_manager", "middleware_engineer", "problem_manager",
   "service_level_manager", "soc_manager"}

\* The rules of a section have the ids of it, each its own.
IdsOf(section, ids) ==
  /\ \A r \in section : r.id \in ids
  /\ \A r, q \in section : r.id = q.id => r = q

LEMMA SectionIds ==
  /\ IdsOf(StrategyRules, StrategyIds)
  /\ IdsOf(ArchitectureRules, ArchitectureIds)
  /\ IdsOf(DeliveryRules, DeliveryIds)
  /\ IdsOf(ReleaseRules, ReleaseIds)
  /\ IdsOf(ServiceRules, ServiceIds)
  /\ IdsOf(ContinuityRules, ContinuityIds)
<1>1. /\ \A id, t, q, c : Rule(id, t, q, c).id = id
      /\ \A id, t, q, c : WarnRule(id, t, q, c).id = id
      /\ \A id, t, s, f, p : Asks(id, t, s, f, p).id = id
      /\ \A id, t, s, f, p : Advises(id, t, s, f, p).id = id
  BY RuleFields, WarnFields, AsksFields, AdvisesFields
<1>2. IdsOf(StrategyRules, StrategyIds)
  BY <1>1 DEF IdsOf, StrategyRules, StrategyIds
<1>3. IdsOf(ArchitectureRules, ArchitectureIds)
  BY <1>1 DEF IdsOf, ArchitectureRules, ArchitectureIds
<1>4. IdsOf(DeliveryRules, DeliveryIds)
  BY <1>1 DEF IdsOf, DeliveryRules, DeliveryIds
<1>5. IdsOf(ReleaseRules, ReleaseIds)
  BY <1>1 DEF IdsOf, ReleaseRules, ReleaseIds
<1>6. IdsOf(ServiceRules, ServiceIds)
  BY <1>1 DEF IdsOf, ServiceRules, ServiceIds
<1>7. IdsOf(ContinuityRules, ContinuityIds)
  BY <1>1 DEF IdsOf, ContinuityRules, ContinuityIds
<1> QED BY <1>2, <1>3, <1>4, <1>5, <1>6, <1>7

\* No two rules of the book share an id.
LEMMA NoRuleTwice == \A r, q \in Rulebook : r.id = q.id => r = q
<1>1. /\ StrategyIds \cap ArchitectureIds = {}
      /\ StrategyIds \cap DeliveryIds = {}
      /\ StrategyIds \cap ReleaseIds = {}
      /\ StrategyIds \cap ServiceIds = {}
      /\ StrategyIds \cap ContinuityIds = {}
      /\ ArchitectureIds \cap DeliveryIds = {}
      /\ ArchitectureIds \cap ReleaseIds = {}
      /\ ArchitectureIds \cap ServiceIds = {}
      /\ ArchitectureIds \cap ContinuityIds = {}
      /\ DeliveryIds \cap ReleaseIds = {}
      /\ DeliveryIds \cap ServiceIds = {}
      /\ DeliveryIds \cap ContinuityIds = {}
      /\ ReleaseIds \cap ServiceIds = {}
      /\ ReleaseIds \cap ContinuityIds = {}
      /\ ServiceIds \cap ContinuityIds = {}
  BY DEF StrategyIds, ArchitectureIds, DeliveryIds, ReleaseIds, ServiceIds, ContinuityIds
<1> QED BY <1>1, SectionIds DEF IdsOf, Rulebook

LEMMA EveryRuleWellWritten == \A r \in Rulebook : WellWritten(r)
BY StrategyWellWritten, ArchitectureWellWritten, DeliveryWellWritten, ReleaseWellWritten,
   ServiceWellWritten, ContinuityWellWritten DEF Rulebook

\* The linter finds nothing to say about a well written rule.
LEMMA NothingToLint ==
  ASSUME NEW rule \in Rulebook
  PROVE  LintFindings(rule) = {}
<1>1. WellWritten(rule)
  BY EveryRuleWellWritten
<1>2. Facts(rule) \ RepoFacts = {}
  BY <1>1 DEF WellWritten, Known, Facts
<1>3. Slugs(rule) \ (DOMAIN Wired \cup Unwired) = {}
  BY <1>1 DEF WellWritten, Known, Slugs
<1>4. {c \in rule.check : /\ c[1] \notin DerivedFields
                          /\ c[1] \notin {i[2] : i \in rule.requires}
                          /\ ~OnlyRepo(rule)} = {}
  BY <1>1 DEF WellWritten
<1>5. {r \in Rulebook : r.id = rule.id /\ r # rule} = {}
  BY NoRuleTwice
<1> QED BY <1>2, <1>3, <1>4, <1>5 DEF LintFindings

\* Inputs of the early documents and of the repository have a deadline.
LEMMA SoonHasDeadline ==
  ASSUME NEW v \in KnownVersions, v # Version(1), NEW input, Soon(input)
  PROVE  InputDue(v, input) # Never
<1>1. CASE input[1] = "repo" /\ input[2] \in RepoFacts
  BY <1>1, BuildStarts DEF InputDue
<1>2. CASE input[1] \in {"brief", "scope", "prd", "mvp_plan", "acceptance"}
  <2> DEFINE slug == input[1]
  <2>1. \E x \in Named(slug) : x \in FirstSteps /\ x \notin {"release"}
    <3>1. /\ Wired["brief"] = <<{"project_brief"}>> /\ Wired["scope"] = <<{"scope"}>>
          /\ Wired["prd"] = <<{"prd"}>> /\ Wired["mvp_plan"] = <<{"mvp_plan"}>>
          /\ Wired["acceptance"] = <<{"acceptance_criteria", "acceptance_mapping"}>>
          /\ {"brief", "scope", "prd", "mvp_plan", "acceptance"} \subseteq DOMAIN Wired
      BY DEF Wired
    <3>2. Globs(slug) = Wired[slug]
      BY <1>2, <3>1 DEF Globs
    <3>3. \E S : Wired[slug] = <<S>> /\ \E x \in S : x \in FirstSteps /\ x # "release"
      BY <1>2, <3>1 DEF FirstSteps
    <3>4. PICK S : Globs(slug) = <<S>> /\ \E x \in S : x \in FirstSteps /\ x # "release"
      BY <3>2, <3>3
    <3>5. S \subseteq Named(slug)
      <4>1. 1 \in DOMAIN Globs(slug) /\ Globs(slug)[1] = S
        BY <3>4
      <4> QED BY <4>1 DEF Named, ToSet
    <3> QED BY <3>4, <3>5
  <2>2. PICK x \in Named(slug) : x \in FirstSteps /\ x # "release"
    BY <2>1
  <2>3. x \in StepSet(v)
    <3>1. FirstSteps \subseteq StepNames \ ({"logic_backbone"} \cup LateSteps)
      BY DEF FirstSteps, StepNames, LateSteps
    <3> QED BY <2>2, <3>1, StepSets
  <2>4. HasDocument(v, x)
    BY <2>2, <2>3 DEF HasDocument, ArtifactPath, NoDocument
  <2>5. Position(v, x) \in PlacesOf(v, slug)
    <3>1. Flat(v) \in Seq(StepNames)
      BY FlatInOrder
    <3>2. Position(v, x) \in 1 .. Len(Flat(v)) /\ Flat(v)[Position(v, x)] = x
      BY <2>3, Placed
    <3> QED BY <2>2, <2>4, <3>1, <3>2 DEF PlacesOf
  <2>6. EarliestStepForSlug(v, slug) # Never
    BY <2>5, EarliestIs DEF Never
  <2>7. slug # "repo"
    BY <1>2
  <2> QED BY <2>6, <2>7 DEF InputDue
<1> QED BY <1>1, <1>2 DEF Soon

LEMMA EveryRuleDueWithItsInputs ==
  ASSUME NEW v \in KnownVersions, NEW step \in StepSet(v), NEW tier
  PROVE  DueWithItsInputs(v, step, tier)
<1> SUFFICES ASSUME PreciseActivation(v),
                    NEW rule \in Rulebook, rule.severity = "block", tier \in rule.tiers
             PROVE  /\ tier = "solo" => DueStep(v, rule) # Never
                    /\ DueStep(v, rule) # Never => OnTime(v, rule, step)
                    /\ LintFindings(rule) = {}
  BY DEF DueWithItsInputs, OnTime
<1>1. tier = "solo" => DueStep(v, rule) # Never
  <2> SUFFICES ASSUME tier = "solo" PROVE DueStep(v, rule) # Never
    OBVIOUS
  <2>1. v # Version(1)
    BY DEF PreciseActivation, AtLeast, Version
  <2>2. rule.requires # {} /\ \A i \in rule.requires : Soon(i)
    BY EveryRuleWellWritten DEF WellWritten
  <2>3. HasDeadline(v, rule)
    BY <2>1, <2>2, SoonHasDeadline DEF HasDeadline
  <2> QED BY <2>3, DueStepIs
<1>2. DueStep(v, rule) # Never => OnTime(v, rule, step)
  BY EveryRuleOnTime
<1> QED BY <1>1, <1>2, NothingToLint

---------------------------------------------------------------------------
(* What is asked                                                           *)

AskedNodes == [id : 1 .. 3, role : Roles]
AskedEdges == [from : 1 .. 3, to : 0 .. 3, kind : DrivingKinds \cup {"explains"}]

\* What is asked is in the reach of the lemmas.
WellAsked ==
  /\ asked.about = "upgrade" =>
       asked.pin \in Pins /\ asked.at \in Locations(ResolveProfile(asked.pin))
  /\ asked.about = "due" => asked.version \in KnownVersions /\ asked.step \in StepSet(asked.version)
  /\ asked.about = "gate" => asked.at.step \in StepSet(asked.version)
  /\ asked.about = "prompt" => WellFormed(asked.situation.tasks)
  /\ asked.about = "wiring" =>
       asked.files \in Wirings /\ asked.force \in BOOLEAN /\ asked.done \in 0 .. 4
  /\ asked.about = "contract" => /\ asked.endpoints \in Seq(Endpoints({"endpoint"}))
                                 /\ asked.source \in Sources
                                 /\ asked.filling \in Seq(Seq(Literals))
  /\ asked.about = "logic" => asked.graph \in Graphs(AskedNodes, AskedEdges)

LEMMA AskedPinsAreKept == AskedPins \subseteq Pins
<1>1. KnownVersions \subseteq Nat \X Nat \X Nat
  BY DEF KnownVersions, Version
<1>2. /\ Version(6) \in Nat \X Nat \X Nat /\ AtLeast(Version(6), Version(3))
      /\ <<1, 0, 0>> \in Nat \X Nat \X Nat /\ AtLeast(<<1, 0, 0>>, Version(3))
  BY DEF AtLeast, Version
<1> QED BY <1>1, <1>2 DEF AskedPins, Pins

LEMMA AskedTasksFormed ==
  ASSUME NEW tasks \in AskedTasks
  PROVE  WellFormed(tasks)
<1>1. Tasks(1) \subseteq LedgerTasks /\ Tasks(2) \subseteq LedgerTasks
  BY DEF Tasks, LedgerTasks
<1>2. \A t \in Tasks(1), u \in Tasks(2) : t.id = 1 /\ u.id = 2
  BY DEF Tasks
<1>3. CASE tasks = <<>>
  BY <1>3 DEF WellFormed
<1>4. ASSUME NEW t \in Tasks(1), tasks = <<t>> PROVE WellFormed(tasks)
  BY <1>1, <1>4 DEF WellFormed
<1>5. ASSUME NEW t \in Tasks(1), NEW u \in Tasks(2), tasks = <<t, u>> PROVE WellFormed(tasks)
  <2>1. tasks \in Seq(LedgerTasks)
    BY <1>1, <1>5
  <2>2. DOMAIN tasks = {1, 2} /\ tasks[1] = t /\ tasks[2] = u
    BY <1>5
  <2>3. \A i, j \in DOMAIN tasks : tasks[i].id = tasks[j].id => i = j
    BY <1>2, <2>2
  <2> QED BY <2>1, <2>3 DEF WellFormed
<1> QED BY <1>3, <1>4, <1>5 DEF AskedTasks

LEMMA FunctionsAreSequences ==
  ASSUME NEW S, NEW R, R \subseteq S, NEW n \in Nat
  PROVE  [1 .. n -> R] \subseteq Seq(S)
OBVIOUS

LEMMA AskedWiringsTyped == AskedWirings \subseteq Wirings
<1>1. AskedSlots \subseteq Slots
  <2>1. \A f \in SlotForms : [form |-> f, groups |-> <<>>] \in Slots
    BY DEF Slots
  <2>2. {{"ocn"}, {"custom", "own"}, {"own"}} \subseteq Groups
    BY DEF Groups, Commands
  <2>3. \A n \in 1 .. 2 : [1 .. n -> {{"ocn"}, {"custom", "own"}, {"own"}}] \subseteq Seq(Groups)
    <3> DEFINE R == {{"ocn"}, {"custom", "own"}, {"own"}}
    <3>1. R \subseteq Groups
      BY <2>2
    <3> SUFFICES ASSUME NEW n \in 1 .. 2 PROVE [1 .. n -> R] \subseteq Seq(Groups)
      OBVIOUS
    <3>2. n \in Nat
      OBVIOUS
    <3> HIDE DEF R
    <3> QED BY <3>1, <3>2, FunctionsAreSequences
  <2>4. \A g \in Seq(Groups) : [form |-> "array", groups |-> g] \in Slots
    BY DEF Slots, SlotForms
  <2> QED BY <2>1, <2>3, <2>4 DEF AskedSlots
<1>2. AskedHooks \subseteq HooksParts
  <2>1. NoSlot \in Slots
    BY DEF NoSlot, Slots, SlotForms
  <2>2. \A f \in PartForms : [NoHooks EXCEPT !.form = f] \in HooksParts
    BY <2>1 DEF NoHooks, HooksParts
  <2>3. [form : {"object"}, slots : [Events -> AskedSlots], more : BOOLEAN] \subseteq HooksParts
    BY <1>1 DEF HooksParts, PartForms
  <2> QED BY <2>2, <2>3 DEF AskedHooks
<1>3. AskedEnvs \subseteq EnvParts
  BY DEF AskedEnvs, EnvParts, NoEnv, PartForms
<1>4. NoHooks \in HooksParts /\ NoEnv \in EnvParts
  BY NoSettingsFile DEF SettingsFiles, NoSettings
<1>5. [form : {"object"}, hooks : AskedHooks, env : AskedEnvs] \subseteq SettingsFiles
  BY <1>2, <1>3 DEF SettingsFiles, SettingsForms
<1>6. Bare \subseteq SettingsFiles
  <2>1. \A f \in SettingsForms : [NoSettings EXCEPT !.form = f]
                                   = [form |-> f, hooks |-> NoHooks, env |-> NoEnv]
    BY DEF NoSettings
  <2>2. \A f \in SettingsForms : [form |-> f, hooks |-> NoHooks, env |-> NoEnv] \in SettingsFiles
    BY <1>4 DEF SettingsFiles
  <2> SUFFICES ASSUME NEW f \in SettingsForms
               PROVE  [NoSettings EXCEPT !.form = f] \in SettingsFiles
    BY DEF Bare
  <2> QED BY <2>1, <2>2
<1>7. NoClaudeMd \in Markdowns
  BY DEF NoClaudeMd, Markdowns
<1>8. Texts \subseteq Markdowns
  <2>1. \A n \in 0 .. 3 : [1 .. n -> Lines \ {"title"}] \subseteq Seq(Lines)
    OBVIOUS
  <2> QED BY <2>1 DEF Texts, Markdowns
<1>9. ASSUME NEW S, NEW O, NEW C, NEW M, S \subseteq SettingsFiles, M \subseteq Markdowns,
             O \subseteq {"absent", "stale", "current"}, C \subseteq {"absent", "stale", "current"}
      PROVE  Unbacked(S, O, C, M) \subseteq Wirings
  BY <1>9, NoSettingsFile DEF Unbacked, Wirings
<1> QED BY <1>5, <1>6, <1>7, <1>8, <1>9 DEF AskedWirings

LEMMA AskedContractsTyped ==
  ASSUME NEW endpoint \in [id : {"endpoint"}, method : Methods, rooted : {TRUE},
                           path : AskedPaths(Literals \cup {Param})],
         NEW source \in AskedSources,
         NEW filling \in AskedFillings(source.path)
  PROVE  /\ <<endpoint>> \in Seq(Endpoints({"endpoint"}))
         /\ source \in Sources
         /\ filling \in Seq(Seq(Literals))
<1>1. ASSUME NEW S PROVE AskedPaths(S) \subseteq Seq(S)
  <2>1. \A n \in 1 .. 2 : [1 .. n -> S] \subseteq Seq(S)
    BY FunctionsAreSequences
  <2> QED BY <2>1 DEF AskedPaths
<1>2. endpoint \in Endpoints({"endpoint"})
  BY <1>1 DEF Endpoints
<1>3. source \in Sources
  BY <1>1 DEF AskedSources, Sources
<1>4. PICK n \in 1 .. 2 : DOMAIN source.path = 1 .. n
  BY DEF AskedSources, AskedPaths
<1>5. UNION {[1 .. k -> Literals] : k \in 0 .. 2} \subseteq Seq(Literals)
  <2>1. \A k \in 0 .. 2 : [1 .. k -> Literals] \subseteq Seq(Literals)
    BY FunctionsAreSequences
  <2> QED BY <2>1
<1>6. filling \in [1 .. n -> Seq(Literals)]
  BY <1>4, <1>5 DEF AskedFillings
<1> QED BY <1>2, <1>3, <1>6

LEMMA AskedGraphsTyped ==
  ASSUME NEW n \in 1 .. 3, NEW m \in 0 .. 3,
         NEW roles \in [1 .. n -> {"input", "trigger", "hint"}],
         NEW edges \in [1 .. m -> [from : 1 .. n, to : 0 .. n, kind : AskedKinds(m)]]
  PROVE  [nodes |-> [i \in 1 .. n |-> [id |-> i, role |-> roles[i]]], edges |-> edges]
           \in Graphs(AskedNodes, AskedEdges)
<1> DEFINE nodes == [i \in 1 .. n |-> [id |-> i, role |-> roles[i]]]
<1>1. n \in Nat /\ m \in Nat
  OBVIOUS
<1>2. \A i \in 1 .. n : [id |-> i, role |-> roles[i]] \in AskedNodes
  BY DEF AskedNodes, Roles
<1>3. nodes \in Seq(AskedNodes)
  BY <1>1, <1>2
<1>4. [from : 1 .. n, to : 0 .. n, kind : AskedKinds(m)] \subseteq AskedEdges
  BY DEF AskedKinds, AskedEdges, DrivingKinds
<1>5. edges \in Seq(AskedEdges)
  BY <1>1, <1>4
<1>6. [nodes |-> nodes, edges |-> edges] \in Graphs(AskedNodes, AskedEdges)
  <2> HIDE DEF nodes
  <2> QED BY <1>3, <1>5 DEF Graphs
<1> QED BY <1>6

LEMMA AlwaysWellAsked == Spec => []WellAsked
<1>1. Init => WellAsked
  BY DEF Init, WellAsked
<1>2. WellAsked /\ [Next]_asked => WellAsked'
  <2> SUFFICES ASSUME Next PROVE WellAsked'
    BY DEF WellAsked
  <2>1. CASE AskUpgrade
    BY <2>1, AskedPinsAreKept DEF AskUpgrade, WellAsked
  <2>2. CASE AskDue
    BY <2>2 DEF AskDue, WellAsked
  <2>3. CASE AskWiring
    BY <2>3, AskedWiringsTyped DEF AskWiring, WellAsked
  <2>4. CASE AskLogic
    <3>1. PICK n \in 1 .. 3, m \in 0 .. 3 :
          \E roles \in [1 .. n -> {"input", "trigger", "hint"}],
             edges \in [1 .. m -> [from : 1 .. n, to : 0 .. n, kind : AskedKinds(m)]] :
            asked' = [about |-> "logic",
                      graph |-> [nodes |-> [i \in 1 .. n |-> [id |-> i, role |-> roles[i]]],
                                 edges |-> edges]]
      BY <2>4 DEF AskLogic
    <3>2. PICK roles \in [1 .. n -> {"input", "trigger", "hint"}],
               edges \in [1 .. m -> [from : 1 .. n, to : 0 .. n, kind : AskedKinds(m)]] :
            asked' = [about |-> "logic",
                      graph |-> [nodes |-> [i \in 1 .. n |-> [id |-> i, role |-> roles[i]]],
                                 edges |-> edges]]
      BY <3>1
    <3> DEFINE graph == [nodes |-> [i \in 1 .. n |-> [id |-> i, role |-> roles[i]]],
                         edges |-> edges]
    <3>3. graph \in Graphs(AskedNodes, AskedEdges)
      BY AskedGraphsTyped, ZenonT(60)
    <3>4. asked' = [about |-> "logic", graph |-> graph]
      BY <3>2
    <3> HIDE DEF graph
    <3> QED BY <3>3, <3>4 DEF WellAsked
  <2>5. CASE AskContract
    <3>1. PICK endpoint \in [id : {"endpoint"}, method : Methods, rooted : {TRUE},
                             path : AskedPaths(Literals \cup {Param})],
               source \in AskedSources :
          \E filling \in AskedFillings(source.path) :
            asked' = [about |-> "contract", endpoints |-> <<endpoint>>,
                      source |-> source, filling |-> filling]
      BY <2>5 DEF AskContract
    <3>2. PICK filling \in AskedFillings(source.path) :
            asked' = [about |-> "contract", endpoints |-> <<endpoint>>,
                      source |-> source, filling |-> filling]
      BY <3>1
    <3> DEFINE es == <<endpoint>>
    <3>3. es \in Seq(Endpoints({"endpoint"})) /\ source \in Sources
          /\ filling \in Seq(Seq(Literals))
      BY AskedContractsTyped
    <3>4. asked' = [about |-> "contract", endpoints |-> es, source |-> source,
                    filling |-> filling]
      BY <3>2
    <3> HIDE DEF es
    <3> QED BY <3>3, <3>4 DEF WellAsked
  <2>6. CASE AskPrompt
    BY <2>6, AskedTasksFormed DEF AskPrompt, WellAsked
  <2>7. CASE AskGate
    BY <2>7 DEF AskGate, WellAsked, Locations
  <2>8. CASE AskRule
    BY <2>8, VerdictIsAStep DEF AskRule, WellAsked
  <2>9. CASE AskVerdict
    BY <2>9 DEF AskVerdict, WellAsked
  <2> QED BY <2>1, <2>2, <2>3, <2>4, <2>5, <2>6, <2>7, <2>8, <2>9 DEF Next
<1> QED BY <1>1, <1>2, PTL DEF Spec

---------------------------------------------------------------------------
(* Theorems                                                                *)

\* What `ocn gate check` passes `ocn advance` passes, and what that passes
\* `ocn check` passes: at every step of every version, whatever the documents,
\* the ledgers, the rules and the repository are.
THEOREM GatesAlwaysAgree ==
  /\ \A v, at, facts : at.step \in StepSet(v) => PassesAgree(v, at, facts)
  /\ Spec => []GatesAgree
<1>1. WellAsked => GatesAgree
  BY EveryPassAgrees DEF WellAsked, GatesAgree
<1>2. Spec => []GatesAgree
  BY <1>1, AlwaysWellAsked, PTL
<1> QED BY <1>2, EveryPassAgrees

\* A gate of `advance` that passes has written every projection its step's
\* document asks for, whatever else it had to pass.
THEOREM GatesAlwaysProject ==
  /\ \A v, at, facts : at.step \in StepSet(v) => PassedIsProjected(v, at, facts)
  /\ Spec => []GatesProject
<1>1. WellAsked => GatesProject
  BY EveryPassProjects DEF WellAsked, GatesProject
<1>2. Spec => []GatesProject
  BY <1>1, AlwaysWellAsked, PTL
<1> QED BY <1>2, EveryPassProjects

\* A verdict draft that says merge is backed by what was read, whatever the
\* working tree, the pull request, its checks and the criteria are: of the checks
\* it is those with a name that passed.
THEOREM MergesAreAlwaysBacked ==
  /\ \A w : MergeIsBacked(w)
  /\ Spec => []MergesAreBacked
<1>1. MergesAreBacked
  BY EveryMergeIsBacked DEF MergesAreBacked
<1>2. Spec => []MergesAreBacked
  BY <1>1, PTL
<1> QED BY <1>2, EveryMergeIsBacked

\* The prompt leads on: for every ledger in which no two tasks have one id,
\* of any length and with any dependencies, and any outcomes.
THEOREM PromptsAlwaysLeadOn ==
  /\ \A p : WellFormed(p.tasks) => PromptLeadsOn(p)
  /\ Spec => []PromptsLeadOn
<1>1. WellAsked => PromptsLeadOn
  BY EveryPromptLeadsOn DEF WellAsked, PromptsLeadOn
<1>2. Spec => []PromptsLeadOn
  BY <1>1, AlwaysWellAsked, PTL
<1> QED BY <1>2, EveryPromptLeadsOn

\* Setup and teardown come off every project, with groups of hooks and lines
\* of CLAUDE.md of any number, and wherever a run of either stopped.
THEOREM WiringsAlwaysComeOff ==
  /\ \A w \in Wirings, force \in BOOLEAN, n \in 0 .. 4 : WiringComesOff(w, force, n)
  /\ Spec => []WiringsComeOff
<1>1. WellAsked => WiringsComeOff
  BY EveryWiringComesOff DEF WellAsked, WiringsComeOff
<1>2. Spec => []WiringsComeOff
  BY <1>1, AlwaysWellAsked, PTL
<1> QED BY <1>2, EveryWiringComesOff

\* A call that fills the parameters of an endpoint it reaches does not block, for
\* contracts and paths of any length and any base path, where no options hide its
\* method and its text has the base path if its segments have it.
THEOREM DeclaredCallsAlwaysPass ==
  /\ \A S : \A endpoints \in Seq(Endpoints(S)), source \in Sources,
               filling \in Seq(Seq(Literals)) :
       DeclaredCallPasses(endpoints, source, filling)
  /\ Spec => []DeclaredCallsPass
<1>1. WellAsked => DeclaredCallsPass
  BY EveryDeclaredCallPasses DEF WellAsked, DeclaredCallsPass
<1>2. Spec => []DeclaredCallsPass
  BY <1>1, AlwaysWellAsked, PTL
<1> QED BY <1>2, EveryDeclaredCallPasses

\* A graph the gate lets through orders itself, whatever its nodes and edges,
\* and however many.
THEOREM GraphsAlwaysOrderThemselves ==
  /\ \A N, E : \A graph \in Graphs(N, E) : GraphOrdersItself(graph)
  /\ Spec => []GraphsOrderThemselves
<1>1. WellAsked => GraphsOrderThemselves
  BY EveryGraphOrdersItself DEF WellAsked, GraphsOrderThemselves
<1>2. Spec => []GraphsOrderThemselves
  BY <1>1, AlwaysWellAsked, PTL
<1> QED BY <1>2, EveryGraphOrdersItself

\* An upgrade that is let through keeps the project where it is, whatever it
\* is pinned to, one of the bundled versions or any from 0.3.0 on, whatever it
\* asks for, and wherever its cursor is.
THEOREM UpgradesAlwaysKeepThePlace ==
  /\ \A pin \in Pins : \A target : \A at \in Locations(ResolveProfile(pin)) :
       UpgradeKeepsThePlace(pin, target, at)
  /\ Spec => []UpgradesKeepThePlace
<1>1. WellAsked => UpgradesKeepThePlace
  BY EveryUpgradeKeepsThePlace DEF WellAsked, UpgradesKeepThePlace
<1>2. Spec => []UpgradesKeepThePlace
  BY <1>1, AlwaysWellAsked, PTL
<1> QED BY <1>2, EveryUpgradeKeepsThePlace

\* A block rule whose deadline can be resolved is enforced exactly when its
\* inputs can be answered, and from the documents the deadline was computed
\* from, whatever the rule asks for, of the book or not; at the solo tier every
\* rule of the book has a deadline, and the linter finds nothing in the book.
THEOREM RulesAreAlwaysDueWithTheirInputs ==
  /\ \A v \in KnownVersions : \A step \in StepSet(v) : \A rule :
       PreciseActivation(v) /\ rule.severity = "block" /\ DueStep(v, rule) # Never
         => OnTime(v, rule, step)
  /\ \A v \in KnownVersions : \A step \in StepSet(v) : \A tier : DueWithItsInputs(v, step, tier)
  /\ Spec => []RulesDueWithTheirInputs
<1>1. WellAsked => RulesDueWithTheirInputs
  BY EveryRuleDueWithItsInputs DEF WellAsked, RulesDueWithTheirInputs
<1>2. Spec => []RulesDueWithTheirInputs
  BY <1>1, AlwaysWellAsked, PTL
<1> QED BY <1>2, EveryRuleOnTime, EveryRuleDueWithItsInputs

=============================================================================
