---------------------------- MODULE MCDecisions ----------------------------
(* The engine's decisions that read a project and answer, each asked over    *)
(* every input of a bounded set: the state of this module is one question.   *)
EXTENDS Gates, LogicBackbone, ContractDrift, Navigator, NextPrompt, AgentWiring

VARIABLE asked

---------------------------------------------------------------------------
(* Bounds                                                                  *)

\* The pins of the bundled versions, one between them, and one of the future.
AskedPins == KnownVersions \cup {Version(6), <<1, 0, 0>>}

\* One rule for commands, one for tests, one for a document.
AskedRules == {r \in Rulebook : r.id \in {"developer", "qa_engineer", "cio_cto"}}

PlainWorld ==
  [value |-> "list", paths |-> "present", command |-> "passes",
   tests |-> "traced", readme |-> "complete", waiver |-> "none"]

AskedWorlds(rule) ==
  {w \in Worlds :
     /\ w.value \in {"list", "text", "undeclared"} /\ w.paths = "present"
     /\ w.readme = "complete" /\ w.waiver # "lapsed"
     /\ rule.id = "cio_cto" => w = [PlainWorld EXCEPT !.value = w.value]
     /\ rule.id = "developer" =>
          w = [PlainWorld EXCEPT !.command = w.command, !.waiver = w.waiver]
     /\ rule.id = "qa_engineer" =>
          w = [PlainWorld EXCEPT !.command = w.command, !.tests = w.tests]}

\* A step's gate is asked over the facts it looks at, the others being plain.
PlainFacts ==
  [document |-> "complete", backbone |-> "sound", writable |-> TRUE,
   outcomes |-> TRUE, waiver |-> "none", ledger |-> "settled",
   references |-> "complete", contract |-> "clean"]

LooksAt(at) ==
  {"document"}
  \cup (IF at.step \in {"acceptance_criteria", "logic_backbone", "build_plan"}
        THEN {"backbone", "writable"} ELSE {})
  \cup (IF at.step \in {"acceptance_criteria", "build_plan"} \/ at.state \in {"ship", "reflect"}
        THEN {"outcomes"} ELSE {})
  \cup (IF at.step = "acceptance_criteria" THEN {"waiver"} ELSE {})
  \cup (IF at.state \in {"ship", "reflect"} THEN {"ledger"} ELSE {})
  \cup (IF at.state = "reflect" THEN {"references"} ELSE {})
  \cup (IF at.state \in {"build", "verify"} THEN {"contract", "writable"} ELSE {})

FactChoices(at, fact) == IF fact \in LooksAt(at) THEN FactSets[fact] ELSE {PlainFacts[fact]}

AskedFacts(at) ==
  {[document |-> d, backbone |-> b, writable |-> w, outcomes |-> o, waiver |-> x,
    ledger |-> l, references |-> r, contract |-> c] :
     d \in FactChoices(at, "document"), b \in FactChoices(at, "backbone"),
     w \in FactChoices(at, "writable"), o \in FactChoices(at, "outcomes"),
     x \in FactChoices(at, "waiver"),   l \in FactChoices(at, "ledger"),
     r \in FactChoices(at, "references"), c \in FactChoices(at, "contract")}

\* Graphs of up to three nodes and three edges, one end of which may dangle;
\* the edges that only explain are left out of the largest ones.
AskedKinds(m) == IF m < 3 THEN {"feeds", "triggers", "explains"} ELSE {"feeds", "triggers"}

MCBase == <<"api">>

AskedPaths(segments) == UNION {[1..n -> segments] : n \in 1..2}

AskedSources ==
  [path : AskedPaths(Literals \cup {Whole, Part}), rooted : BOOLEAN, slash : BOOLEAN,
   query : {"none", "literal", "computed"},
   verb : Methods \cup {"unstated", "dynamic", "hidden"}]

AskedFillings(path) ==
  {f \in [DOMAIN path -> UNION {[1..n -> Literals] : n \in 0..2}] :
     \A i \in DOMAIN path : f[i] \in Fillings(path[i])}

\* What the navigator reads differs in at most three facts from a project with
\* everything in order, in each mode.
Aligned ==
  [mode |-> "combined", number |-> TRUE, scripts |-> {"lint", "typecheck", "test", "build"},
   git |-> "repo", status |-> TRUE, commits |-> TRUE, branch |-> TRUE, changed |-> {},
   gh |-> "answers", state |-> "OPEN", draft |-> FALSE, mergeable |-> "MERGEABLE",
   merge |-> "CLEAN",
   checks |-> <<[named |-> TRUE, status |-> "COMPLETED", conclusion |-> "SUCCESS"]>>,
   reviews |-> <<"APPROVED">>, size |-> {}, said |-> {}, found |-> TRUE,
   files |-> {[area |-> "tests", about |-> {1}, long |-> TRUE]},
   criteria |-> {[id |-> 1, mentions |-> {"tests", "build"}, manual |-> FALSE]}]

AskedFiles == {{}, {[area |-> "source", about |-> {}, long |-> FALSE]}} \cup
  {{[area |-> a, about |-> {1, 2}, long |-> l]} :
     a \in {"cli", "tests", "docs", "readme", "workflow", "package"}, l \in BOOLEAN}

\* The last is a commit status, which has neither name, status nor conclusion.
AskedChecks == [named : {TRUE}, status : {"IN_PROGRESS"}, conclusion : {"NONE"}] \cup
  [named : {TRUE}, status : {"COMPLETED"}, conclusion : {"SUCCESS", "FAILURE", "STALE"}] \cup
  [named : {FALSE}, status : {"UNKNOWN"}, conclusion : {"NONE"}]

AskedCriteria ==
  {[id |-> 1, mentions |-> m, manual |-> h] : m \in {{"tests", "build"}, {"cli"}}, h \in BOOLEAN}
  \cup {[id |-> 2, mentions |-> m, manual |-> FALSE] : m \in {{}, {"docs"}}}

Readings ==
  [number |-> BOOLEAN, scripts |-> {{}, {"test"}},
   git |-> {"git-not-found", "not-a-git-repository"}, status |-> BOOLEAN,
   commits |-> BOOLEAN, branch |-> BOOLEAN, changed |-> AskedFiles,
   gh |-> {"fails"}, state |-> {"CLOSED", "MERGED"}, draft |-> BOOLEAN,
   mergeable |-> {"UNKNOWN"}, merge |-> {"BEHIND", "UNSTABLE"},
   checks |-> {<<>>} \cup {<<c, d>> : c, d \in AskedChecks},
   reviews |-> {<<>>, <<"APPROVED", "CHANGES_REQUESTED">>}, size |-> {{"large-diff"}},
   said |-> {{1, 2}}, found |-> BOOLEAN, files |-> AskedFiles,
   criteria |-> {k \in SUBSET AskedCriteria :
                   Cardinality(k) <= 2 /\ \A a, b \in k : a.id = b.id => a = b}]

Tasks(id) == [id : {id}, status : {"pending", "done"}, depends : SUBSET {1, 2, 3}]

AskedTasks == {<<>>} \cup {<<t>> : t \in Tasks(1)} \cup {<<t, u>> : t \in Tasks(1), u \in Tasks(2)}

AskedOutcomes ==
  {{}} \cup {{o} : o \in [id : {1}, due : {"build", "ship", "unknown"}, waived : BOOLEAN,
                          latest : {"UNMEASURED", "NO_EVIDENCE", "MEASURED_PASS", "MEASURED_FAIL"}]}

\* Settings with up to two groups for an event, and no CLAUDE.md; or a CLAUDE.md
\* of up to three lines and no settings, or broken ones.
AskedSlots ==
  {[form |-> f, groups |-> <<>>] : f \in SlotForms} \cup
  [form : {"array"}, groups : UNION {[1..n -> {{"ocn"}, {"custom", "own"}, {"own"}}] : n \in 1..2}]

AskedHooks ==
  {[NoHooks EXCEPT !.form = f] : f \in PartForms} \cup
  [form : {"object"}, slots : [Events -> AskedSlots], more : BOOLEAN]

AskedEnvs ==
  {[NoEnv EXCEPT !.form = f] : f \in PartForms} \cup
  [form : {"object"}, actor : {"none", "ai_agent", "user"}, more : BOOLEAN]

Bare == {[NoSettings EXCEPT !.form = f] : f \in SettingsForms}

NoClaudeMd == [form |-> "absent", lines |-> <<>>]

Texts == [form : {"text"}, lines : UNION {[1..n -> Lines \ {"title"}] : n \in 0..3}]

Unbacked(settings, ocnMds, commands, mds) ==
  [settings : settings, backup : {NoSettings}, ocnMd : ocnMds, command : commands, claudeMd : mds]

AskedWirings ==
  Unbacked([form : {"object"}, hooks : AskedHooks, env : AskedEnvs],
           {"absent"}, {"absent"}, {NoClaudeMd}) \cup
  Unbacked(Bare, {"absent", "stale", "current"}, {"absent", "stale", "current"},
           {NoClaudeMd} \cup Texts)

---------------------------------------------------------------------------
(* Questions                                                               *)

AskUpgrade ==
  \E pin \in AskedPins, target \in KnownVersions \cup {Version(6)} :
    \E at \in Locations(ResolveProfile(pin)) :
      asked' = [about |-> "upgrade", pin |-> pin, target |-> target, at |-> at]

AskDue ==
  \E v \in KnownVersions, tier \in Tiers : \E step \in StepSet(v) :
    asked' = [about |-> "due", version |-> v, step |-> step, tier |-> tier]

AskGate ==
  \E v \in KnownVersions : \E at \in Locations(v), rule \in AskedRules :
  \E facts \in AskedFacts(at), world \in AskedWorlds(rule) :
    asked' = [about |-> "gate", version |-> v, at |-> at,
              facts |-> facts @@ [rule |-> rule, world |-> world]]

\* Every rule of the book in every world, at the gate of the verdict.
AskRule ==
  LET v == DefaultVersion
      at == [state |-> "verify", step |-> "final_build_verdict"]
  IN  \E rule \in Rulebook, world \in {w \in Worlds : w.waiver # "lapsed"} :
        asked' = [about |-> "gate", version |-> v, at |-> at,
                  facts |-> PlainFacts @@ [rule |-> rule, world |-> world]]

AskLogic ==
  \E n \in 1..3, m \in 0..3 :
  \E roles \in [1..n -> {"input", "trigger", "hint"}],
     edges \in [1..m -> [from : 1..n, to : 0..n, kind : AskedKinds(m)]] :
    asked' = [about |-> "logic",
              graph |-> [nodes |-> [i \in 1..n |-> [id |-> i, role |-> roles[i]]],
                         edges |-> edges]]

AskContract ==
  \E endpoint \in [id : {"endpoint"}, method : Methods, rooted : {TRUE},
                    path : AskedPaths(Literals \cup {Param})],
     source \in AskedSources :
  \E filling \in AskedFillings(source.path) :
    asked' = [about |-> "contract", endpoints |-> <<endpoint>>,
              source |-> source, filling |-> filling]

AskVerdict ==
  \E mode \in {"local", "pr", "combined"}, f, g, h \in DOMAIN Readings :
  \E x \in Readings[f], y \in Readings[g], z \in Readings[h] :
    asked' = [about |-> "verdict",
              world |-> [Aligned EXCEPT !.mode = mode, ![f] = x, ![g] = y, ![h] = z]]

AskPrompt ==
  \E project \in {"none", "unreadable", "stopped", "read"}, pin \in {Version(8), Version(9)},
     state \in {"design", "build", "ship"}, mode \in {"continue", "review"},
     issue \in BOOLEAN, tasks \in AskedTasks, outcomes \in AskedOutcomes :
    asked' = [about |-> "prompt",
              situation |-> [project |-> project, pin |-> pin, state |-> state, mode |-> mode,
                             issue |-> issue, tasks |-> tasks, outcomes |-> outcomes]]

AskWiring ==
  \E w \in AskedWirings, force \in BOOLEAN, n \in 0..4 :
    asked' = [about |-> "wiring", files |-> w, force |-> force, done |-> n]

Init == asked = [about |-> "nothing"]

Unasked == asked.about = "nothing"

Next ==
  \/ Unasked /\ AskContract
  \/ Unasked /\ (AskUpgrade \/ AskDue \/ AskWiring \/ AskLogic \/ AskPrompt)
  \/ Unasked /\ (AskGate \/ AskRule \/ AskVerdict)

Spec == Init /\ [][Next]_asked

---------------------------------------------------------------------------
(* Properties                                                              *)

\* See UpgradeKeepsThePlace in Profiles.
UpgradesKeepThePlace ==
  asked.about = "upgrade" => UpgradeKeepsThePlace(asked.pin, asked.target, asked.at)

\* See DueWithItsInputs in ReadinessRules.
RulesDueWithTheirInputs ==
  asked.about = "due" => DueWithItsInputs(asked.version, asked.step, asked.tier)

\* See PassesAgree in Gates.
GatesAgree ==
  asked.about = "gate" => PassesAgree(asked.version, asked.at, asked.facts)

\* See PassedIsProjected in Gates.
GatesProject ==
  asked.about = "gate" => PassedIsProjected(asked.version, asked.at, asked.facts)

\* See GraphOrdersItself in LogicBackbone.
GraphsOrderThemselves == asked.about = "logic" => GraphOrdersItself(asked.graph)

\* See DeclaredCallPasses in ContractDrift.
DeclaredCallsPass ==
  asked.about = "contract" =>
    DeclaredCallPasses(asked.endpoints, asked.source, asked.filling)

\* See MergeIsBacked in Navigator.
MergesAreBacked == asked.about = "verdict" => MergeIsBacked(asked.world)

\* See PromptLeadsOn in NextPrompt.
PromptsLeadOn == asked.about = "prompt" => PromptLeadsOn(asked.situation)

\* See WiringComesOff in AgentWiring.
WiringsComeOff ==
  asked.about = "wiring" => WiringComesOff(asked.files, asked.force, asked.done)

\* See NeverFalseClosed in ContractDrift.
NoFalseClose ==
  asked.about = "contract" =>
    NeverFalseClosed(asked.endpoints, asked.source, asked.filling)
=============================================================================
