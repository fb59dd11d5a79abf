------------------------------ MODULE Readiness ------------------------------
(***************************************************************************)
(* The readiness gate at work (src/core/gate/readiness-gate.ts,             *)
(* src/core/readiness): every gate compares the commands it is about to run *)
(* with the frozen snapshot of them, audits a change, and only then takes   *)
(* the new commands for the baseline; it reads the waivers and judges every *)
(* rule of the rulebook.  `ocn readiness waive` waives a rule in a state.   *)
(*                                                                          *)
(* Neither takes `.ocoding/.lock`: gates and waives interleave freely, with *)
(* each other and with edits of config.yaml and of the waivers.  What the   *)
(* fields of a rule come to, and whether the precondition of a waiver       *)
(* holds, is any outcome at the moment it is looked at; ReadinessRules has  *)
(* how the fields are judged.  Moves of the cursor are atomic (Workflow).   *)
(***************************************************************************)
EXTENDS Naturals

CONSTANTS
    Proc,        \* the ocn processes
    Rule,        \* the block-severity rules that the tier requires
    Waivable,    \* those that may be waived
    LastStep,    \* the steps of the pinned profile are 1 .. LastStep
    StateOf,     \* the state of each step
    Due,         \* the step each rule is enforced from; 1 for one that is not deferred
    Commands,    \* the `commands:` sections config.yaml may have
    Unset        \* the one without a command

Step  == 1 .. LastStep
State == {StateOf[s] : s \in Step}

ASSUME StepAssumption ==
    /\ LastStep \in Nat \ {0}
    /\ StateOf \in [Step -> {StateOf[s] : s \in Step}]

ASSUME RuleAssumption == Waivable \subseteq Rule /\ Due \in [Rule -> Step]

NoStep == 0

NoSnapshot == [none |-> TRUE]

ASSUME CommandsAssumption == Unset \in Commands /\ NoSnapshot \notin Commands

VARIABLES
    cursor,     \* the step state.json stands at
    commands,   \* what config.yaml has
    frozen,     \* readiness-frozen.json
    waivers,    \* readiness-waivers.yaml
    known,      \* history: the `commands` this round's trail accounts for
    judged,     \* history: the `commands` of this round's evaluations
    met,        \* history: the rules met by a gate that let the cursor pass it when due
    local       \* what each process keeps in memory during a command

vars == <<cursor, commands, frozen, waivers, known, judged, met, local>>

\* "UNKNOWN" stands for FAIL, too: both block.
Verdict == {"PASS", "UNKNOWN", "WAIVED", "DEFERRED"}
Waiver  == [rule : Rule, state : State]
Ledger  == [Rule -> Verdict]

NoLedger == [r \in Rule |-> "DEFERRED"]

Place == {"idle", "start", "drift", "baseline", "audit", "commit", "waivers", "judge",
          "verdict", "grant", "write"}

Local ==
    [pc        : Place,
     at        : Step,                 \* the cursor the command has read
     rule      : Rule \cup {NoStep},   \* of a waive
     commands  : Commands,             \* as read from config.yaml
     waivers   : SUBSET Waiver,        \* as read
     verdicts  : Ledger,
     overtaken : BOOLEAN,              \* history: has the file it is to write
                                       \* changed since it was read?
     stale     : BOOLEAN]              \* history: was it at work when the round ended?

Resting == [pc |-> "idle", at |-> 1, rule |-> NoStep,
            commands |-> Unset, waivers |-> {}, verdicts |-> NoLedger,
            overtaken |-> FALSE, stale |-> FALSE]

TypeOK ==
    /\ cursor \in Step
    /\ commands \in Commands
    /\ frozen \in Commands \cup {NoSnapshot}
    /\ waivers \subseteq Waiver
    /\ known \subseteq Commands
    /\ judged \subseteq Commands
    /\ met \subseteq Rule
    /\ local \in [Proc -> Local]

Init ==
    /\ cursor = 1
    /\ commands = Unset
    /\ frozen = NoSnapshot
    /\ waivers = {}
    /\ known = {Unset}
    /\ judged = {}
    /\ met = {}
    /\ local = [p \in Proc |-> Resting]

Become(p, l) == local' = [local EXCEPT ![p] = l]

\* The commands that are about to write a file that has just changed.
Overtaken(places) ==
    [q \in Proc |-> [local[q] EXCEPT !.overtaken = @ \/ local[q].pc \in places]]

OnlyLocal == UNCHANGED <<cursor, commands, frozen, waivers, known, judged, met>>

----------------------------------------------------------------------------
(* The gate *)

\* advance and `readiness list` read state.json ...
GateStart(p) ==
    /\ local[p].pc = "idle"
    /\ Become(p, [Resting EXCEPT !.pc = "start", !.at = cursor])
    /\ OnlyLocal

\* ... config.yaml ...
ReadProjectCommands(p) ==
    /\ local[p].pc = "start"
    /\ Become(p, [local[p] EXCEPT !.pc = "drift", !.commands = commands])
    /\ OnlyLocal

\* ... and the snapshot.
CheckConfigDrift(p) ==
    /\ local[p].pc = "drift"
    /\ LET read == local[p].commands
       IN  Become(p, [local[p] EXCEPT !.pc =
                        IF frozen = read \/ (frozen = NoSnapshot /\ read = Unset)
                        THEN "waivers"
                        ELSE IF frozen = NoSnapshot THEN "baseline" ELSE "audit"])
    /\ OnlyLocal

\* No snapshot, and there is something to freeze: no drift.  The trail accounts
\* for it if nothing has been judged, or another gate has just done the same.
WriteBaseline(p) ==
    /\ local[p].pc = "baseline"
    /\ frozen' = local[p].commands
    /\ known' = IF judged \subseteq {Unset} \/ local[p].overtaken
                THEN known \cup {local[p].commands} ELSE known
    /\ local' = [Overtaken({"baseline"}) EXCEPT ![p] = [local[p] EXCEPT !.pc = "waivers"]]
    /\ UNCHANGED <<cursor, commands, waivers, judged, met>>

\* Mutated form: the baseline is moved before the change is audited.
AuditDriftAfterwards(p) ==
    /\ local[p].pc \in {"audit", "commit"}
    /\ IF local[p].pc = "audit"
       THEN /\ frozen' = local[p].commands
            /\ Become(p, [local[p] EXCEPT !.pc = "commit"])
            /\ UNCHANGED known
       ELSE /\ known' = known \cup {local[p].commands}
            /\ Become(p, [local[p] EXCEPT !.pc = "waivers"])
            /\ UNCHANGED frozen
    /\ UNCHANGED <<cursor, commands, waivers, judged, met>>

\* A change is audited first, as well as it can be: an append that fails is dropped.
AuditDrift(p) ==
    /\ local[p].pc = "audit"
    /\ known' = known \cup {local[p].commands}
    /\ Become(p, [local[p] EXCEPT !.pc = "commit"])
    /\ UNCHANGED <<cursor, commands, frozen, waivers, judged, met>>

\* commitConfigSnapshot, whose errors are dropped too: the drift is reported again.
CommitSnapshot(p) ==
    /\ local[p].pc = "commit"
    /\ frozen' \in {frozen, local[p].commands}
    /\ local' = [Overtaken({"baseline"}) EXCEPT ![p] = [local[p] EXCEPT !.pc = "waivers"]]
    /\ UNCHANGED <<cursor, commands, waivers, known, judged, met>>

\* A file that does not parse has no waivers.
ReadWaivers(p) ==
    /\ local[p].pc = "waivers"
    /\ \E read \in {waivers, {}} :
          Become(p, [local[p] EXCEPT !.pc = "judge", !.waivers = read])
    /\ OnlyLocal

\* Mutated form: a rule is still deferred at the step it is due.
DeferredWhenDue(rule, at) == at <= Due[rule]

\* evaluateRule: not before the step the rule is enforced from.
Deferred(rule, at) == at < Due[rule]

\* applyWaiver: what a failing rule may come to.
ApplyWaiver(rule, at, read) ==
    IF rule \in Waivable /\ [rule |-> rule, state |-> StateOf[at]] \in read
    THEN {"UNKNOWN", "WAIVED"}
    ELSE {"UNKNOWN"}

\* evaluateReadiness runs for minutes; the waivers are those read before.
Evaluate(p) ==
    /\ local[p].pc = "judge"
    /\ LET l == local[p]
       IN  \E verdicts \in Ledger :
              /\ \A r \in Rule :
                    verdicts[r] \in IF Deferred(r, l.at) THEN {"DEFERRED"}
                                    ELSE {"PASS"} \cup ApplyWaiver(r, l.at, l.waivers)
              /\ Become(p, [l EXCEPT !.pc = "verdict", !.waivers = {},
                               !.commands = Unset, !.verdicts = verdicts])
    /\ judged' = IF local[p].stale THEN judged ELSE judged \cup {local[p].commands}
    /\ UNCHANGED <<cursor, commands, frozen, waivers, known, met>>

Blocking(verdicts) == {r \in Rule : verdicts[r] = "UNKNOWN"}

\* readiness.json, which gates nothing, is written if it can be.  An advance
\* that passes moves if the cursor is where it was; a list or a check ends here.
GateEnds(p) ==
    /\ local[p].pc = "verdict"
    /\ \/ UNCHANGED <<cursor, met>>
       \/ /\ Blocking(local[p].verdicts) = {}
          /\ cursor = local[p].at /\ cursor < LastStep
          /\ cursor' = cursor + 1
          /\ met' = met \cup {r \in Rule : local[p].verdicts[r] # "DEFERRED"}
    /\ Become(p, Resting)
    /\ UNCHANGED <<commands, frozen, waivers, known, judged>>

----------------------------------------------------------------------------
(* ocn readiness waive *)

\* state.json is read, the rule must be waivable, and its precondition is run:
\* up to ten seconds.
WaiveStart(p) ==
    /\ local[p].pc = "idle"
    /\ \E r \in Waivable :
          Become(p, [Resting EXCEPT !.pc = "grant", !.at = cursor, !.rule = r])
    /\ OnlyLocal

\* The file is read ...
WaiveRead(p) ==
    /\ local[p].pc = "grant"
    /\ \E read \in {waivers, {}} :
          Become(p, [local[p] EXCEPT !.pc = "write", !.waivers = read,
                                     !.overtaken = read # waivers])
    /\ OnlyLocal

\* Mutated form: the waivers of the state are replaced, not those of the rule.
WaiveWriteByState(p) ==
    /\ local[p].pc = "write"
    /\ LET granted == [rule |-> local[p].rule, state |-> StateOf[local[p].at]]
       IN  waivers' = {w \in local[p].waivers : w.state # granted.state} \cup {granted}
    /\ local' = [Overtaken({"write"}) EXCEPT ![p] = Resting]
    /\ UNCHANGED <<cursor, commands, frozen, known, judged, met>>

\* ... and written: the others as read, and this one in the state read at first.
WaiveWrite(p) ==
    /\ local[p].pc = "write"
    /\ LET granted == [rule |-> local[p].rule, state |-> StateOf[local[p].at]]
       IN  waivers' = {w \in local[p].waivers : w.rule # granted.rule} \cup {granted}
    /\ local' = [Overtaken({"write"}) EXCEPT ![p] = Resting]
    /\ UNCHANGED <<cursor, commands, frozen, known, judged, met>>

----------------------------------------------------------------------------

\* A refusal, a probe that fails, a file that cannot be written, or death.
GiveUp(p) ==
    /\ local[p].pc # "idle"
    /\ Become(p, Resting)
    /\ OnlyLocal

EditConfig ==
    /\ commands' \in Commands
    /\ UNCHANGED <<cursor, frozen, waivers, known, judged, met, local>>

\* The waivers are in the agent's reach.
EditWaivers ==
    /\ \E w \in Waiver : waivers' \in {waivers \cup {w}, waivers \ {w}}
    /\ local' = Overtaken({"write"})
    /\ UNCHANGED <<cursor, commands, frozen, known, judged, met>>

\* A rewind keeps every file of readiness; what was met must be met again.
Rewind ==
    /\ \E to \in 1 .. (cursor - 1) :
          /\ cursor' = to
          /\ met' = {r \in met : Due[r] < to}
    /\ UNCHANGED <<commands, frozen, waivers, known, judged, local>>

\* cycleNew archives the snapshot and the waivers; the trail goes on, and
\* accounts for a change that a gate still at work has audited.
CycleNew ==
    /\ cursor' = 1
    /\ frozen' = NoSnapshot
    /\ waivers' = {}
    /\ known' = {Unset} \cup {local[p].commands : p \in {q \in Proc : local[q].pc = "commit"}}
    /\ judged' = {}
    /\ met' = {}
    /\ local' = [p \in Proc |-> [Overtaken({"baseline", "write"})[p] EXCEPT
                                     !.stale = local[p].pc # "idle"]]
    /\ UNCHANGED commands

Next ==
    \/ \E p \in Proc :
          \/ GateStart(p) \/ ReadProjectCommands(p) \/ CheckConfigDrift(p) \/ WriteBaseline(p)
          \/ AuditDrift(p) \/ CommitSnapshot(p) \/ ReadWaivers(p) \/ Evaluate(p)
          \/ GateEnds(p)
          \/ WaiveStart(p) \/ WaiveRead(p) \/ WaiveWrite(p)
          \/ GiveUp(p)
    \/ EditConfig \/ EditWaivers
    \/ Rewind \/ CycleNew

Spec == Init /\ [][Next]_vars

----------------------------------------------------------------------------
(* Properties *)

\* The referee's inputs do not drift silently: the commands a gate has judged
\* with were the baseline of the round, or a change to them was audited before,
\* as far as the audit could be written.  Gates die between any two steps.
RefereeAudited == judged \subseteq known

\* Nothing slips past: every rule that came due before the step the cursor is at
\* has been met, by a gate that let the cursor go on from its due step or later.
NothingSlips == \A r \in Rule : Due[r] < cursor => r \in met

\* A waiver that was granted stays until its rule is waived anew, it is removed
\* by hand, or the round ends; it is lost to a waive that had read the file
\* before it was there, or could not read it.
GrantsKept ==
    [][\A w \in waivers \ waivers' :
          \/ EditWaivers \/ CycleNew
          \/ \E p \in Proc :
                WaiveWrite(p) /\ (w.rule = local[p].rule \/ local[p].overtaken)]_vars
=============================================================================
