----------------------------- MODULE Automation -----------------------------
(***************************************************************************)
(* Auto mode (src/core/automation, src/core/advance/advance-automation.ts): *)
(* the human's grant, the `automation:` block of config.yaml, lets an AI    *)
(* agent advance into the states of a phase, run checks in phase 2 and      *)
(* rewind to the build plan; `ocn auto on | off | resume` edits the grant;  *)
(* and a circuit breaker, automation-runtime.json, suspends the grant when  *)
(* an agent's advances keep failing at the gate of one step.                *)
(*                                                                          *)
(* The switch works under `.ocoding/.lock`.  An agent's advance reads the   *)
(* grant and the breaker once, before a gate that may take minutes, and     *)
(* writes the breaker back afterwards from that reading, without the lock.  *)
(*                                                                          *)
(* Moves of the cursor are atomic here (Workflow has their interleavings),  *)
(* and so are rounds; a gate passes or fails, whatever it looks at.         *)
(***************************************************************************)
EXTENDS Naturals

CONSTANTS
    Proc,         \* the ocn processes, of agents and of people
    LastStep,     \* the steps of the pinned profile are 1 .. LastStep
    PhaseOf,      \* the phase of the state each step is in, if it has one
    BuildPlan,    \* step_build_plan
    Threshold,    \* maxConsecutiveGateFailures
    Edit          \* what people may save in config.yaml

Step  == 1 .. LastStep
Phase == {"phase1", "phase2"}

Form   == {"absent", "block", "flow", "invalid", "broken"}
Config == [form : Form, phases : SUBSET Phase]

ASSUME StepAssumption ==
    /\ LastStep \in Nat \ {0}
    /\ PhaseOf \in [Step -> Phase \cup {"none"}]
    /\ BuildPlan \in Step

ASSUME BreakerAssumption == Threshold \in Nat \ {0}

ASSUME EditAssumption == Edit \subseteq Config

NoStep == 0

VARIABLES
    cursor,      \* the step state.json stands at
    config,      \* the automation block of config.yaml
    runtime,     \* automation-runtime.json
    fails,       \* history: advances of agents that failed at each step's gate
    local        \* what each process keeps in memory during a command

vars == <<cursor, config, runtime, fails, local>>

\* A counter of 0 is null.
Runtime == [suspended : BOOLEAN, step : Step \cup {NoStep}, count : 0 .. Threshold]

DefaultRuntime == [suspended |-> FALSE, step |-> NoStep, count |-> 0]

Place == {"idle", "config", "runtime", "gate", "move", "clear", "verify",
          "writeConfig", "writeRuntime"}

Local ==
    [pc        : Place,
     cmd       : {"none", "advance", "rewind", "check", "switch"},
     from      : Step \cup {NoStep},    \* the cursor the command has read
     to        : Step \cup {NoStep},    \* and where it is to go
     granted   : SUBSET Phase,          \* the grant a switch is to leave
     read      : Runtime,               \* the breaker as read
     overtaken : BOOLEAN]               \* history: has either changed since?

Resting == [pc |-> "idle", cmd |-> "none", from |-> NoStep, to |-> NoStep,
            granted |-> {}, read |-> DefaultRuntime, overtaken |-> FALSE]

TypeOK ==
    /\ cursor \in Step
    /\ config \in Config
    /\ runtime \in Runtime
    /\ fails \in [Step -> 0 .. Threshold]
    /\ local \in [Proc -> Local]

Init ==
    /\ cursor = 1
    /\ config \in Edit
    /\ runtime = DefaultRuntime
    /\ fails = [s \in Step |-> 0]
    /\ local = [p \in Proc |-> Resting]

----------------------------------------------------------------------------
(* The grant *)

\* readAutomationConfig: what is absent, invalid or unreadable grants nothing.
Granted(c) == IF c.form \in {"block", "flow"} THEN c.phases ELSE {}

\* Mutated form: the new block is appended, and the old one left.
WrittenBehind(c, phases) ==
    IF c.form = "absent" THEN [form |-> "block", phases |-> phases] ELSE c

\* writeAutomationConfig replaces a block and appends where it finds none.
\* `automation: {...}` on one line is not found: the key is then there twice,
\* and the document no longer loads.
Written(c, phases) ==
    IF c.form \in {"flow", "broken"}
    THEN [form |-> "broken", phases |-> {}]
    ELSE [form |-> "block", phases |-> phases]

NextStep(step) == IF step < LastStep THEN step + 1 ELSE NoStep

\* Mutated form: the phase of the step that is left, not of the one entered.
AdvanceGrantedFrom(granted, from, to) == PhaseOf[from] \in granted

\* authorizeAiAdvance: by the target; at the terminal step there is none.
AdvanceGranted(granted, from, to) == to # NoStep => PhaseOf[to] \in granted

\* authorizeAiRewind: back to the build plan, from phase 2.
RewindGranted(granted, from, to) ==
    /\ "phase2" \in granted
    /\ to = BuildPlan
    /\ PhaseOf[from] = "phase2"

\* authorizeAiTaskCheck, authorizeAiOutcomeCheck.
CheckGranted(granted, from) ==
    /\ "phase2" \in granted
    /\ PhaseOf[from] = "phase2"

----------------------------------------------------------------------------
(* The breaker *)

\* Mutated form: failures count whichever step they are at.
RecordAnyStep(r, step) ==
    LET count == r.count + 1
    IN  [suspended |-> count >= Threshold, step |-> step, count |-> count]

\* Mutated form: the first failure at a step is not counted.
RecordFromZero(r, step) ==
    LET count == IF r.step = step THEN r.count + 1 ELSE 0
    IN  [suspended |-> count >= Threshold,
         step |-> IF count = 0 THEN NoStep ELSE step, count |-> count]

\* recordAiGateFailure; only a runtime that is not suspended gets here.
RecordAiGateFailure(r, step) ==
    LET count == IF r.step = step THEN r.count + 1 ELSE 1
    IN  [suspended |-> count >= Threshold, step |-> step, count |-> count]

ClearFailureCounter(r) == [suspended |-> r.suspended, step |-> NoStep, count |-> 0]

Capped(n) == IF n < Threshold THEN n ELSE Threshold

----------------------------------------------------------------------------

\* Every command under way finds its reading of the grant out of date.
Overtaken(l) == [q \in Proc |-> [l[q] EXCEPT !.overtaken = @ \/ l[q].pc # "idle"]]

Become(p, l) == local' = [local EXCEPT ![p] = l]

\* The switch holds the lock over its two writes.
LockFree == \A q \in Proc : local[q].pc \notin {"writeConfig", "writeRuntime"}

OnlyLocal == UNCHANGED <<cursor, config, runtime, fails>>

----------------------------------------------------------------------------
(* The commands of an agent *)

\* advanceState, rewindState and the checks read state.json first.
AgentStart(p) ==
    /\ local[p].pc = "idle"
    /\ \/ Become(p, [Resting EXCEPT !.pc = "config", !.cmd = "advance",
                                    !.from = cursor, !.to = NextStep(cursor)])
       \/ \E to \in 1 .. (cursor - 1) :
             Become(p, [Resting EXCEPT !.pc = "config", !.cmd = "rewind",
                                       !.from = cursor, !.to = to])
       \/ Become(p, [Resting EXCEPT !.pc = "config", !.cmd = "check",
                                    !.from = cursor])
    /\ OnlyLocal

\* loadAutomation reads the grant, which must cover the command ...
LoadConfig(p) ==
    /\ local[p].pc = "config"
    /\ LET l == local[p]
       IN  CASE l.cmd = "advance" -> AdvanceGranted(Granted(config), l.from, l.to)
             [] l.cmd = "rewind"  -> RewindGranted(Granted(config), l.from, l.to)
             [] l.cmd = "check"   -> CheckGranted(Granted(config), l.from)
             [] OTHER             -> FALSE
    /\ local' = [local EXCEPT ![p].pc = "runtime"]
    /\ OnlyLocal

AfterLoading(l) ==
    CASE l.cmd = "advance" -> [l EXCEPT !.pc = "gate", !.read = runtime]
      [] l.cmd = "rewind"  -> [l EXCEPT !.pc = "move"]
      [] OTHER             -> [l EXCEPT !.pc = "verify"]

\* ... and the breaker, which refuses everything when tripped (commonRefusal).
LoadRuntime(p) ==
    /\ local[p].pc = "runtime"
    /\ ~runtime.suspended
    /\ Become(p, AfterLoading(local[p]))
    /\ OnlyLocal

\* The check runs; TaskLedger and OutcomeLedger have what it does.
Verify(p) ==
    /\ local[p].pc = "verify"
    /\ Become(p, Resting)
    /\ OnlyLocal

\* recordAiGateFailureAndAudit: the count as read before the gate, and one.
GateFails(p) ==
    /\ local[p].pc = "gate"
    /\ runtime' = RecordAiGateFailure(local[p].read, local[p].from)
    /\ fails' = [fails EXCEPT ![local[p].from] = Capped(@ + 1)]
    /\ local' = [Overtaken(local) EXCEPT ![p] = Resting]
    /\ UNCHANGED <<cursor, config>>

\* The gate passes.  What may still stop the advance, a pending task, an
\* outcome that is due, the terminal step, neither counts nor clears (GiveUp).
GatePasses(p) ==
    /\ local[p].pc = "gate"
    /\ Become(p, [local[p] EXCEPT !.pc = "move"])
    /\ UNCHANGED <<cursor, config, runtime, fails>>

\* applyAdvanceTransition and applyRewindUnderLock: if the cursor is where it was.
Move(p) ==
    /\ local[p].pc = "move"
    /\ LockFree
    /\ cursor = local[p].from
    /\ local[p].to # NoStep
    /\ cursor' = local[p].to
    /\ Become(p, IF local[p].cmd = "advance" /\ local[p].read.count # 0
                 THEN [local[p] EXCEPT !.pc = "clear"]
                 ELSE Resting)
    /\ UNCHANGED <<config, runtime, fails>>

\* clearBreakerAndBuildTrace writes back what was read, without the counter.
Clear(p) ==
    /\ local[p].pc = "clear"
    /\ runtime' = ClearFailureCounter(local[p].read)
    /\ local' = [Overtaken(local) EXCEPT ![p] = Resting]
    /\ UNCHANGED <<cursor, config, fails>>

----------------------------------------------------------------------------
(* ocn auto on | off | resume, which refuses agents *)

ApplySwitch(granted, action, arg) ==
    LET phases == IF arg = "all" THEN Phase ELSE {arg}
    IN  IF action = "on" THEN granted \cup phases ELSE granted \ phases

\* Under the lock the grant is read, ...
SwitchStart(p) ==
    /\ local[p].pc = "idle"
    /\ LockFree
    /\ \/ \E action \in {"on", "off"}, arg \in Phase \cup {"all"} :
             Become(p, [Resting EXCEPT !.pc = "writeConfig", !.cmd = "switch",
                          !.granted = ApplySwitch(Granted(config), action, arg)])
       \/ Become(p, [Resting EXCEPT !.pc = "writeRuntime", !.cmd = "switch",
                                    !.granted = Granted(config)])
    /\ OnlyLocal

\* ... the new one written, ...
SwitchConfig(p) ==
    /\ local[p].pc = "writeConfig"
    /\ config' = Written(config, local[p].granted)
    /\ local' = [Overtaken(local) EXCEPT ![p].pc = "writeRuntime", ![p].overtaken = FALSE]
    /\ UNCHANGED <<cursor, runtime, fails>>

\* ... and the breaker reset, by resume too.
SwitchRuntime(p) ==
    /\ local[p].pc = "writeRuntime"
    /\ runtime' = DefaultRuntime
    /\ local' = [Overtaken(local) EXCEPT ![p] = Resting]
    /\ UNCHANGED <<cursor, config, fails>>

----------------------------------------------------------------------------

\* A refusal, a cursor that has moved, a file that cannot be written, or death.
GiveUp(p) ==
    /\ local[p].pc # "idle"
    /\ Become(p, Resting)
    /\ OnlyLocal

\* config.yaml is the user's to edit.
EditConfig ==
    /\ config' \in Edit
    /\ local' = Overtaken(local)
    /\ UNCHANGED <<cursor, runtime, fails>>

\* Mutated form: a human advance clears the breaker like an agent's.
HumanMoveClearing ==
    /\ LockFree
    /\ cursor' \in Step
    /\ runtime' = DefaultRuntime
    /\ UNCHANGED <<config, fails, local>>

\* Advances and rewinds of people leave the breaker alone.
HumanMove ==
    /\ LockFree
    /\ cursor' \in Step
    /\ UNCHANGED <<config, runtime, fails, local>>

\* cycleNew archives the breaker with the round; the grant stays.
CycleNew ==
    /\ LockFree
    /\ cursor' = 1
    /\ runtime' = DefaultRuntime
    /\ local' = Overtaken(local)
    /\ UNCHANGED <<config, fails>>

Next ==
    \/ \E p \in Proc :
          \/ AgentStart(p) \/ LoadConfig(p) \/ LoadRuntime(p)
          \/ Verify(p) \/ GateFails(p) \/ GatePasses(p) \/ Move(p) \/ Clear(p)
          \/ SwitchStart(p) \/ SwitchConfig(p) \/ SwitchRuntime(p)
          \/ GiveUp(p)
    \/ EditConfig
    \/ HumanMove
    \/ CycleNew

Spec == Init /\ [][Next]_vars

----------------------------------------------------------------------------
(* Properties *)

\* An agent acts only where the grant lets it and the breaker is not tripped:
\* it moves forward into a phase granted now, and back to the build plan or
\* into a check with phase 2 granted; unless a switch, an edit or another
\* agent's failure has overtaken its command.
MoveIsGranted(l) ==
    IF l.to > cursor THEN PhaseOf[l.to] \in Granted(config)
                     ELSE l.to = BuildPlan /\ "phase2" \in Granted(config)

AgentActsGranted ==
    [][\A p \in Proc : ~local[p].overtaken =>
          /\ Move(p) => MoveIsGranted(local[p]) /\ ~runtime.suspended
          /\ Verify(p) => "phase2" \in Granted(config) /\ ~runtime.suspended]_vars

\* While `ocn auto off` returns, and nobody edits config.yaml meanwhile, what it
\* was to leave granted is the most that the file grants, whatever form it has.
OffMeansOff ==
    \A p \in Proc :
        local[p].cmd = "switch" /\ local[p].pc = "writeRuntime" /\ ~local[p].overtaken =>
            Granted(config) \subseteq local[p].granted

\* A breaker that is tripped has had its threshold of failures, all of agents
\* and all at the step it names: failures elsewhere never add up to a trip.
TripIsEarned == runtime.suspended => fails[runtime.step] >= Threshold

\* A suspension ends by the switch, a new round or the write of a command that
\* the suspension has overtaken: never by an advance that begins after it.
SuspensionLasts ==
    [][runtime.suspended /\ ~runtime'.suspended =>
          \/ \E p \in Proc : SwitchRuntime(p)
          \/ CycleNew
          \/ \E p \in Proc : local[p].overtaken /\ (GateFails(p) \/ Clear(p))]_vars

\* The breaker trips at last: agents' gates fail for ever only if somebody moves
\* the cursor, resets or clears for ever, however the failures of several agents
\* overwrite each other's counts.
GateFailure == \E p \in Proc : GateFails(p)

Relief ==
    \/ cursor' # cursor
    \/ \E p \in Proc : SwitchRuntime(p) \/ Clear(p)
    \/ CycleNew

BreakerStopsFailing == []<><<GateFailure>>_vars => []<><<Relief>>_vars
=============================================================================
