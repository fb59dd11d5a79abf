----------------------------- MODULE TaskLedger -----------------------------
(***************************************************************************)
(* The task backbone (src/core/task): the build plan's task specs, the      *)
(* ledger `.ocoding/task-ledger.json` that the build-plan gate freezes from *)
(* them, `ocn task check`, which alone marks a task done, and the guard     *)
(* that keeps the cursor in BUILD while a task is pending.                  *)
(*                                                                          *)
(* The ledger is written whole, from what was read some awaits earlier, and *)
(* without `.ocoding/.lock`: gates, task checks and advances of several     *)
(* processes interleave at every reading and writing of it, with the plan   *)
(* being edited, the cursor rewound and rounds archived meanwhile.          *)
(*                                                                          *)
(* The project is pinned to SOP 0.5.0 or later; before, there is no ledger.  *)
(* The other steps of the workflow are lumped into "earlier" and "later".   *)
(* Moves of the cursor are atomic here: Workflow has their interleavings.   *)
(***************************************************************************)
EXTENDS Naturals, Sequences

CONSTANTS
    Proc,              \* the ocn processes
    TaskId,
    VerifyCommand,     \* the commands a task may name; equal hash, same command
    Document,          \* the task sections the build plan may be edited to hold
    EmptyPlanAllowed,  \* has the project an unwaived outcome criterion?
    NoLedger,          \* task-ledger.json is absent
    NoTask,
    NoStage

TaskSpec   == [verify : VerifyCommand, depends : SUBSET TaskId]
LedgerTask == [verify : VerifyCommand, depends : SUBSET TaskId, done : BOOLEAN]

Plan   == UNION {[ids -> TaskSpec] : ids \in SUBSET TaskId}
Ledger == UNION {[ids -> LedgerTask] : ids \in SUBSET TaskId}

ASSUME TaskAssumption ==
    /\ Document \subseteq Plan
    /\ EmptyPlanAllowed \in BOOLEAN
    /\ NoLedger \notin Ledger
    /\ NoTask \notin TaskId

Stages == <<"earlier", "buildPlan", "build", "later">>
Stage  == {"earlier", "buildPlan", "build", "later"}

ASSUME StageAssumption == NoStage \notin Stage

VARIABLES
    cursor,        \* the stage state.json stands at
    plan,          \* the task specs in the build-plan document
    ledger,        \* task-ledger.json
    judged,        \* history: the tasks and commands that have exited 0
    raced,         \* history: has a write replaced a ledger its writer had not read?
    local          \* what each process keeps in memory during a command

vars == <<cursor, plan, ledger, judged, raced, local>>

Place == {"idle", "gate", "parse", "carry", "freeze", "guard", "move",
          "drift", "verify", "record"}

Local ==
    [pc     : Place,
     cmd    : {"none", "gate", "advance", "task"},
     from   : Stage \cup {NoStage},        \* the cursor an advance read
     next   : Stage \cup {NoStage},        \* and where it is to go
     specs  : Plan,                        \* the plan a gate read
     read   : Ledger \cup {NoLedger},      \* the ledger as read
     target : TaskId \cup {NoTask}]        \* the task being checked

NoSpecs == [id \in {} |-> {}]

Resting == [pc |-> "idle", cmd |-> "none", from |-> NoStage, next |-> NoStage,
            specs |-> NoSpecs, read |-> NoLedger, target |-> NoTask]

TypeOK ==
    /\ cursor \in Stage
    /\ plan \in Plan
    /\ ledger \in Ledger \cup {NoLedger}
    /\ judged \in SUBSET (TaskId \X VerifyCommand)
    /\ raced \in BOOLEAN
    /\ local \in [Proc -> Local]

Init ==
    /\ cursor = "earlier"
    /\ plan \in Document
    /\ ledger = NoLedger
    /\ judged = {}
    /\ raced = FALSE
    /\ local = [p \in Proc |-> Resting]

----------------------------------------------------------------------------
(* Plans and ledgers *)

\* findDependsCycle finds none: every set of tasks has one that depends on none
\* of the others.
Acyclic(specs) ==
    \A ids \in SUBSET DOMAIN specs : ids # {} =>
        \E id \in ids : specs[id].depends \cap ids = {}

\* Mutated form: cycles among the tasks are not looked for.
ValidWithCycles(specs) ==
    /\ \A id \in DOMAIN specs : specs[id].depends \subseteq DOMAIN specs
    /\ DOMAIN specs = {} => EmptyPlanAllowed

\* validateTaskSpecs, as far as it looks at the tasks themselves.
Valid(specs) ==
    /\ \A id \in DOMAIN specs : specs[id].depends \subseteq DOMAIN specs
    /\ Acyclic(specs)
    /\ DOMAIN specs = {} => EmptyPlanAllowed

Done(tasks) == {id \in DOMAIN tasks : tasks[id].done}

Pending(tasks) == DOMAIN tasks \ Done(tasks)

\* Mutated form: a mark is carried by the task's id alone.
BuildLedgerById(specs, prev) ==
    [id \in DOMAIN specs |->
        [verify |-> specs[id].verify, depends |-> specs[id].depends,
         done |-> prev # NoLedger /\ id \in Done(prev)]]

\* Mutated form: a new ledger starts with everything pending.
BuildLedgerAfresh(specs, prev) ==
    [id \in DOMAIN specs |->
        [verify |-> specs[id].verify, depends |-> specs[id].depends, done |-> FALSE]]

\* buildLedger: a done task stays done as long as its command is the same.
BuildLedger(specs, prev) ==
    [id \in DOMAIN specs |->
        [verify |-> specs[id].verify, depends |-> specs[id].depends,
         done |-> /\ prev # NoLedger
                  /\ id \in Done(prev)
                  /\ prev[id].verify = specs[id].verify]]

NextStages(stage) ==
    {Stages[i + 1] : i \in {j \in DOMAIN Stages :
        j + 1 \in DOMAIN Stages /\ Stages[j] = stage}}

EarlierStages(stage) ==
    {Stages[i] : i \in {j \in DOMAIN Stages :
        \E k \in DOMAIN Stages : j < k /\ Stages[k] = stage}}

----------------------------------------------------------------------------

Begin(p, l) == local' = [local EXCEPT ![p] = l]

Return(p) == local' = [local EXCEPT ![p] = Resting]

Goto(p, where) == local' = [local EXCEPT ![p].pc = where]

OnlyLocal == UNCHANGED <<cursor, plan, ledger, judged, raced>>

\* writeTaskLedger: temp file and rename, whatever is there by now.
WriteTaskLedger(p, tasks) ==
    /\ ledger' = tasks
    /\ raced' = (raced \/ ledger # local[p].read)

----------------------------------------------------------------------------
(* The build-plan gate, run by `ocn check` or as part of an advance *)

GateStart(p) ==
    /\ local[p].pc = "idle"
    /\ Begin(p, [Resting EXCEPT !.pc = "gate", !.cmd = "gate"])
    /\ OnlyLocal

\* A gate that passes ends `ocn check`, and takes an advance to its guard.
AfterGate(l) ==
    IF l.cmd = "advance"
    THEN [l EXCEPT !.pc = "guard", !.specs = NoSpecs, !.read = NoLedger]
    ELSE Resting

\* runGate reads state.json; taskStepOrNull concerns step_build_plan alone.
GateRead(p) ==
    /\ local[p].pc = "gate"
    /\ Begin(p, IF cursor = "buildPlan" THEN [local[p] EXCEPT !.pc = "parse"]
                                       ELSE AfterGate(local[p]))
    /\ OnlyLocal

\* The document is read, parsed and validated ...
GateParse(p) ==
    /\ local[p].pc = "parse"
    /\ Valid(plan)
    /\ local' = [local EXCEPT ![p].pc = "carry", ![p].specs = plan]
    /\ OnlyLocal

\* ... then the previous ledger is read ...
GateCarry(p) ==
    /\ local[p].pc = "carry"
    /\ local' = [local EXCEPT ![p].pc = "freeze", ![p].read = ledger]
    /\ OnlyLocal

\* ... and the new one written.  The readiness and contract steps that follow
\* may still block the gate (GiveUp), with the ledger written already.
GateFreeze(p) ==
    /\ local[p].pc = "freeze"
    /\ WriteTaskLedger(p, BuildLedger(local[p].specs, local[p].read))
    /\ Begin(p, AfterGate(local[p]))
    /\ UNCHANGED <<cursor, plan, judged>>

----------------------------------------------------------------------------
(* ocn advance *)

AdvanceStart(p) ==
    /\ local[p].pc = "idle"
    /\ \E next \in NextStages(cursor) :
          Begin(p, [Resting EXCEPT !.pc = "gate", !.cmd = "advance",
                                   !.from = cursor, !.next = next])
    /\ OnlyLocal

\* Mutated form: only a missing ledger stops an advance.
TaskLedgerGuardPassesPending(p) ==
    /\ local[p].pc = "guard"
    /\ local[p].from = "build" => ledger # NoLedger
    /\ local' = [local EXCEPT ![p].pc = "move", ![p].read = ledger]
    /\ OnlyLocal

\* taskLedgerGuardOrNull; a missing ledger lets the advance pass.
TaskLedgerGuard(p) ==
    /\ local[p].pc = "guard"
    /\ local[p].from = "build" /\ ledger # NoLedger => Pending(ledger) = {}
    /\ local' = [local EXCEPT ![p].pc = "move", ![p].read = ledger]
    /\ OnlyLocal

\* applyAdvanceTransition under the lock, if the cursor is where it was.
Move(p) ==
    /\ local[p].pc = "move"
    /\ cursor = local[p].from
    /\ cursor' = local[p].next
    /\ Return(p)
    /\ UNCHANGED <<plan, ledger, judged, raced>>

----------------------------------------------------------------------------
(* ocn task check *)

\* resolveTarget: a named task, done or not, or the first that is ready.
TaskCheckStart(p) ==
    /\ local[p].pc = "idle"
    /\ ledger # NoLedger
    /\ \E id \in DOMAIN ledger :
          Begin(p, [Resting EXCEPT !.pc = "drift", !.cmd = "task",
                                   !.read = ledger, !.target = id])
    /\ OnlyLocal

\* hasDrifted: the document still has this task with this command.
NotDrifted(p) ==
    /\ local[p].pc = "drift"
    /\ local[p].target \in DOMAIN plan
    /\ plan[local[p].target].verify = local[p].read[local[p].target].verify
    /\ Goto(p, "verify")
    /\ OnlyLocal

\* executeVerify runs the frozen command, for up to ten minutes; it exits 0.
VerifyPasses(p) ==
    /\ local[p].pc = "verify"
    /\ judged' = judged \cup
          {<<local[p].target, local[p].read[local[p].target].verify>>}
    /\ Goto(p, "record")
    /\ UNCHANGED <<cursor, plan, ledger, raced>>

\* recordDone writes the ledger it read before, with this one task marked.
RecordDone(p) ==
    /\ local[p].pc = "record"
    /\ WriteTaskLedger(p, [local[p].read EXCEPT ![local[p].target].done = TRUE])
    /\ Return(p)
    /\ UNCHANGED <<cursor, plan, judged>>

----------------------------------------------------------------------------

\* A refusal, a failing command, a file that cannot be read or written, or the
\* death of the process: what has been written stays, the rest is forgotten.
GiveUp(p) ==
    /\ local[p].pc # "idle"
    /\ Return(p)
    /\ OnlyLocal

\* The build plan is edited by people and agents at any time.
EditPlan ==
    /\ plan' \in Document
    /\ UNCHANGED <<cursor, ledger, judged, raced, local>>

Rewind ==
    /\ cursor' \in EarlierStages(cursor)
    /\ UNCHANGED <<plan, ledger, judged, raced, local>>

\* cycleNew archives the ledger with the round and resets the cursor.
CycleNew ==
    /\ cursor' = "earlier"
    /\ ledger' = NoLedger
    /\ UNCHANGED <<plan, judged, raced, local>>

Next ==
    \/ \E p \in Proc :
          \/ GateStart(p) \/ GateRead(p) \/ GateParse(p) \/ GateCarry(p)
          \/ GateFreeze(p)
          \/ AdvanceStart(p) \/ TaskLedgerGuard(p) \/ Move(p)
          \/ TaskCheckStart(p) \/ NotDrifted(p) \/ VerifyPasses(p) \/ RecordDone(p)
          \/ GiveUp(p)
    \/ EditPlan
    \/ Rewind
    \/ CycleNew

Spec == Init /\ [][Next]_vars

----------------------------------------------------------------------------
(* Properties *)

\* Every task that a ledger calls done has had the very command that the ledger
\* freezes for it exit 0, whatever was edited, re-gated or overwritten since.
DoneWasJudged ==
    ledger # NoLedger =>
        \A id \in Done(ledger) : <<id, ledger[id].verify>> \in judged

\* Dispatch never deadlocks: while tasks are pending, one of them has all its
\* dependencies done, so `ocn task check` without an id finds a task.
ReadyTaskExists ==
    ledger # NoLedger /\ Pending(ledger) # {} =>
        \E id \in Pending(ledger) : ledger[id].depends \subseteq Done(ledger)

\* An advance out of a BUILD step has seen a ledger all of whose tasks had been
\* run to exit 0, or no ledger at all.
BuildLeftJudged ==
    \A p \in Proc :
        LET l == local[p]
        IN  l.pc = "move" /\ l.from = "build" /\ l.read # NoLedger =>
              \A id \in DOMAIN l.read : <<id, l.read[id].verify>> \in judged

\* No step takes the mark off a task whose command stays the same.
MarksKept ==
    ledger # NoLedger /\ ledger' # NoLedger =>
        \A id \in Done(ledger) \cap DOMAIN ledger' :
            ledger'[id].verify = ledger[id].verify => ledger'[id].done

\* A task marked done stays done through re-gating and checks until its command
\* changes, as the proposal of the task backbone promises, with one exception.
\* Only a write that replaces a ledger its writer has not read loses a mark:
\* regenerating the ledger and marking tasks lose none by themselves.
DoneStaysDoneUnlessRaced == [][raced' \/ MarksKept]_vars
==============================================================================
