# A TLA+ model of the OCN engine

OCN keeps a software project on a fixed path of steps: a cursor in
`.ocoding/state.json` stands at one step of a pinned SOP profile, a gate judges
the step's document, and commands move the cursor.  The commands are short-lived
processes (a person's terminal, a coding agent, hooks) and a long-lived MCP
server; they share nothing but the files under `.ocoding/` and `docs/`.  Two
things are hard about it.  One is the file protocol: what one process reads,
decides and writes while others do the same, and what is left when one of them
dies.  The other is its decision tables, which different parts of the code hold
in different forms and which have to agree.

The modules here model both from `src/src/core`, TLC checks them on small
instances, and TLAPS proves the invariants of the protocols for all instances and
the agreements of the decisions for all inputs.

## 1. Inventory

| component (src/src/core) | state it keeps | operations | what is hard | what makes it correct |
|---|---|---|---|---|
| store lock (`state/lock.ts`) | `.ocoding/.lock`: pid, createdAt | acquire, reclaim when stale, time out, release | every file call interleaves; owners die or pause; several calls share one pid | one critical section at a time; no file left behind; every call returns; a dead owner's lock is reclaimed |
| state store (`state/state-store.ts`) | `state.json`, `.bak` | read, write by rename | read-decide-write across processes | no update lost |
| workflow commands (`advance/`, `rewind/`, `cycle/`, `stop/`, `sop/upgrade.ts`, `init.ts`) | cursor, pin, stoppedAt, snapshots, archive of rounds | init, advance, rewind, cycle new, stop, sop upgrade | decisions are made before the lock and re-checked only in part inside it; crashes between files | cursor in the pinned profile; gates not bypassed; snapshots, pin and rounds agree |
| SOP profiles (`sop/`, `state-machine/`, `src/src/sops`) | none (data) | next step, resolve by pin, validate an upgrade | versions insert steps, move them between states and renumber documents | an upgrade keeps the project where it is |
| gate runner (`gate/`) | writes projections | document, acceptance, logic, task, reflect, readiness, contract, ship guards, in this order | projections are written before later guards may block; `ocn check` and read-only gates repeat a part of it | a pass means every guard passed; no caller passes what another refuses |
| task backbone (`task/`, `advance/task-ledger-guard.ts`) | `task-ledger.json` | freeze by the gate, `task check`, guard on advance | written whole from a copy up to ten minutes old, without the lock | no unearned mark; no dispatch deadlock; BUILD left on a judged ledger |
| acceptance (`acceptance/`) | `acceptance-specs.json` | freeze, choose frozen or current | stale projection | a trace names a criterion that exists |
| outcome backbone (`outcome/`, `advance/outcome-ledger-guard.ts`) | `outcome-ledger.json`, its events in the audit log | freeze contract, measure, waive, reconcile, guard | audit first, ledger second; freezes read outside the lock | history matches the audit log; a crash is not taken for tampering |
| automation (`automation/`, `advance/advance-automation.ts`) | the grant in `config.yaml`, the breaker in `automation-runtime.json` | authorize, record a failure, clear, switch on, off, resume | both are read once before a gate that runs for minutes, and the breaker is written back from that reading without a lock | agents act as granted; a suspension lasts; the breaker trips on earned failures, and at last |
| readiness (`readiness/`, `gate/readiness-gate.ts`) | `readiness-frozen.json`, waivers, the drift events of the audit log | freeze, audit a drift, judge every rule, waive | gates and waives take no lock; deadlines of rules over versions and tiers | the commands that judge are accounted for; no rule is slipped past, nor enforced before it can be met |
| contract (`contract/`) | `contract-graph.json` | extract calls, compare with the declared API | a call is text that is partly computed | a declared call never blocks |
| logic (`logic/`, `gate/logic-backbone-*`) | `logic-graph.json` | validate, project, order for `ocn brief` | two traversals of one graph, apart from each other | what the gate passes can be put in an order |
| execution navigator (`execution-navigator/`) | none | read git and GitHub, map evidence to criteria, draft a verdict, assemble the next prompt | readings fail one by one; rule order | a verdict never exceeds the evidence; a prompt never sends an agent in circles |
| audit (`audit/`) | `.jsonl`, one file per day | append | failures are swallowed | one event per step taken |
| agent integration (`agent-setup/`, `agent-hooks/`) | `.claude/`, CLAUDE.md block | install, remove, hook answers | files the user edits too; four of them, one after the other, without a lock | stop removes what setup installed and nothing else |
| parsers, templates, views, log, path containment, CLI, MCP | none | text and file access | — | not state machines |

Interaction.  An advance reads the grant and the breaker when an agent runs it,
calls the gate (which reads `state.json` again and may write the projections, the
ledgers and the readiness snapshot), then the task and outcome guards, then takes
the lock, reads `state.json` once more, compares the cursor and writes; after the
lock it clears the breaker.  Rewind, cycle, stop and upgrade have the same shape
without the gate.  The task ledger, the acceptance projection, the readiness
files and the automation runtime are written outside the lock; the outcome ledger
is written inside it.  Nothing notifies anybody: all communication is by
re-reading files.

`PROJECT.json` lists these components with their status, and the hazards with
the lines where they bite.

## 2. Modules

    Mutex          what the lock promises
    StoreLock      the protocol on the lock file               -> implements Mutex
    Workflow       the commands on state.json                  -> relies on Mutex
    TaskLedger     the task backbone
    OutcomeLedger  the outcome backbone and its audit log      -> relies on StoreLock
    Automation     the grant and the circuit breaker
    Readiness      the readiness gate and its waivers

    Profiles       the bundled versions, pins and upgrades
    ReadinessRules the rulebook, deadlines and judgement       extends Profiles
    Gates          the guards of a gate and of `ocn check`     extends ReadinessRules
    LogicBackbone  the logic graph: gate and brief
    ContractDrift  declared endpoints against extracted calls
    Navigator      readings, evidence, verdict
    NextPrompt     the next prompt and what it dispatches
    AgentWiring    `ocn agent setup` and its teardown
    MCDecisions    asks the eight above every bounded question
    SequenceParts  what of an array a filter keeps; used by LogicBackbone, AgentWiring

    *Proofs        theorems about the module they are named for; DecisionProofs
                   is about MCDecisions and the modules it asks
    MC*            the instances that TLC checks

The first group are protocols: state, and one action for what a process does
between two file accesses.  The second group are decisions: operators of what a
command has read, without state of their own.

**Mutex** is the abstract lock: at most one caller inside; leaving is by release
or by death, and the death of a process takes out all the calls it serves.

**StoreLock** has one action for each `await` of `acquireLock`, `releaseLock` and
`withLock`: create (`wx`), write the text, read, judge (`isProcessAlive` is asked
then, about the pid read before), unlink, sleep, and again read and unlink on
release.  The file keeps its creator, whether its text is there, and whether its
age passes the stale threshold; `readLockFile` yields nothing for a file without
text.  A pid is a process that may serve several callers.  `stolen` is a history
variable: a file was unlinked while the caller that created it relied on it.

**Workflow** has the cursor, the pin and the stop mark of `state.json`, the set
of versions that the snapshot files render, the archived `state.json` of each
round, and one boolean for the agent wiring.  Each process holds what the command
holds in its local variables: the cursor it read, the profile it resolved, the
target, and the state as re-read in the lock.  The actions of a command are its
steps between two file accesses; `StillApplies` is the re-check, which differs
from command to command as it does in the code.  The lock is Mutex's, plus the
fact that a dead owner's lock can be had.  That a process loses its memory at any
point is `Crash`; that a file operation in the critical section fails is
`IoFails`.  A command that refuses at once without writing has no action.

**TaskLedger** has the stage of the cursor, the task section of the build plan,
the ledger, and two history variables: the tasks and commands that have exited 0,
and whether a write has replaced a ledger its writer had not read.  The gate is
read state / parse and validate / read previous ledger / write; a task check is
read and resolve / compare with the document / run / write; the guard is one
reading.  Moves of the cursor are atomic here, since Workflow has their
interleavings; so is the archiving of the ledger, which is one rename.  A crash, a
refusal and a failing write all leave what was written and forget the rest
(`GiveUp`).

**OutcomeLedger** has the outcome criteria of docs/03, whether the pin knows of
outcomes, the acceptance projection, the ledger, the audit log and the lock.  Of
the log it keeps the two kinds of events that `outcome-integrity.ts` looks at;
hashes and ULIDs are places in the log, so that the chain of `prevEventHash` is a
field `prev` and a measurement is known by the place of its event.  Of a
projection only the one of version 1 counts, which hides the outcome criteria of
the section it has the hash of; one of version 2 says what docs/03 says.  The
gate is write projection / read ledger / freeze; a check is resolve / read the
ledger / compare it with the log and probe / lock and read / append the event /
rename the ledger; a cycle is archive the projection / archive the ledger /
release / append its event, or a failure that appends the same event; an upgrade
is seed / move the pin.  The gate of the SHIP step is read docs/03 / read the ledger
/ read the ledger again, in the reconciliation / compare that reading with the log:
it judges the entries of the first reading (`read`) and reconciles the second
(`again`).  `Alarm` and `Drifted` are the breaches of `reconcileLedgerWithAudit`: what
is drift is decided by the second reading and what is tampering by the log besides.
`ShipGatePasses` is the place before the gate's last return with nothing found.  `stale` is a history variable: a gate froze from a ledger that
had changed since it read it, or a check filed a measurement by another command
than the frozen one.

**Automation** has the cursor, the `automation:` block of `config.yaml` with the
form it is written in (the splice replaces a block, appends behind one written on
one line, and the file then no longer loads), the runtime with its counter, and as
history the failures of agents at each step.  An agent's command is read state /
read the grant / read the breaker / gate, probe or nothing / move / clear; a
failing gate writes the count it read before the gate, and one.  The switch
(`ocn auto on | off | resume`) holds the lock over its two writes.  `overtaken`
marks the commands that were under way when somebody wrote what they had read; the
properties except them by name.  People's own advances, edits of `config.yaml`,
rewinds and new rounds interleave with all of it.

**Readiness** has the cursor, the commands in `config.yaml`, the snapshot of them,
the commands the audit trail accounts for, the waivers, and as history the
commands that have judged and the rules met at each step.  A gate is read state /
read commands / read snapshot / audit a change / move the snapshot / read waivers /
judge / go on; a waive is probe / read / write.  What a rule comes to when it is
looked at is any outcome; ReadinessRules says how it is computed.

**Profiles** has, of every bundled version, the steps of each state, the document
of each step, its required sections and the sections the engine parses; the
comparison of versions, what a pin resolves to, and `ValidateUpgrade`.
**ReadinessRules** adds the rulebook of 0.4.0 and 0.7.0 with the inputs each rule
names, the step at which a rule falls due at each tier, the linter's classes, and
the judgement of one rule in a world of facts (what a command, the tests, a README
and a waiver are found to be).  **Gates** adds the guards with their codes and
their writes, in the order of `gate-runner.ts`, and `ocn check` beside it.

**LogicBackbone** has the gate's verdict on cycles and dead ends, and the queue by which `ocn brief` orders the persisted graph: `Start` has the nodes
nothing drives, `Relax` takes one edge off an in-degree, `Pop` takes one node off
the queue, and `TopoOrder` repeats it until the queue is empty.  `Cycles` is what the
depth-first search of `findCycle` finds, empty exactly when that returns nothing,
and not the search itself; a node without a role (`missing_role`), which the gate
refuses as well, is left out, so the model's gate lets through no less than the
code's.  **ContractDrift** has the declaration's validity, what the extractor makes of
a call whose path has interpolations or whose method is computed or hidden, and the
matching.  `IncludesBase` is the comparison of texts that decides whether the base
path is put before a call: the slash before, the slash after and the query of a path
count there, and `segments` drops them afterwards.  **Navigator** has the readings of git and `gh`
with each failure they map to a value, the evidence map, the verify status and the
rules of the verdict draft in their order.  **NextPrompt** has the situations of
`ocn next` and the dispatch of a task or of outcomes.  **AgentWiring** has
`settings.json` by its hook groups and its environment, CLAUDE.md by its lines, and
what setup and teardown make of the first so many of their four files.
**MCDecisions** has one
variable, the question asked, and one action per kind of question; a property
says of a question that the answers to it agree.

A loop of the code is a recursive function here, and a filter the operator `Only` of
SequenceParts, since the provers can reason about both; `CASE` is used where its
arms exclude each other, and a chain of early returns is a chain of `IF`.

Definitions whose comment begins "Mutated form" are the same definition with one
plausible bug.  No specification uses them: each property is run once with such
a form in place of the original, to see that it notices.

## 3. What the runs check

| run | instance | result |
|---|---|---|
| `lock_safety` | 3 callers in 3 processes, crashes, failing writes and unlinks, 1 sleep | two callers are inside together only after a file was stolen; until then StoreLock implements Mutex |
| `lock_live` | 3 callers, two of them in one process, file operations succeed | no file outlives its use, every call returns, a dead owner's written lock is reclaimed |
| `lock_reclaim_race` | as `lock_safety` | **violated**: two callers judge one stale file; the slower unlinks the faster's new file and both are inside |
| `commands_crash` | 2 processes, all commands, crashes and failures, 2 versions, 1 archived round | no command overwrites a state it has not re-read |
| `commands_one_pin` | 2 processes, no upgrade, crash or failure, 2 versions to choose from at init, 2 archived rounds | the cursor is in the profile, an advance goes to the step that follows, snapshots render the pin, rounds continue one another, racing cycles share no directory |
| `commands_live` | 2 processes, no rewind or cycle, crashes and failures | every command returns or dies; an advance leaves a step only on the verdict of that step's gate |
| `tasks_safety` | 2 processes, 2 tasks, 2 commands, 4 documents (none, one task, a chain, a cycle) | no unearned mark, no dispatch deadlock, BUILD left on a judged ledger, marks lost to racing writes only |
| `outcome_safety` | 2 processes, 1 criterion, 2 commands, 2 measurements, 1 cycle_started | the log vouches for the ledger, the chain neither forks nor breaks, tampering is reported only across rounds, history is lost or misjudged by stale writes only, what ships is backed whatever is written between the gate's readings |
| `automation` | 2 processes, a build plan and a BUILD step, threshold 2, 4 forms of the block | agents that nothing overtook act as granted; off leaves nothing more; trips are earned, last, and come at last |
| `readiness` | 2 processes, 2 rules due at different steps, 2 commands, waivers of both | what judges is on the trail, no due rule is slipped past, waivers are lost to an overtaken waive only |
| `decisions` | 1.7 million questions | see below |
| `contract_false_closed` | as `decisions` | **violated**: a call whose options hide its method (`fetch('/api', opts)`) counts as a certain GET, and blocks though the POST it makes is declared; a call whose interpolation stands for a literal segment does as well |

The properties of `decisions` each relate two places in the code that decide by
themselves: an upgrade and the two profiles it is between
(`UpgradesKeepThePlace`); the deadline of a rule and the documents that can answer
it, for every rule, step, version and tier (`RulesDueWithTheirInputs`); the gate,
its read-only form and `ocn check` (`GatesAgree`); a gate and the projections that
later steps read (`GatesProject`); the logic gate's search and the brief's order
(`GraphsOrderThemselves`); the extractor's confidence and the validator's matching
(`DeclaredCallsPass`); a verdict and the readings behind all the steps that led to
it (`MergesAreBacked`); the dispatch of tasks, that of outcomes and what a gate
will refuse (`PromptsLeadOn`); setup, teardown, and both begun again after stopping
half-way (`WiringsComeOff`).

The violated runs are disagreements of the code with its own documents or
comments; `PROJECT.json` quotes the lines under "findings".

Type invariants.  `TypeOK` of every protocol module is proved, for every value of
the constants, instead of being run.

Bounds. Three callers are what the reclaim race needs at most (a dead owner,
two that judge), and leave a fourth nothing new to do. `MaxRetries` bounds the
sleeps of one call; time itself is nondeterministic, so one sleep shows every
order of a retry with the others' steps, and `lock_live` needs none (a retry
that is not bounded shows as a call that never returns). Two processes are
enough for a stale read against any sequence of commands of the other, since a
process runs any number of commands. The profiles of Workflow are three or four
steps long and have the two differences that bundled versions have: a step moves
to another state (0.1.0 to 0.2.0), a step is inserted (as in 0.3.0). `MaxRounds`
bounds the archive, whose rounds are otherwise alike. Two tasks are enough for
a dependency, a cycle and two marks. `MaxMeasured` is two and `MaxStarted`
one: a fork of the chain needs two measurements, the shortest alarm a
cycle_started between two; one criterion is enough since entries meet only in
the chain, which two measurements of one criterion share as well.
`MaxReading` is one: a check before its probe and a SHIP gate only read, so two of
them at once cannot meet, and the other process writes whatever can come between the
readings of one.
A threshold of two has a failure that does not trip and one that does; two steps
have a failure that counts and one that starts over, and lie in the two phases
that grants tell apart. Two rules have one deferred at a step where the other is
due. Symmetry of the processes, the tasks' commands and the like is used in runs
without liveness properties only.

In `decisions` the versions, steps, rules, cursors and tiers are all there are, and
the pins have one that no version has (0.6.0) and one of the future besides. A
step's gate is asked over all combinations of the facts it looks at, with three
rules that stand for the three kinds of evidence; every rule is asked at the gate
of the verdict. Graphs have up to three nodes and three edges, enough for a cycle
of every length up to three beside or through a dead end and a dangling edge;
contract paths have two segments, with and without a slash before and after and a
query, literal or computed, and an interpolation stands for up to two; the base path
is `/api`. A
navigator's project differs from one with everything in order in up to three
facts, in each mode: a wrong verdict needs one signal that is overlooked and at
most two that lead past the rules before it. A prompt's project has two tasks,
which may depend on a third that is not there, and one outcome.  A hook event has
up to two groups, so that one of OCN's stands before or after one of the user's.

`CHECK_DEADLOCK FALSE` is said of the lock and the commands because all processes
may be dead there, and of `decisions` because each question is asked once.

Fairness.  `FairSpec` of StoreLock and of Workflow is weak fairness of each
running call or command by itself: once started, Node's event loop resumes it
after every `await`, and each `await` is a file operation, a sleep or a process
probe that settles.  Nothing is assumed about starting a command, about dying, or
about the passing of thirty seconds; `HeldLockReclaimed` adds to its premise that
somebody keeps asking for the lock.  `CallReturns` is checked with unlinks that
succeed: the reclaim branch (`lock.ts:179`) starts over without looking at the
time, so with a stale file that cannot be unlinked it does not hold.
`BreakerStopsFailing` needs no fairness: it says of a behaviour in which agents'
gates fail for ever that somebody resets, clears or moves for ever.

### Limits of the properties

Several properties are stated for what the code holds, which is less than one may
expect of it.  What is excepted, and what happens there:

* **Upgrades.** `CursorInProfile`, `AdvanceFollowsPin` and `SnapshotMatchesPin` are
  checked without upgrades, because one between the first reading and the lock
  breaks each of them: an advance in flight writes a step of the old profile
  under the new pin, or goes past an inserted step (`advance-transition.ts:62`),
  and a cycle renders the old snapshots under the new pin (`cycle-new.ts:130`).
  `SnapshotMatchesPin` is also checked without failures: a failing seed leaves new
  snapshots under the old pin until the upgrade is run again.
  `UpgradesKeepThePlace` asks for the documents behind the cursor from 0.3.0 on
  only, since 0.2.0 to 0.3.0 renumbers them, and of pins that no version has it
  takes those from 0.3.0 on: one below, such as 0.1.5, resolves to the newest
  profile and may then "upgrade" to 0.2.0, where the project's step lies elsewhere
  (no release has written such a pin).  A criterion that an upgrade has
  frozen cannot be measured while an acceptance projection of version 1 still
  matches docs/03, until the acceptance gate has run.
* **Stops and gates.** An advance in flight moves a project that has just been
  stopped, since the re-check compares the cursor alone
  (`advance-transition.ts:53`).  `GateBacked` is checked without rewinds: the gate
  reads `state.json` a second time (`advance-state.ts:127`), and with a rewind and
  an advance between the readings it judges another step than the one that is left.
* **Crashes.** `RoundContinues` and `ArchivesWhole` are checked without them: a cycle
  that dies after moving `state.json` away (`archive.ts:118`) leaves a project
  that `ocn init` pins anew.  `HeldLockReclaimed` is about written locks: a process
  that dies between creating the lock file and writing it, or whose write fails
  (`lock.ts:113`), leaves an empty file that no caller ever judges stale.
* **Task marks.** `DoneStaysDoneUnlessRaced` excepts racing writes because they do
  lose marks: of two task checks the later write erases the other's
  (`task-check.ts:145`).
* **Outcomes.** `AlarmOnlyAcrossRounds` says how far the reconciliation can be
  relied on, and across rounds it cannot: a cycle that fails appends
  `cycle_started` too, and one that succeeds appends it after it has released the
  lock, when a faster process may have frozen and measured already; either is then
  taken for tampering.  `HistoryAppendOnlyUnlessStale`, `RefereeUnlessStale` and a part
  of `ShipBacked` except what follows a stale write: the gate reads the ledger
  before the lock (`gate-artifact-steps.ts:74`), the check its contract before the
  probe (`outcome-ledger-store.ts:100`).  The SHIP gate judges one
  reading of the ledger (`outcome-ship-gate-step.ts:50`) and looks for drift in the
  next (`outcome-integrity.ts:110`): a criterion that is edited before the gate runs
  and frozen anew between the two passes on the measurement of its old command, with
  nothing stale written.  `ShipBacked` excepts that by `SameContract`; there the log
  has the measurement as passed, of another command.  It is about frozen criteria;
  one that docs/03 has gained since the acceptance gate ran passes SHIP unmeasured.
* **Automation.** The grant and the breaker are not looked at again after the gate
  (`advance-automation.ts:39`), so `AgentActsGranted` and `SuspensionLasts` except
  overtaken commands: an agent may advance after `ocn auto off` has returned, and
  its clearing of the counter may undo another agent's suspension
  (`advance-automation.ts:118`).  The counter is cleared only once the advance is
  written: a gate that passes and an advance that a guard then refuses leave it, so
  failures that trip it need not be consecutive gates (`circuit-breaker.ts:4`,
  `advance-automation.ts:110` say otherwise).
* **Readiness.** Deleting or breaking `readiness-frozen.json` makes the next gate
  freeze what it finds, without an event; `RefereeAudited` is about the commands of
  a round, not about that file's own integrity.  A rewind into the state a waiver
  was granted in brings it back into force (`waive.ts:17` has it expire when the
  project leaves that state).  `RulesDueWithTheirInputs` is about rules whose deadline can be resolved;
  above the solo tier some have none and are enforced from the first step on,
  and two of them (change_manager, test_automation_engineer) check a field that the
  evaluator never derives and so always answers UNKNOWN, which blocks.  A pin that names no version, such as
  0.6.0, resolves to the newest profile.
* **Gates.** `GatesAgree` goes one way, from the gate to the check: `ocn check` leaves
  out the acceptance, logic, task, reflect and ship guards.  A gate at a step its
  profile does not know passes as not applicable, where the check blocks.  A gate is
  documented as a pure read (`gate-runner.ts:64`) and writes projections and
  ledgers.  An empty logic graph passes; a report needs one reference per criterion.
* **Contract.** `DeclaredCallsPass` is about interpolations that stand where the
  endpoint has its parameters; `contract_false_closed` shows that others may block.
  It excepts two kinds of calls that do block although their request is declared.
  Options that are a variable, or have the method as a shorthand or in a spread, are
  taken for options without a method (`frontend-call-extractor.ts:67`,
  `frontend-call-extractor.ts:69`), so the call is a certain GET
  (`contract_false_closed` has it in its trace).  And the base path is looked for in
  the text of a call before the query is dropped (`contract-drift.ts:60`): with base
  `/api` the calls `/api?x=1` and `api/users` become `/api/api` and
  `/api/api/users`.  `BaseInText` names these; both properties except them.  URLs
  with a scheme and host are not in the model.
* **Navigator.** `MergesAreBacked` asks for one covered criterion, or none without a
  candidate, unless the draft is sure of itself, since that is what the rules give;
  `README.md:511` has "acceptance covered" among the signals.  A `git status` that
  fails reads as a clean tree.  Of the checks of a pull request it speaks of those
  with a name (`Listed`): `parsePrChecks` drops the others, commit statuses among
  them, unnoticed (`github-pr-parse.ts:179`), so one that failed or is pending leaves
  the summary at success.  What stands between it and the merge rule is GitHub's own
  `mergeStateStatus`, which the rule wants CLEAN.
* **Wiring.** `WiringsComeOff` counts a group of a user's in which a command mentions
  `ocn hook` as OCN's: setup leaves it, and teardown removes the whole group
  (`settings-merge.ts:112`).  Setup and a stop at the same time each write the
  settings they have read, without a lock, and teardown writes in place
  (`teardown.ts:52`, `teardown.ts:72`), where a crash may truncate.
* **Prompt.** With `--issue` in BUILD the objective is the issue while the allowed work
  and the stop condition stay those of the dispatched task, and a review prompt
  carries the task's stop condition; `PromptsLeadOn` is about the dispatch alone.

## 4. What is proved

For every value of the constants that satisfies the named assumptions:

* `StoreLockProofs`: `TypeCorrect`; `ExclusionUnlessStolen`: mutual exclusion
  holds as long as nothing was stolen; `LockFileImplementsMutex`: so does the
  refinement of Mutex; `NothingStolenWhenCalm` and `CalmMutualExclusion`: with
  one reclaiming caller, and no pause beyond the stale threshold, nothing is
  ever stolen and the lock is a mutex; `NothingLeaks`: while file operations
  succeed no lock file outlives its use.  The inductive invariant `Owned` says that
  whoever relies on the lock created the file that is there; `CalmInv` adds that
  a copy judged stale is still the dead owner's.  Mutual exclusion by itself is
  not inductive: it says nothing of who created the file, on which the next
  creation depends.
* `WorkflowProofs`: `TypeCorrect`; `CommandsAreMutuallyExclusive`: the critical
  sections run as Mutex says; `NothingOverwrittenUnseen`: a write replaces the
  state that was re-read.  The invariant `HoldsLock` ties each place inside a
  critical section to the lock, `Equipped` says which local variables are set at
  which place, and `Knows` that the state re-read is still the one on disk,
  which only the lock can justify.
* `WorkflowRoundProofs` stands on these and adds, as `Ground`, that the second
  reading agreed with the first (`Certain`) and that the target was found in the
  profile the command resolved (`Aimed`).  Then: `RoundsContinue` and
  `ArchivesAreWhole` while nobody dies inside a command and no file operation
  fails (invariant `Chronicle`, which follows the archive while it is being moved);
  `CursorStaysInProfile`, `AdvancesFollowThePin` and `SnapshotsMatchThePin` if
  besides the pin is not upgraded (invariant `Settled`: every pin a command holds
  is in force, so what it decided before the lock still holds in it);
  `AdvancesAreGated` where the cursor only goes forward, in profiles that name no
  step twice, crashes and failures included (invariant `Forward`: the cursor is
  not before the step a command read, so the gate's second reading can differ
  from the first only if the re-check will refuse).
* `TaskLedgerProofs`: `TypeCorrect`; `DoneOnlyByJudgement`;
  `DispatchNeverDeadlocks`; `BuildIsLeftJudged`; `MarksAreLostByRacesAlone`.  The
  invariant `Knowing` says of the ledger on disk, and of every copy a process
  holds, that its marks are earned and its dependencies acyclic.  The copies are
  why a stale write can lose a mark and never forge one.  Acyclicity is stated
  by sets (each set of tasks has one that depends on none of the others), so no
  recursion is needed: applied to the pending tasks it gives the next one.
* `OutcomeLedgerProofs`: `TypeCorrect`; `LogIsNeverBehind`; `ChainNeverForks`;
  `RefereeIsTheContract`; `HistoryIsAppendOnly`; `ShipIsBacked`;
  `AlarmsAreAboutRounds`.  The invariant `Vouching` says that whoever is between
  the lock and the rename has read the ledger that is there and the head of the
  chain that is there, that after its append the last measurement in the log is
  its own, and that every copy of a ledger, also one a gate or a reconciliation holds
  without the lock, has its measurements in the log; the log only grows, so a copy
  stays vouched for however old it is (`CopiesStay`).  `Refereeing` says the same of copies and
  their contracts while nothing stale was written.  Of a SHIP gate `Coherent` adds that
  what it judged was ready and that what it reconciled had not drifted, which
  `SameContract` carries over from the second reading to the first.  The last theorem follows from
  `Vouching`, of the ledger and of each copy a reconciliation is about to compare: the log has every measurement of the ledger, so the reconciliation
  can miss one only because it takes it for one of an earlier round than the
  head's, and then a `cycle_started` stands between the two.
* `AutomationProofs`: `TypeCorrect`; `OffLeavesNothingMore`; `TripsAreEarned`;
  `AgentsActAsGranted`; `SuspensionsLast`.  `Equipped` says what a command knows at
  each place, `Backed` that a count, the one on disk and every copy, has had as
  many failures at its step, and `Covered` that a command which nothing has
  overtaken is still permitted.  `Backed` of the copies is what makes overwritten
  counts harmless: a copy may be too low, never too high.
* `ReadinessProofs`: `TypeCorrect`; `RefereeIsAudited`; `NothingSlipsPast`;
  `WaiversAreKept`.  `Traced` says that the trail accounts for what a gate is about
  to judge with or to freeze, `Trail` the same of the files, `Fresh` that a waive
  which nothing has overtaken writes back what is in the file.

* `DecisionProofs` is about decisions instead of protocols, and its inputs take the
  place of constants.  Each of its nine theorems says two things: that the
  agreement holds of every input, of data of any length, and that it is an
  invariant of the specification that `decisions` checks (by `WellAsked`: the
  questions asked are inputs the first part is about).

  | theorem | about every | argument |
  |---|---|---|
  | `GatesAlwaysAgree`, `GatesAlwaysProject` | step of every version, all facts | the guards that `ocn check` repeats are among those a gate asks, in the same order; a projection is written before any guard that can follow it |
  | `MergesAreAlwaysBacked` | reading of git and `gh`, named and nameless checks | the rules before the merge rule have each refused |
  | `PromptsAlwaysLeadOn` | ledger whose tasks have distinct ids, of any length; any outcomes | the dispatched task is the first that is pending with its dependencies done |
  | `WiringsAlwaysComeOff` | settings and CLAUDE.md, of any number of hook groups and lines; after any of the four files | what setup adds is what teardown filters out, group by group and line by line |
  | `DeclaredCallsAlwaysPass` | contract and call, of any length and over any literals | a call that fills an endpoint's parameters matches it segment by segment, whatever the base path, as long as its text does not hide the one it has; a method in hidden options is excepted |
  | `GraphsAlwaysOrderThemselves` | logic graph, any sequences of nodes and edges | `Sorting`, an invariant of the queue: an in-degree counts the edges whose origin is not yet taken off, the queue has the nodes with none left, and each node enters it once; nodes left over would lie on a cycle, which the gate's search finds |
  | `UpgradesAlwaysKeepThePlace` | bundled version or pin from 0.3.0 on (`Pins`), any target, any cursor | all versions list their steps in the order of one common `Rank`, so what is before the cursor in one is before it in the other (`NothingSkipped`), and from 0.3.0 on they name the document of a step alike |
  | `RulesAreAlwaysDueWithTheirInputs` | rule, of the book or not, in every version; the whole book at every step and tier | a document is written from its step on, so the inputs a rule can be asked for only grow; `DueStep` is the latest of their places, hence enforced there and not before |

  The hypotheses are what the code ensures before the decision is taken: the
  validators reject a ledger with two tasks of one id, a cursor is looked up in the
  profile it is resolved by, and the rest are the types of the data.  Where code loops,
  the proofs need induction, and the library's theorems for it take an operator.
  `LeastNatural` and `CountingUp` get it from a set instead (a set of naturals has a
  least element), and `RecursionExists` says that the recursive functions the
  modules are written with are there.

Model-checked only: `CallReturns`, `HeldLockReclaimed`, `CommandReturns` and
`BreakerStopsFailing`.  They are liveness, which rests on fairness and `ENABLED` and
is beyond the prover.  Every other property of a passing run is stated by a
theorem.  The two that are expected to be violated, of the runs
`lock_reclaim_race` and `contract_false_closed`, are there to be refuted.

## 5. What is left

1. Composition: Workflow with TaskLedger and Automation, so that the guard's
   reading, the grant's and the move of the cursor are those of one advance.
   Each module has its own moves today, atomic except in Workflow.
2. Agent integration: setup and stop at the same time, step by step, and the
   hooks' answers.
3. Acceptance: parsing and validating the criteria, and the traces that name them.
4. `detect-version`, which guesses a version from the documents there are.

## 6. Not modelled, and why

A reused pid (it delays reclaiming to a time-out and needs a second life of a
pid); the contents of documents beyond what a property tells apart, and so the
parsers, which recognise headings and blocks by regular expressions; the audit
events of each command other than those of measurements, cycles and drift (best
effort, they change no other state); the value, threshold and evidence of a
measurement, which the log and the ledger repeat alike; states other than SHIP
at which an outcome falls due, in OutcomeLedger; the partial states of the agent
wiring beside the other commands, where it is one boolean; `state.json.bak`,
which is never read back by the program; the walk over source files and
TypeScript's syntax tree in the contract scan; the confidence of single items of
the evidence map, which no command reads; templates, wording and rendering of
reports, prompts, status and brief; path containment, a predicate on paths
without state; CLI and MCP plumbing, except that one MCP process serves several
calls (`PidOf` of StoreLock).
