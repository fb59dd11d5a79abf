------------------------------ MODULE Workflow ------------------------------
(***************************************************************************)
(* The project's cursor and the commands that move it (src/core/advance,    *)
(* rewind, cycle, stop, sop/upgrade.ts, init.ts) over `.ocoding/state.json`.*)
(*                                                                          *)
(* Every command has the same shape: it reads state.json without the lock,  *)
(* decides on what it read, takes `.ocoding/.lock`, reads state.json again, *)
(* gives up if the cursor has moved, writes, and releases.  Commands of     *)
(* several processes interleave at every file access, and a process may die *)
(* at any of them.  The lock is the abstract one of module Mutex: held, or  *)
(* free, or left behind by a process that died, when it is reclaimed.       *)
(*                                                                          *)
(* A refusal that writes nothing (not initialized, stopped, target not      *)
(* earlier, unknown version) is a stuttering step and has no action.  Audit *)
(* records, the ledgers and the grants of automatic mode belong to other    *)
(* modules; here a gate or a guard passes or blocks.                        *)
(***************************************************************************)
EXTENDS Naturals, Sequences, FiniteSets

CONSTANTS
    Proc,          \* the ocn processes: terminals, agents, the MCP server
    Version,       \* the bundled SOP versions, numbered in semver order
    StepsOf,       \* each version's locations in declaration order
    Start,         \* where `ocn init` puts the cursor
    Command,       \* the commands issued, a subset of CommandName
    CanCrash,      \* may a process die inside a command?
    IoCanFail,     \* may a file operation inside the lock, or a teardown, fail?
    MaxRounds,     \* bound: how many rounds are archived
    NoState,       \* state.json is absent
    NoVersion,
    NoLocation,
    Nobody

CommandName == {"init", "advance", "rewind", "cycle", "stop", "upgrade", "setup"}

Location == UNION {{StepsOf[v][i] : i \in DOMAIN StepsOf[v]} : v \in Version}

ProjectState == [cursor : Location, pin : Version, stopped : BOOLEAN]

ASSUME WorkflowAssumption ==
    /\ Version \subseteq Nat
    /\ \A v \in Version :
        /\ StepsOf[v] \in Seq(Location) /\ StepsOf[v] # <<>>
        /\ StepsOf[v][1] = Start
    /\ Command \subseteq CommandName
    /\ CanCrash \in BOOLEAN
    /\ IoCanFail \in BOOLEAN
    /\ MaxRounds \in Nat
    /\ NoState \notin ProjectState
    /\ NoVersion \notin Version
    /\ NoLocation \notin Location
    /\ Nobody \notin Proc

VARIABLES
    state,         \* state.json
    snapshot,      \* the versions that sop.yaml, gates.yaml and the others render
    archive,       \* .ocoding/cycles: the state.json of each archived round
    wired,         \* is the agent integration installed?
    lock,          \* who holds .ocoding/.lock
    local          \* what each process keeps in memory during a command

vars == <<state, snapshot, archive, wired, lock, local>>

Place == {"idle", "gate", "lock", "recheck", "archive", "moveState", "moveRest",
          "snapshot", "snapshots", "seed", "write", "release", "abort", "teardown",
          "dead"}

Local ==
    [pc   : Place,
     cmd  : CommandName \cup {"none"},
     from : Location \cup {NoLocation},       \* the cursor read before the lock
     gate : Location \cup {NoLocation},       \* the cursor the gate was run at
     to   : Location \cup {NoLocation},       \* where the cursor is to go
     ver  : Version \cup {NoVersion},         \* the profile resolved before the lock
     base : ProjectState \cup {NoState}]      \* state.json as re-read in the lock

Resting == [pc |-> "idle", cmd |-> "none", from |-> NoLocation, gate |-> NoLocation,
            to |-> NoLocation, ver |-> NoVersion, base |-> NoState]

TypeOK ==
    /\ state \in ProjectState \cup {NoState}
    /\ snapshot \in SUBSET Version
    /\ archive \in Seq(ProjectState \cup {NoState})
    /\ wired \in BOOLEAN
    /\ lock \in Proc \cup {Nobody}
    /\ local \in [Proc -> Local]

Init ==
    /\ state = NoState
    /\ snapshot = {}
    /\ archive = <<>>
    /\ wired = FALSE
    /\ lock = Nobody
    /\ local = [p \in Proc |-> Resting]

----------------------------------------------------------------------------
(* Profiles *)

InProfile(v, l) == \E i \in DOMAIN StepsOf[v] : StepsOf[v][i] = l

\* profile.nextStep, which looks the step id up and ignores the state id; no
\* element means null.
NextSteps(v, l) ==
    {StepsOf[v][i + 1] : i \in {j \in DOMAIN StepsOf[v] :
        j + 1 \in DOMAIN StepsOf[v] /\ StepsOf[v][j].stepId = l.stepId}}

\* resolveRewindTarget: the locations strictly before l; none when l is not one
\* of the profile's.
EarlierSteps(v, l) ==
    {StepsOf[v][i] : i \in {j \in DOMAIN StepsOf[v] :
        \E k \in DOMAIN StepsOf[v] : j < k /\ StepsOf[v][k] = l}}

----------------------------------------------------------------------------
(* Before the lock *)

Idle(p, cmd) == cmd \in Command /\ local[p].pc = "idle"

Begin(p, l) == local' = [local EXCEPT ![p] = l]

Return(p) == local' = [local EXCEPT ![p] = Resting]

Goto(p, where) == local' = [local EXCEPT ![p].pc = where]

OnlyLocal == UNCHANGED <<state, snapshot, archive, wired, lock>>

Newest == CHOOSE v \in Version : \A w \in Version : w <= v

\* Mutated form: the next step is taken from the default profile.
AdvanceReadDefault(p) ==
    /\ Idle(p, "advance")
    /\ state # NoState
    /\ ~state.stopped
    /\ Begin(p, [Resting EXCEPT !.pc = "gate", !.cmd = "advance",
                                !.from = state.cursor, !.ver = Newest])
    /\ OnlyLocal

\* advanceState up to the gate: the cursor and the pinned profile are read once.
AdvanceRead(p) ==
    /\ Idle(p, "advance")
    /\ state # NoState
    /\ ~state.stopped
    /\ Begin(p, [Resting EXCEPT !.pc = "gate", !.cmd = "advance",
                                !.from = state.cursor, !.ver = state.pin])
    /\ OnlyLocal

\* runGate reads state.json anew, so it judges the step the cursor is at now.
\* Then the next step comes from the profile read before, and the guards pass.
AdvanceGatePasses(p) ==
    /\ local[p].pc = "gate"
    /\ state # NoState
    /\ \E next \in NextSteps(local[p].ver, local[p].from) :
          local' = [local EXCEPT ![p].pc = "lock", ![p].to = next,
                                 ![p].gate = state.cursor]
    /\ OnlyLocal

\* A missing grant, a blocked gate, the terminal step, a pending task or an
\* unmeasured outcome.
AdvanceBlocked(p) ==
    /\ local[p].pc = "gate"
    /\ Return(p)
    /\ OnlyLocal

\* rewindState; a stopped project is not refused.
RewindRead(p) ==
    /\ Idle(p, "rewind")
    /\ state # NoState
    /\ \E target \in EarlierSteps(state.pin, state.cursor) :
          Begin(p, [Resting EXCEPT !.pc = "lock", !.cmd = "rewind", !.to = target,
                                   !.from = state.cursor, !.ver = state.pin])
    /\ OnlyLocal

CyclesRunning == {p \in Proc : local[p].cmd = "cycle"}

\* cycleNew: the new round starts at the first step of the profile read here.
CycleRead(p) ==
    /\ Idle(p, "cycle")
    /\ Len(archive) + Cardinality(CyclesRunning) < MaxRounds
    /\ state # NoState
    /\ Begin(p, [Resting EXCEPT !.pc = "lock", !.cmd = "cycle",
                                !.to = StepsOf[state.pin][1],
                                !.from = state.cursor, !.ver = state.pin])
    /\ OnlyLocal

\* stopProject; a project that is stopped already only has its wiring removed.
StopRead(p) ==
    /\ Idle(p, "stop")
    /\ state # NoState
    /\ Begin(p, [Resting EXCEPT !.pc = IF state.stopped THEN "teardown" ELSE "lock",
                                !.cmd = "stop", !.from = state.cursor])
    /\ OnlyLocal

\* validateUpgrade: forward only, and the cursor must exist in the target.
CanUpgrade(s, v) == s # NoState /\ s.pin < v /\ InProfile(v, s.cursor)

UpgradeRead(p) ==
    /\ Idle(p, "upgrade")
    /\ \E v \in Version :
          /\ CanUpgrade(state, v)
          /\ Begin(p, [Resting EXCEPT !.pc = "lock", !.cmd = "upgrade", !.ver = v])
    /\ OnlyLocal

\* initProject reads nothing before it has the lock.
InitStart(p) ==
    /\ Idle(p, "init")
    /\ \E v \in Version :
          Begin(p, [Resting EXCEPT !.pc = "lock", !.cmd = "init",
                                   !.to = Start, !.ver = v])
    /\ OnlyLocal

----------------------------------------------------------------------------
(* Inside the lock *)

Dead(p) == local[p].pc = "dead"

\* Mutated form: every lock is taken for a dead process's.
LockIsIgnored == TRUE

LockIsFree == \A p \in Proc : lock = p => Dead(p)

Acquire(p) ==
    /\ local[p].pc = "lock"
    /\ LockIsFree
    /\ lock' = p
    /\ Goto(p, "recheck")
    /\ UNCHANGED <<state, snapshot, archive, wired>>

\* Mutated form: the command waits for ever.
LockNeverTimesOut(p) == FALSE /\ UNCHANGED vars

\* LockTimeoutError: the command ends and has changed nothing.
LockTimeout(p) ==
    /\ local[p].pc = "lock"
    /\ ~LockIsFree
    /\ Return(p)
    /\ OnlyLocal

\* Mutated form: what was read before the lock is trusted.
StillAppliesUnchecked(p) ==
    IF local[p].cmd = "init" THEN state = NoState ELSE state # NoState

\* The check made on the second reading of state.json: advance, rewind, cycle
\* and stop compare the cursor alone, upgrade validates again, init wants no file.
StillApplies(p) ==
    CASE local[p].cmd = "upgrade" -> CanUpgrade(state, local[p].ver)
      [] local[p].cmd = "init"    -> state = NoState
      [] OTHER                    -> state # NoState /\ state.cursor = local[p].from

FirstEffect(cmd) ==
    CASE cmd = "cycle"               -> "archive"
      [] cmd \in {"upgrade", "init"} -> "snapshot"
      [] OTHER                       -> "write"

Acting == {"archive", "moveState", "moveRest", "snapshot", "snapshots", "seed", "write"}

Recheck(p) ==
    /\ local[p].pc = "recheck"
    /\ StillApplies(p)
    /\ local' = [local EXCEPT ![p].pc = FirstEffect(local[p].cmd), ![p].base = state]
    /\ OnlyLocal

\* StaleAdvanceError and its siblings, or state.json is absent.
RecheckFails(p) ==
    /\ local[p].pc = "recheck"
    /\ ~StillApplies(p)
    /\ Goto(p, "abort")
    /\ OnlyLocal

\* archiveRoundUnlocked: the directory of the next round is created ...
Archive(p) ==
    /\ local[p].pc = "archive"
    /\ archive' = Append(archive, NoState)
    /\ Goto(p, "moveState")
    /\ UNCHANGED <<state, snapshot, wired, lock>>

\* ... state.json moves into it ...
MoveState(p) ==
    /\ local[p].pc = "moveState"
    /\ archive' = [archive EXCEPT ![Len(archive)] = state]
    /\ state' = NoState
    /\ Goto(p, "moveRest")
    /\ UNCHANGED <<snapshot, wired, lock>>

\* ... and then the snapshots with the other files of the round.
MoveRest(p) ==
    /\ local[p].pc = "moveRest"
    /\ snapshot' = {}
    /\ Goto(p, "snapshot")
    /\ UNCHANGED <<state, archive, wired, lock>>

\* writeProfileSnapshots, for the profile resolved before the lock: one file
\* after the other ...
WriteFirstSnapshot(p) ==
    /\ local[p].pc = "snapshot"
    /\ snapshot' = snapshot \cup {local[p].ver}
    /\ Goto(p, "snapshots")
    /\ UNCHANGED <<state, archive, wired, lock>>

\* Mutated form: the default profile is rendered.
WriteDefaultSnapshots(p) ==
    /\ local[p].pc = "snapshots"
    /\ snapshot' = {Newest}
    /\ Goto(p, IF local[p].cmd = "upgrade" THEN "seed" ELSE "write")
    /\ UNCHANGED <<state, archive, wired, lock>>

\* ... until all are of that version.
WriteSnapshots(p) ==
    /\ local[p].pc = "snapshots"
    /\ snapshot' = {local[p].ver}
    /\ Goto(p, IF local[p].cmd = "upgrade" THEN "seed" ELSE "write")
    /\ UNCHANGED <<state, archive, wired, lock>>

\* seedOutcomeLedgerUnlocked comes between the snapshots and the pin.
Seed(p) ==
    /\ local[p].pc = "seed"
    /\ Goto(p, "write")
    /\ OnlyLocal

\* A directory, a move, a snapshot, the seed or state.json cannot be written:
\* the command fails and undoes nothing.
IoFails(p) ==
    /\ IoCanFail
    /\ local[p].pc \in Acting
    /\ Goto(p, "abort")
    /\ OnlyLocal

\* Mutated form: a new round is written as a fresh project.
NewStateForgetsStop(l) ==
    CASE l.cmd \in {"advance", "rewind"} -> [l.base EXCEPT !.cursor = l.to]
      [] l.cmd = "cycle"   -> [l.base EXCEPT !.cursor = l.to, !.stopped = FALSE]
      [] l.cmd = "stop"    -> [l.base EXCEPT !.stopped = TRUE]
      [] l.cmd = "upgrade" -> [l.base EXCEPT !.pin = l.ver]
      [] OTHER -> [cursor |-> l.to, pin |-> l.ver, stopped |-> FALSE]

\* Each command changes its own fields of the state it re-read.
NewState(l) ==
    CASE l.cmd \in {"advance", "rewind", "cycle"} -> [l.base EXCEPT !.cursor = l.to]
      [] l.cmd = "stop"    -> [l.base EXCEPT !.stopped = TRUE]
      [] l.cmd = "upgrade" -> [l.base EXCEPT !.pin = l.ver]
      [] OTHER -> [cursor |-> l.to, pin |-> l.ver, stopped |-> FALSE]

\* writeStateUnlocked: state.json changes in one rename.
Write(p) ==
    /\ local[p].pc = "write"
    /\ state' = NewState(local[p])
    /\ Goto(p, "release")
    /\ UNCHANGED <<snapshot, archive, wired, lock>>

\* The finally block of withLock; a stop that was written goes on to tear down.
Release(p) ==
    /\ local[p].pc \in {"release", "abort"}
    /\ lock' = Nobody
    /\ IF local[p].pc = "release" /\ local[p].cmd = "stop"
       THEN Goto(p, "teardown") ELSE Return(p)
    /\ UNCHANGED <<state, snapshot, archive, wired>>

----------------------------------------------------------------------------
(* The agent's wiring *)

\* setupAgentIntegration asks only whether state.json exists.
AgentSetup ==
    /\ "setup" \in Command
    /\ state # NoState
    /\ ~wired
    /\ wired' = TRUE
    /\ UNCHANGED <<state, snapshot, archive, lock, local>>

Teardown(p) ==
    /\ local[p].pc = "teardown"
    /\ wired' = FALSE
    /\ Return(p)
    /\ UNCHANGED <<state, snapshot, archive, lock>>

\* A failing teardown is a warning; the stop stands.
TeardownFails(p) ==
    /\ IoCanFail
    /\ local[p].pc = "teardown"
    /\ Return(p)
    /\ OnlyLocal

----------------------------------------------------------------------------

Crash(p) ==
    /\ CanCrash
    /\ local[p].pc \notin {"idle", "dead"}
    /\ Begin(p, [Resting EXCEPT !.pc = "dead"])
    /\ OnlyLocal

Read(p) ==
    \/ AdvanceRead(p) \/ RewindRead(p) \/ CycleRead(p)
    \/ StopRead(p) \/ UpgradeRead(p) \/ InitStart(p)

Proceed(p) ==
    \/ AdvanceGatePasses(p) \/ AdvanceBlocked(p) \/ Acquire(p) \/ LockTimeout(p)
    \/ Recheck(p) \/ RecheckFails(p) \/ Archive(p) \/ MoveState(p) \/ MoveRest(p)
    \/ WriteFirstSnapshot(p) \/ WriteSnapshots(p) \/ Seed(p) \/ Write(p) \/ IoFails(p)
    \/ Release(p) \/ Teardown(p) \/ TeardownFails(p)

Next ==
    \/ \E p \in Proc : Read(p) \/ Proceed(p) \/ Crash(p)
    \/ AgentSetup

Spec == Init /\ [][Next]_vars

\* A command that runs keeps running: each of its awaits settles.
FairSpec == Spec /\ \A p \in Proc : WF_vars(Proceed(p))

----------------------------------------------------------------------------
(* Properties *)

InCriticalSection(p) ==
    local[p].pc \in Acting \cup {"recheck", "release", "abort"}

\* The critical sections of the commands run as Mutex says, which is what
\* StoreLock implements.
Lock == INSTANCE Mutex WITH Caller <- Proc,
                            inside <- {p \in Proc : InCriticalSection(p)}
LockedAsMutex == Lock!Spec

\* No update is lost: what a command overwrites is what it read in its critical
\* section, whoever else advanced, rewound, stopped or upgraded meanwhile, and
\* whoever died.  (cycle new has itself moved the file away by then.)
NoLostUpdate ==
    [][\A p \in Proc : Write(p) =>
          state = IF local[p].cmd = "cycle" THEN NoState ELSE local[p].base]_vars

\* The cursor is always a step of the profile the project is pinned to.
CursorInProfile == state # NoState => InProfile(state.pin, state.cursor)

\* An advance leaves a step only after the gate of that very step has passed.
GateBacked ==
    \A p \in Proc : local[p].cmd = "advance" /\ local[p].pc = "write" =>
        local[p].gate = state.cursor

\* An advance goes to the step that follows the cursor in the profile the
\* project is pinned to when the advance is written.
AdvanceFollowsPin ==
    \A p \in Proc : local[p].cmd = "advance" /\ local[p].pc = "write" =>
        local[p].to \in NextSteps(state.pin, state.cursor)

\* When no command is writing, the snapshots on disk render the pinned profile.
SnapshotMatchesPin ==
    (state # NoState /\ \A p \in Proc : ~InCriticalSection(p)) => snapshot = {state.pin}

\* Rounds continue one another: the pin of a later round is never older than
\* that of an archived one, and a project that was stopped stays stopped.
RoundContinues ==
    state # NoState => \A i \in DOMAIN archive : archive[i] # NoState =>
        /\ archive[i].pin <= state.pin
        /\ archive[i].stopped => state.stopped

\* Each round's directory holds the state.json of that round, except while the
\* one cycle that creates it is at work: racing cycles share no directory.
ArchivesWhole ==
    \A i \in DOMAIN archive : archive[i] = NoState =>
        i = Len(archive) /\ \E p \in Proc : local[p].pc = "moveState"

\* Every command returns or its process dies, however the others interfere.
CommandReturns ==
    \A p \in Proc : local[p].pc # "idle" ~> local[p].pc \in {"idle", "dead"}
==============================================================================
