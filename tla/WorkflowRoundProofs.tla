------------------------- MODULE WorkflowRoundProofs -------------------------
(****************************************************************************)
(* Proofs about the rounds of a project, the place of its cursor and the    *)
(* gates behind it, for every set of processes and every family of          *)
(* versions.  Each holds for a part of the commands or of the failures, and *)
(* fails without that assumption:                                           *)
(*   Unfailing    nobody dies inside a command and no file operation fails  *)
(*   OnePin       besides, the pin is not upgraded                          *)
(*   ForwardOnly  the cursor does not go back and the pin stays, in profiles*)
(*                that name no step twice; commands may die and fail        *)
(****************************************************************************)
EXTENDS WorkflowProofs

Unfailing == ~CanCrash /\ ~IoCanFail

OnePin == Unfailing /\ "upgrade" \notin Command

----------------------------------------------------------------------------
(* What a command in its critical section knows of what it decided before *)

\* The second reading agrees with the first one.
Certain(l) ==
    l.pc \in Acting =>
        /\ l.cmd = "init" => l.base = NoState
        /\ l.cmd = "upgrade" => l.base.pin < l.ver
        /\ l.cmd \in {"advance", "rewind", "cycle", "stop"} => l.base.cursor = l.from

\* Where the command is going was found in the profile it resolved.
Aimed(l) ==
    l.pc \in {"lock", "recheck"} \cup Acting =>
        /\ l.cmd \in {"init", "rewind", "cycle"} => InProfile(l.ver, l.to)
        /\ l.cmd = "advance" => l.to \in NextSteps(l.ver, l.from)

Sure(l) == Certain(l) /\ Aimed(l)

AllSure == \A p \in Proc : Sure(local[p])

LEMMA NextStepsInProfile ==
    ASSUME NEW v, NEW l
    PROVE  \A next \in NextSteps(v, l) : InProfile(v, next)
BY DEF NextSteps, InProfile

LEMMA EarlierStepsInProfile ==
    ASSUME NEW v, NEW l
    PROVE  \A target \in EarlierSteps(v, l) : InProfile(v, target)
BY DEF EarlierSteps, InProfile

LEMMA FirstStepInProfile ==
    ASSUME NEW v \in Version
    PROVE  InProfile(v, StepsOf[v][1]) /\ InProfile(v, Start)
<1>1. 1 \in DOMAIN StepsOf[v] /\ StepsOf[v][1] = Start
  BY WorkflowAssumption
<1> QED BY <1>1 DEF InProfile

LEMMA RestingSure == Sure(Resting)
BY DEF Resting, Sure, Certain, Aimed, Acting

\* A step that gives one process a sure memory keeps all of them so.
LEMMA OneSure ==
    ASSUME TypeOK, AllSure, NEW p \in Proc, NEW l, Sure(l),
           local' = [local EXCEPT ![p] = l]
    PROVE  AllSure'
BY DEF TypeOK, AllSure

LEMMA ReadSure ==
    ASSUME TypeOK, AllSure, NEW p \in Proc, Read(p)
    PROVE  AllSure'
<1> USE DEF Begin, Resting, Sure, Certain, Aimed, Acting
<1>1. CASE AdvanceRead(p)
  BY <1>1, OneSure DEF AdvanceRead
<1>2. CASE RewindRead(p)
  <2>1. PICK target \in EarlierSteps(state.pin, state.cursor) :
          local' = [local EXCEPT ![p] =
              [Resting EXCEPT !.pc = "lock", !.cmd = "rewind", !.to = target,
                              !.from = state.cursor, !.ver = state.pin]]
    BY <1>2 DEF RewindRead
  <2>2. InProfile(state.pin, target)
    BY EarlierStepsInProfile
  <2> DEFINE l == [Resting EXCEPT !.pc = "lock", !.cmd = "rewind", !.to = target,
                                  !.from = state.cursor, !.ver = state.pin]
  <2>3. Sure(l)
    BY <2>2
  <2> QED BY <2>1, <2>3, OneSure
<1>3. CASE CycleRead(p)
  <2>1. InProfile(state.pin, StepsOf[state.pin][1])
    BY <1>3, FirstStepInProfile DEF CycleRead, TypeOK, ProjectState
  <2> QED BY <1>3, <2>1, OneSure DEF CycleRead
<1>4. CASE StopRead(p)
  <2> DEFINE l == [Resting EXCEPT !.pc = IF state.stopped THEN "teardown" ELSE "lock",
                                  !.cmd = "stop", !.from = state.cursor]
  <2>1. Sure(l)
    OBVIOUS
  <2> QED BY <1>4, <2>1, OneSure DEF StopRead
<1>5. CASE UpgradeRead(p)
  BY <1>5, OneSure DEF UpgradeRead
<1>6. CASE InitStart(p)
  <2>1. PICK v \in Version : local' = [local EXCEPT ![p] =
              [Resting EXCEPT !.pc = "lock", !.cmd = "init", !.to = Start, !.ver = v]]
    BY <1>6 DEF InitStart
  <2>2. InProfile(v, Start)
    BY FirstStepInProfile
  <2> QED BY <2>1, <2>2, OneSure
<1> QED BY <1>1, <1>2, <1>3, <1>4, <1>5, <1>6 DEF Read

\* A step that only changes where p is, to a place that asks no more of it.
LEMMA GotoSure ==
    ASSUME TypeOK, AllSure, NEW p \in Proc, NEW where, Goto(p, where),
           where \in Acting => local[p].pc \in Acting,
           where = "recheck" => local[p].pc = "lock",
           where # "lock"
    PROVE  AllSure'
<1>1. local[p] \in Local /\ Sure(local[p])
  BY DEF TypeOK, AllSure
<1>2. Sure([local[p] EXCEPT !.pc = where])
  BY <1>1 DEF Sure, Certain, Aimed, Acting, Local
<1> QED BY <1>2, OneSure DEF Goto

LEMMA ProceedSure ==
    ASSUME TypeOK, AllEquipped, AllSure, NEW p \in Proc, Proceed(p)
    PROVE  AllSure'
<1>1. local[p] \in Local /\ Equipped(local[p]) /\ Sure(local[p])
  BY DEF TypeOK, AllEquipped, AllSure
<1>2. ASSUME Return(p) PROVE AllSure'
  BY <1>2, RestingSure, OneSure DEF Return
<1>3. CASE AdvanceGatePasses(p)
  <2>1. PICK next \in NextSteps(local[p].ver, local[p].from) :
          local' = [local EXCEPT ![p].pc = "lock", ![p].to = next,
                                 ![p].gate = state.cursor]
    BY <1>3 DEF AdvanceGatePasses
  <2> DEFINE l == [local[p] EXCEPT !.pc = "lock", !.to = next, !.gate = state.cursor]
  <2>2. local[p].cmd = "advance"
    BY <1>1, <1>3 DEF AdvanceGatePasses, Equipped
  <2>3. Sure(l)
    BY <1>1, <2>2 DEF Sure, Certain, Aimed, Acting, Local
  <2>4. local' = [local EXCEPT ![p] = l]
    BY <2>1
  <2> QED BY <2>3, <2>4, OneSure
<1>4. CASE AdvanceBlocked(p) \/ LockTimeout(p) \/ Teardown(p) \/ TeardownFails(p)
  BY <1>2, <1>4 DEF AdvanceBlocked, LockTimeout, Teardown, TeardownFails
<1>5. CASE Acquire(p)
  BY <1>5, GotoSure DEF Acquire, Acting
<1>6. CASE Recheck(p)
  <2> DEFINE l == [local[p] EXCEPT !.pc = FirstEffect(local[p].cmd), !.base = state]
  <2>1. FirstEffect(local[p].cmd) \in Acting
    BY DEF FirstEffect, Acting
  <2>2. Certain(l)
    BY <1>1, <1>6 DEF Recheck, StillApplies, CanUpgrade, Certain, Local
  <2>3. Aimed(l)
    BY <1>1, <1>6, <2>1 DEF Recheck, Sure, Aimed, Local
  <2>4. local' = [local EXCEPT ![p] = l]
    BY <1>6 DEF Recheck
  <2> QED BY <2>2, <2>3, <2>4, OneSure DEF Sure
<1>7. CASE RecheckFails(p) \/ IoFails(p)
  BY <1>7, GotoSure DEF RecheckFails, IoFails, Acting
<1>8. CASE Archive(p) \/ MoveState(p) \/ MoveRest(p) \/ WriteFirstSnapshot(p)
  BY <1>8, GotoSure DEF Archive, MoveState, MoveRest, WriteFirstSnapshot, Acting
<1>9. CASE WriteSnapshots(p)
  BY <1>9, GotoSure DEF WriteSnapshots, Acting
<1>10. CASE Seed(p) \/ Write(p)
  BY <1>10, GotoSure DEF Seed, Write, Acting
<1>11. CASE Release(p)
  BY <1>2, <1>11, GotoSure DEF Release, Acting
<1> QED
  BY <1>3, <1>4, <1>5, <1>6, <1>7, <1>8, <1>9, <1>10, <1>11 DEF Proceed

LEMMA SureStep ==
    TypeOK /\ AllEquipped /\ AllSure /\ [Next]_vars => AllSure'
<1> SUFFICES ASSUME TypeOK, AllEquipped, AllSure, [Next]_vars PROVE AllSure'
  OBVIOUS
<1>1. ASSUME NEW p \in Proc, Crash(p) PROVE AllSure'
  BY <1>1, OneSure DEF Crash, Begin, Resting, Sure, Certain, Aimed, Acting
<1>2. CASE AgentSetup
  BY <1>2 DEF AgentSetup, AllSure
<1>3. CASE UNCHANGED vars
  BY <1>3 DEF vars, AllSure
<1> QED BY <1>1, <1>2, <1>3, ReadSure, ProceedSure DEF Next

\* All that holds whatever fails: the ground the rest stands on.
Ground == TypeOK /\ AllEquipped /\ HoldsLock /\ AllKnow /\ AllSure

LEMMA GroundInvariant == Init => Ground
BY TypeInit, RestingSure
DEF Init, Ground, HoldsLock, InCriticalSection, AllKnow, Knows, AllSure, Resting, Acting

LEMMA GroundStep == Ground /\ [Next]_vars => Ground'
BY TypeStep, HoldsLockStep, AllKnowStep, SureStep DEF Ground

----------------------------------------------------------------------------
(* Rounds *)

\* The cycle of p has moved state.json away and will write it again.
Renewing(p) == local[p].cmd = "cycle"
    /\ local[p].pc \in {"moveRest", "snapshot", "snapshots", "write"}

MovingState(p) == local[p].pc = "moveState"

Onward(older, newer) ==
    /\ older.pin <= newer.pin
    /\ older.stopped => newer.stopped

\* Whatever is to become state.json continues the archived rounds, and without a
\* state there are none, except while a cycle renews it.
Chronicle ==
    /\ RoundContinues
    /\ ArchivesWhole
    /\ \A p \in Proc : Renewing(p) =>
          \A i \in DOMAIN archive : archive[i] # NoState => Onward(archive[i], local[p].base)
    /\ state = NoState => archive = <<>> \/ \E p \in Proc : Renewing(p)

\* The steps that touch neither state.json nor the archive leave every cycle as
\* far as it is.
Quiet(p) ==
    /\ UNCHANGED <<state, archive>>
    /\ \A q \in Proc : /\ MovingState(q)' <=> MovingState(q)
                       /\ Renewing(q)' <=> Renewing(q)
                       /\ Renewing(q) => local'[q].base = local[q].base

LEMMA OthersQuiet ==
    ASSUME TypeOK, NEW p \in Proc, Read(p) \/ Proceed(p), UNCHANGED <<state, archive>>,
           local[p].pc # "moveState", local'[p].pc # "moveState",
           ~Renewing(p), ~Renewing(p)'
    PROVE  Quiet(p)
BY StateChangesInside DEF Quiet, MovingState, Renewing

LEMMA ReadQuiet ==
    ASSUME TypeOK, NEW p \in Proc, Read(p)
    PROVE  Quiet(p)
<1> USE DEF Begin, OnlyLocal, Resting, Idle, TypeOK, Renewing
<1>1. CASE AdvanceRead(p) BY <1>1, OthersQuiet DEF AdvanceRead
<1>2. CASE RewindRead(p) BY <1>2, OthersQuiet DEF RewindRead
<1>3. CASE CycleRead(p) BY <1>3, OthersQuiet DEF CycleRead
<1>4. CASE StopRead(p) BY <1>4, OthersQuiet DEF StopRead
<1>5. CASE UpgradeRead(p) BY <1>5, OthersQuiet DEF UpgradeRead
<1>6. CASE InitStart(p) BY <1>6, OthersQuiet DEF InitStart
<1> QED BY <1>1, <1>2, <1>3, <1>4, <1>5, <1>6 DEF Read

\* The steps of a command that change neither file.
Shifting(p) == Archive(p) \/ MoveState(p) \/ Write(p)

LEMMA ProceedQuiet ==
    ASSUME Unfailing, TypeOK, AllEquipped, NEW p \in Proc, Proceed(p), ~Shifting(p)
    PROVE  Quiet(p)
<1>1. local \in [Proc -> Local] /\ local[p] \in Local /\ Equipped(local[p])
  BY DEF TypeOK, AllEquipped
<1>3. ASSUME Return(p) PROVE local'[p] = Resting
  BY <1>1, <1>3 DEF Return
<1> USE DEF OnlyLocal, Renewing
<1>4. CASE AdvanceGatePasses(p)
  BY <1>1, <1>4, OthersQuiet DEF AdvanceGatePasses, Local
<1>5. CASE AdvanceBlocked(p) \/ LockTimeout(p) \/ Teardown(p) \/ TeardownFails(p)
  BY <1>3, <1>5, OthersQuiet
  DEF AdvanceBlocked, LockTimeout, Teardown, TeardownFails, Resting
<1>6. CASE Acquire(p)
  BY <1>1, <1>6, OthersQuiet DEF Acquire, Goto, Local
<1>7. CASE Recheck(p)
  <2>1. FirstEffect(local[p].cmd) \in {"archive", "snapshot", "write"}
    BY DEF FirstEffect
  <2>2. local[p].cmd = "cycle" => FirstEffect(local[p].cmd) = "archive"
    BY DEF FirstEffect
  <2> QED BY <1>1, <1>7, <2>1, <2>2, OthersQuiet DEF Recheck, Local
<1>8. CASE RecheckFails(p)
  BY <1>1, <1>8, OthersQuiet DEF RecheckFails, Goto, Local
<1>9. CASE MoveRest(p) \/ WriteFirstSnapshot(p) \/ WriteSnapshots(p) \/ Seed(p)
  <2>1. UNCHANGED <<state, archive>>
    BY <1>9 DEF MoveRest, WriteFirstSnapshot, WriteSnapshots, Seed
  <2>2. /\ local[p].pc \in {"moveRest", "snapshot", "snapshots", "seed"}
        /\ local[p].cmd = "cycle" => local[p].pc # "seed"
    BY <1>1, <1>9 DEF MoveRest, WriteFirstSnapshot, WriteSnapshots, Seed, Equipped
  <2>3. \E where \in {"snapshot", "snapshots", "seed", "write"} :
          /\ Goto(p, where)
          /\ local[p].cmd = "cycle" => where # "seed"
    BY <1>1, <1>9 DEF MoveRest, WriteFirstSnapshot, WriteSnapshots, Seed, Equipped
  <2>4. /\ local'[p].cmd = local[p].cmd /\ local'[p].base = local[p].base
        /\ local'[p].pc \in {"snapshot", "snapshots", "seed", "write"}
        /\ local[p].cmd = "cycle" => local'[p].pc # "seed"
    BY <1>1, <2>3 DEF Goto, Local
  <2> QED BY <2>1, <2>2, <2>4, StateChangesInside DEF Quiet, MovingState
<1>10. CASE Release(p)
  <2>1. UNCHANGED <<state, archive>> /\ local[p].pc \in {"release", "abort"}
    BY <1>10 DEF Release
  <2>2. local'[p].pc \in {"teardown", "idle"}
    BY <1>1, <1>10 DEF Release, Goto, Return, Local, Resting
  <2> QED BY <2>1, <2>2, OthersQuiet
<1>11. CASE IoFails(p)
  BY <1>11 DEF IoFails, Unfailing
<1> QED
  BY <1>4, <1>5, <1>6, <1>7, <1>8, <1>9, <1>10, <1>11 DEF Proceed, Shifting

LEMMA QuietKeepsChronicle ==
    ASSUME NEW p, Quiet(p), Chronicle
    PROVE  Chronicle'
<1>1. state' = state /\ archive' = archive
  BY DEF Quiet
<1>2. RoundContinues'
  BY <1>1 DEF Chronicle, RoundContinues
<1>3. ArchivesWhole'
  BY <1>1 DEF Chronicle, ArchivesWhole, Quiet, MovingState
<1>4. \A q \in Proc : Renewing(q)' =>
        \A i \in DOMAIN archive' : archive'[i] # NoState => Onward(archive'[i], local'[q].base)
  BY <1>1 DEF Chronicle, Quiet
<1>5. state' = NoState => archive' = <<>> \/ \E q \in Proc : Renewing(q)'
  BY <1>1 DEF Chronicle, Quiet
<1> QED BY <1>2, <1>3, <1>4, <1>5 DEF Chronicle

\* While p is inside, nobody else is.
LEMMA AloneInside ==
    ASSUME Ground, NEW p \in Proc, InCriticalSection(p), NEW q \in Proc \ {p}
    PROVE  ~InCriticalSection(q) /\ ~Renewing(q) /\ ~MovingState(q)
BY DEF Ground, HoldsLock, InCriticalSection, Renewing, MovingState, Acting

LEMMA OthersKeepPlace ==
    ASSUME TypeOK, NEW p \in Proc, Read(p) \/ Proceed(p), NEW q \in Proc \ {p}
    PROVE  /\ Renewing(q)' <=> Renewing(q)
           /\ MovingState(q)' <=> MovingState(q)
BY StateChangesInside DEF Renewing, MovingState

\* Who acts on a state has one, which is the one on disk.
LEMMA ActsOnState ==
    ASSUME Ground, NEW p \in Proc, local[p].pc \in Acting, local[p].cmd # "init"
    PROVE  local[p].base \in ProjectState /\ local[p].base # NoState
BY WorkflowAssumption DEF Ground, AllEquipped, Equipped

LEMMA ArchiveKeepsChronicle ==
    ASSUME Ground, Chronicle, NEW p \in Proc, Archive(p)
    PROVE  Chronicle'
<1>1. Proceed(p) /\ InCriticalSection(p)
  BY DEF Proceed, Archive, InCriticalSection, Acting
<1>2. local'[p] = [local[p] EXCEPT !.pc = "moveState"] /\ local[p] \in Local
  BY DEF Archive, Goto, Ground, TypeOK
<1>3. MovingState(p)' /\ \A q \in Proc : ~Renewing(q)'
  BY <1>1, <1>2, AloneInside, OthersKeepPlace DEF MovingState, Renewing, Local, Ground
<1>4. local[p].cmd = "cycle" /\ local[p].pc \in Acting /\ state = local[p].base
  BY DEF Archive, Ground, AllKnow, Knows, AllEquipped, Equipped, Acting
<1>5. state # NoState /\ state' = state
  BY <1>4, ActsOnState DEF Archive
<1>6. \A i \in DOMAIN archive : archive[i] # NoState
  BY <1>1, AloneInside DEF Archive, Chronicle, ArchivesWhole, MovingState
<1>7. /\ archive \in Seq(ProjectState \cup {NoState})
      /\ archive' = Append(archive, NoState)
  BY DEF Archive, Ground, TypeOK
<1>8. /\ Len(archive') = Len(archive) + 1 /\ Len(archive) \in Nat
      /\ DOMAIN archive = 1..Len(archive) /\ DOMAIN archive' = 1..Len(archive')
      /\ \A i \in 1..Len(archive) : archive'[i] = archive[i]
      /\ archive'[Len(archive) + 1] = NoState
  BY <1>7
<1>9. RoundContinues'
  BY <1>5, <1>8 DEF Chronicle, RoundContinues
<1>10. ArchivesWhole'
  BY <1>3, <1>6, <1>8 DEF ArchivesWhole, MovingState
<1> QED BY <1>3, <1>5, <1>9, <1>10 DEF Chronicle

LEMMA MoveStateKeepsChronicle ==
    ASSUME Ground, Chronicle, NEW p \in Proc, MoveState(p)
    PROVE  Chronicle'
<1>1. Proceed(p) /\ InCriticalSection(p)
  BY DEF Proceed, MoveState, InCriticalSection, Acting
<1>2. local'[p] = [local[p] EXCEPT !.pc = "moveRest"] /\ local[p] \in Local
  BY DEF MoveState, Goto, Ground, TypeOK
<1>3. local[p].cmd = "cycle" /\ local[p].pc \in Acting /\ state = local[p].base
  BY DEF MoveState, Ground, AllKnow, Knows, AllEquipped, Equipped, Acting
<1>4. state \in ProjectState /\ state # NoState /\ state' = NoState
  BY <1>3, ActsOnState DEF MoveState
<1>5. Renewing(p)' /\ local'[p].base = state
  BY <1>2, <1>3 DEF Renewing, Local
<1>6. \A q \in Proc \ {p} : ~Renewing(q)'
  BY <1>1, AloneInside, OthersKeepPlace DEF Ground
<1>7. /\ DOMAIN archive' = DOMAIN archive
      /\ \A i \in DOMAIN archive :
            archive'[i] = IF i = Len(archive) THEN state ELSE archive[i]
  BY DEF MoveState
<1>8. Onward(state, state)
  <2>1. state.pin \in Nat
    BY <1>4, WorkflowAssumption DEF ProjectState
  <2> QED BY <2>1 DEF Onward
<1>9. RoundContinues'
  BY <1>4 DEF RoundContinues
<1>10. ArchivesWhole'
  BY <1>4, <1>7 DEF Chronicle, ArchivesWhole
<1>11. \A i \in DOMAIN archive' : archive'[i] # NoState => Onward(archive'[i], state)
  BY <1>4, <1>7, <1>8 DEF Chronicle, RoundContinues, Onward
<1> QED BY <1>4, <1>5, <1>6, <1>9, <1>10, <1>11 DEF Chronicle

\* What a command other than init writes is no older than what it read, and
\* stopped if that was.
LEMMA WritesOnward ==
    ASSUME Ground, NEW p \in Proc, Write(p), local[p].cmd # "init"
    PROVE  Onward(local[p].base, NewState(local[p]))
<1>1. local[p].pc = "write" /\ local[p].cmd \in Mutator /\ local[p].base \in ProjectState
  BY ActsOnState DEF Write, Acting, Ground, AllEquipped, Equipped
<1>2. local[p].base.pin \in Nat
  BY <1>1, WorkflowAssumption DEF ProjectState
<1>3. CASE local[p].cmd = "upgrade"
  <2>1. local[p].base.pin < local[p].ver /\ local[p].ver \in Nat
    BY <1>1, <1>3, WorkflowAssumption
    DEF Ground, AllSure, Sure, Certain, Acting, AllEquipped, Equipped
  <2> QED BY <1>1, <1>2, <1>3, <2>1 DEF NewState, Onward, ProjectState
<1>4. CASE local[p].cmd = "stop"
  BY <1>1, <1>2, <1>4 DEF NewState, Onward, ProjectState
<1>5. CASE local[p].cmd \in {"advance", "rewind", "cycle"}
  BY <1>1, <1>2, <1>5 DEF NewState, Onward, ProjectState
<1> QED BY <1>1, <1>3, <1>4, <1>5 DEF Mutator

LEMMA WriteKeepsChronicle ==
    ASSUME Ground, Chronicle, NEW p \in Proc, Write(p)
    PROVE  Chronicle'
<1>1. Proceed(p) /\ InCriticalSection(p) /\ local[p].pc = "write"
  BY DEF Proceed, Write, InCriticalSection, Acting
<1>2. local'[p] = [local[p] EXCEPT !.pc = "release"] /\ local[p] \in Local
  BY DEF Write, Goto, Ground, TypeOK
<1>3. \A q \in Proc : ~Renewing(q)'
  BY <1>1, <1>2, AloneInside, OthersKeepPlace DEF Renewing, Local, Ground
<1>4. archive' = archive /\ \A q \in Proc : ~MovingState(q)
  BY <1>1, AloneInside DEF Write, MovingState
<1>5. state' = NewState(local[p]) /\ state' \in ProjectState /\ state' # NoState
  <2>1. NewState(local[p]) \in ProjectState
    BY <1>1, <1>2, NewStateTyped DEF Ground, AllEquipped
  <2> QED BY <2>1, WorkflowAssumption DEF Write
<1>6. ArchivesWhole'
  BY <1>4 DEF Chronicle, ArchivesWhole, MovingState
<1>7. \A i \in DOMAIN archive : archive[i] # NoState => Onward(archive[i], state')
  <2>1. CASE local[p].cmd = "init"
    <3>1. state = NoState
      BY <1>1, <2>1 DEF Ground, AllSure, Sure, Certain, AllKnow, Knows, Acting
    <3>2. archive = <<>>
      BY <1>1, <2>1, <3>1, AloneInside DEF Chronicle, Renewing
    <3> QED BY <3>2
  <2>2. CASE local[p].cmd # "init"
    <3>1. Onward(local[p].base, state') /\ local[p].base \in ProjectState
      BY <1>1, <1>5, <2>2, WritesOnward, ActsOnState DEF Acting
    <3>2. \A i \in DOMAIN archive : archive[i] # NoState => Onward(archive[i], local[p].base)
      <4>1. CASE local[p].cmd = "cycle"
        BY <1>1, <4>1 DEF Chronicle, Renewing
      <4>2. CASE local[p].cmd # "cycle"
        <5>1. state = local[p].base /\ state # NoState
          BY <1>1, <2>2, <4>2, ActsOnState DEF Ground, AllKnow, Knows, Acting
        <5> QED BY <5>1 DEF Chronicle, RoundContinues, Onward
      <4> QED BY <4>1, <4>2
    <3>3. \A i \in DOMAIN archive : archive[i] # NoState => archive[i] \in ProjectState
      <4>1. archive \in Seq(ProjectState \cup {NoState})
        BY DEF Ground, TypeOK
      <4> QED BY <4>1
    <3>4. \A s \in ProjectState : s.pin \in Nat
      BY WorkflowAssumption DEF ProjectState
    <3> QED BY <1>5, <3>1, <3>2, <3>3, <3>4 DEF Onward
  <2> QED BY <2>1, <2>2
<1>8. RoundContinues'
  BY <1>4, <1>7 DEF RoundContinues, Onward
<1> QED BY <1>3, <1>5, <1>6, <1>8 DEF Chronicle

LEMMA ChronicleInit == Init => Chronicle
BY DEF Init, Chronicle, RoundContinues, ArchivesWhole, Renewing, Resting

LEMMA ChronicleStep ==
    ASSUME Unfailing
    PROVE  Ground /\ Chronicle /\ [Next]_vars => Chronicle'
<1> SUFFICES ASSUME Ground, Chronicle, [Next]_vars PROVE Chronicle'
  OBVIOUS
<1>1. ASSUME NEW p \in Proc, Read(p) PROVE Chronicle'
  BY <1>1, ReadQuiet, QuietKeepsChronicle DEF Ground
<1>2. ASSUME NEW p \in Proc, Proceed(p), ~Shifting(p) PROVE Chronicle'
  BY <1>2, ProceedQuiet, QuietKeepsChronicle DEF Ground
<1>3. ASSUME NEW p \in Proc, Shifting(p) PROVE Chronicle'
  BY <1>3, ArchiveKeepsChronicle, MoveStateKeepsChronicle, WriteKeepsChronicle
  DEF Shifting
<1>4. ASSUME NEW p \in Proc, Crash(p) PROVE Chronicle'
  BY <1>4 DEF Crash, Unfailing
<1>5. CASE AgentSetup \/ UNCHANGED vars
  BY <1>5 DEF AgentSetup, vars, Chronicle, RoundContinues, ArchivesWhole, Renewing
<1> QED BY <1>1, <1>2, <1>3, <1>4, <1>5 DEF Next

LEMMA ChronicleInvariant ==
    ASSUME Unfailing
    PROVE  Spec => [](Ground /\ Chronicle)
BY GroundInvariant, GroundStep, ChronicleInit, ChronicleStep, PTL DEF Spec

\* A later round has a pin no older than that of any archived one, and a project
\* that was stopped stays stopped, upgrades and racing cycles included.
THEOREM RoundsContinue ==
    ASSUME Unfailing
    PROVE  Spec => []RoundContinues
<1>1. Chronicle => RoundContinues
  BY DEF Chronicle
<1> QED BY <1>1, ChronicleInvariant, PTL

\* Every archived round has its state.json, except the one that is being moved:
\* racing cycles share no directory.
THEOREM ArchivesAreWhole ==
    ASSUME Unfailing
    PROVE  Spec => []ArchivesWhole
<1>1. Chronicle => ArchivesWhole
  BY DEF Chronicle
<1> QED BY <1>1, ChronicleInvariant, PTL

----------------------------------------------------------------------------
(* One pin *)

\* The versions that the project is pinned to: state.json's, or that of the
\* cycle that will write it again.
Pins == IF state # NoState
        THEN {state.pin}
        ELSE {local[q].base.pin : q \in {r \in Proc : Renewing(r)}}

\* A command that resolved a profile from state.json goes by one that is in force,
\* and nobody upgrades.
InForce ==
    \A p \in Proc :
        /\ local[p].cmd # "upgrade"
        /\ local[p].cmd \in {"advance", "rewind", "cycle"} => local[p].ver \in Pins

\* The snapshots on disk are the pin's whenever there is one, and ready before
\* state.json is written.
Rendered ==
    /\ state # NoState => snapshot = {state.pin}
    /\ \A p \in Proc : local[p].pc = "write" /\ local[p].cmd \in {"init", "cycle"} =>
          snapshot = {local[p].ver}

Settled == InForce /\ Rendered /\ CursorInProfile

\* While p writes, the version in force is the one it knows.
LEMMA WriterKnowsPins ==
    ASSUME Ground, Settled, NEW p \in Proc, InCriticalSection(p),
           local[p].pc \in {"archive", "moveState", "moveRest", "snapshot", "snapshots", "write"}
    PROVE  /\ local[p].cmd = "init" => Pins = {}
           /\ local[p].cmd # "init" => Pins = {local[p].base.pin}
           /\ local[p].cmd \in {"advance", "rewind", "cycle"} =>
                 local[p].ver = local[p].base.pin
<1>1. Knows(p) /\ Equipped(local[p]) /\ Certain(local[p]) /\ local[p].cmd # "upgrade"
  BY DEF Ground, AllKnow, AllEquipped, AllSure, Sure, Settled, InForce
<1>2. local[p].pc \in Acting
  BY DEF Acting
<1>3. \A q \in Proc : Renewing(q) => q = p
  BY AloneInside
<1>4. local[p].cmd = "init" => Pins = {}
  BY <1>1, <1>2, <1>3 DEF Knows, Certain, Equipped, Pins, Renewing
<1>5. ASSUME local[p].cmd # "init", state # NoState
      PROVE  Pins = {local[p].base.pin}
  BY <1>1, <1>5 DEF Knows, Pins
<1>6. ASSUME local[p].cmd # "init", state = NoState
      PROVE  Pins = {local[p].base.pin}
  <2>1. local[p].base # NoState
    BY <1>2, <1>6, ActsOnState
  <2>2. Renewing(p)
    BY <1>1, <1>2, <1>6, <2>1 DEF Knows, Equipped, Renewing
  <2>3. {r \in Proc : Renewing(r)} = {p}
    BY <1>3, <2>2
  <2> QED BY <1>6, <2>3 DEF Pins
<1>7. local[p].cmd \in {"advance", "rewind", "cycle"} => local[p].ver \in Pins
  BY DEF Settled, InForce
<1> QED BY <1>4, <1>5, <1>6, <1>7

LEMMA QuietKeepsPins ==
    ASSUME NEW p, Quiet(p)
    PROVE  Pins' = Pins
<1>1. state' = state
  BY DEF Quiet
<1>2. {r \in Proc : Renewing(r)}' = {r \in Proc : Renewing(r)}
  BY DEF Quiet
<1>3. \A q \in {r \in Proc : Renewing(r)} : local'[q].base = local[q].base
  BY DEF Quiet
<1> QED BY <1>1, <1>2, <1>3 DEF Pins

\* The steps of p that leave the versions in force and what p holds of them.
LEMMA KeepsInForce ==
    ASSUME TypeOK, Settled, NEW p \in Proc, Read(p) \/ Proceed(p), Pins \subseteq Pins',
           local'[p].cmd # "upgrade",
           local'[p].cmd \in {"advance", "rewind", "cycle"} => local'[p].ver \in Pins'
    PROVE  InForce'
BY StateChangesInside DEF Settled, InForce

LEMMA ReadSettled ==
    ASSUME OnePin, Ground, Settled, NEW p \in Proc, Read(p)
    PROVE  Settled'
<1>1. Pins' = Pins
  BY ReadQuiet, QuietKeepsPins DEF Ground
<1>2. /\ local'[p].cmd \in Command
      /\ local'[p].cmd \in {"advance", "rewind", "cycle"} =>
            state # NoState /\ local'[p].ver = state.pin
      /\ local'[p].pc # "write"
      /\ UNCHANGED <<state, snapshot>>
  <2> USE DEF Idle, Begin, Resting, OnlyLocal, Ground, TypeOK
  <2>1. CASE AdvanceRead(p) BY <2>1 DEF AdvanceRead
  <2>2. CASE RewindRead(p) BY <2>2 DEF RewindRead
  <2>3. CASE CycleRead(p) BY <2>3 DEF CycleRead
  <2>4. CASE StopRead(p) BY <2>4 DEF StopRead
  <2>5. CASE UpgradeRead(p) BY <2>5 DEF UpgradeRead
  <2>6. CASE InitStart(p) BY <2>6 DEF InitStart
  <2> QED BY <2>1, <2>2, <2>3, <2>4, <2>5, <2>6 DEF Read
<1>3. local'[p].cmd # "upgrade"
  BY <1>2 DEF OnePin
<1>4. local'[p].cmd \in {"advance", "rewind", "cycle"} => local'[p].ver \in Pins'
  BY <1>1, <1>2 DEF Pins
<1>5. InForce'
  BY <1>1, <1>3, <1>4, KeepsInForce DEF Ground
<1>6. Rendered'
  BY <1>2, StateChangesInside DEF Ground, Settled, Rendered
<1>7. CursorInProfile'
  BY <1>2 DEF Settled, CursorInProfile
<1> QED BY <1>5, <1>6, <1>7 DEF Settled

\* The snapshots change only where there is no state.json, and are the new
\* round's when it is written.
LEMMA SnapshotSteps ==
    ASSUME OnePin, Ground, Settled, NEW p \in Proc, Proceed(p), ~Shifting(p)
    PROVE  Rendered'
<1>1. local[p] \in Local /\ Equipped(local[p]) /\ Knows(p) /\ Certain(local[p])
  BY DEF Ground, TypeOK, AllEquipped, AllKnow, AllSure, Sure
<1>2. local[p].cmd # "upgrade"
  BY DEF Settled, InForce
<1>3. \A q \in Proc \ {p} : local'[q] = local[q]
  BY StateChangesInside DEF Ground
<1>4. state' = state
  BY ProceedQuiet DEF Quiet, Ground, OnePin
<1>5. CASE MoveRest(p) \/ WriteFirstSnapshot(p) \/ WriteSnapshots(p)
  <2>1. local[p].pc \in {"moveRest", "snapshot", "snapshots"}
    BY <1>5 DEF MoveRest, WriteFirstSnapshot, WriteSnapshots
  <2>2. local[p].cmd \in {"init", "cycle"} /\ local[p].pc \in Acting
    BY <1>1, <1>2, <2>1 DEF Equipped, Acting
  <2>3. state = NoState
    BY <1>1, <2>1, <2>2 DEF Knows, Certain
  <2>4. InCriticalSection(p)
    BY <2>2 DEF InCriticalSection
  <2>5. \A q \in Proc \ {p} : local'[q].pc # "write"
    BY <1>3, <2>4, AloneInside DEF InCriticalSection, Acting
  <2>6. local'[p].pc = "write" => snapshot' = {local[p].ver} /\ local'[p].ver = local[p].ver
    BY <1>1, <1>5 DEF MoveRest, WriteFirstSnapshot, WriteSnapshots, Goto, Ground, TypeOK, Local
  <2> QED BY <1>4, <2>3, <2>5, <2>6 DEF Rendered
<1>6. CASE ~(MoveRest(p) \/ WriteFirstSnapshot(p) \/ WriteSnapshots(p))
  <2>1. snapshot' = snapshot
    BY <1>6
    DEF Proceed, Shifting, AdvanceGatePasses, AdvanceBlocked, Acquire, LockTimeout, Recheck,
        RecheckFails, Seed, IoFails, Release, Teardown, TeardownFails, OnlyLocal
  <2>2. local'[p].pc = "write" => local'[p].cmd \notin {"init", "cycle"}
    <3> USE <1>1 DEF Ground, TypeOK, Goto, Return, Resting, Local
    <3>1. CASE Recheck(p)
      BY <3>1 DEF Recheck, FirstEffect
    <3>2. CASE Seed(p)
      BY <1>2, <3>2 DEF Seed, Equipped
    <3>3. CASE Acquire(p) \/ RecheckFails(p) \/ IoFails(p) \/ Release(p)
      BY <3>3 DEF Acquire, RecheckFails, IoFails, Release
    <3>4. CASE AdvanceGatePasses(p)
      BY <3>4 DEF AdvanceGatePasses
    <3>5. CASE AdvanceBlocked(p) \/ LockTimeout(p) \/ Teardown(p) \/ TeardownFails(p)
      BY <3>5 DEF AdvanceBlocked, LockTimeout, Teardown, TeardownFails
    <3> QED BY <1>6, <3>1, <3>2, <3>3, <3>4, <3>5 DEF Proceed, Shifting
  <2> QED BY <1>3, <1>4, <2>1, <2>2 DEF Settled, Rendered
<1> QED BY <1>5, <1>6

\* After its first reading a command keeps its name and its profile until it
\* returns.
LEMMA ProceedKeepsCommand ==
    ASSUME TypeOK, NEW p \in Proc, Proceed(p)
    PROVE  \/ local'[p] = Resting
           \/ local'[p].cmd = local[p].cmd /\ local'[p].ver = local[p].ver
<1> USE DEF TypeOK, Goto, Return, Local
<1>1. CASE AdvanceGatePasses(p)
  BY <1>1 DEF AdvanceGatePasses
<1>6. CASE Recheck(p)
  BY <1>6 DEF Recheck
<1>2. CASE AdvanceBlocked(p) \/ LockTimeout(p) \/ Teardown(p) \/ TeardownFails(p)
  BY <1>2 DEF AdvanceBlocked, LockTimeout, Teardown, TeardownFails
<1>3. CASE Acquire(p) \/ RecheckFails(p) \/ IoFails(p) \/ Seed(p) \/ Release(p)
  BY <1>3 DEF Acquire, RecheckFails, IoFails, Seed, Release
<1>4. CASE Archive(p) \/ MoveState(p) \/ MoveRest(p) \/ Write(p)
  BY <1>4 DEF Archive, MoveState, MoveRest, Write
<1>5. CASE WriteFirstSnapshot(p) \/ WriteSnapshots(p)
  BY <1>5 DEF WriteFirstSnapshot, WriteSnapshots
<1> QED BY <1>1, <1>2, <1>3, <1>4, <1>5, <1>6 DEF Proceed

LEMMA ProceedInForce ==
    ASSUME Ground, Settled, NEW p \in Proc, Proceed(p), Pins \subseteq Pins'
    PROVE  InForce'
<1>1. local'[p].cmd # "upgrade"
  BY ProceedKeepsCommand DEF Ground, Settled, InForce, Resting
<1>2. local'[p].cmd \in {"advance", "rewind", "cycle"} => local'[p].ver \in Pins'
  BY ProceedKeepsCommand DEF Ground, Settled, InForce, Resting
<1> QED BY <1>1, <1>2, KeepsInForce DEF Ground

LEMMA MoveStateSettled ==
    ASSUME Ground, Settled, NEW p \in Proc, Archive(p) \/ MoveState(p)
    PROVE  Settled'
<1>1. /\ Proceed(p) /\ InCriticalSection(p) /\ local[p].pc \in {"archive", "moveState"}
      /\ local[p] \in Local
  BY DEF Proceed, Archive, MoveState, InCriticalSection, Acting, Ground, TypeOK
<1>2. local[p].cmd = "cycle" /\ state = local[p].base /\ state # NoState
  <2>1. local[p].cmd = "cycle" /\ state = local[p].base /\ local[p].pc \in Acting
    BY <1>1 DEF Ground, AllKnow, Knows, AllEquipped, Equipped, Acting
  <2> QED BY <2>1, ActsOnState
<1>3. Pins = {local[p].base.pin}
  BY <1>1, <1>2, WriterKnowsPins
<1>4. /\ local'[p].pc \in {"moveState", "moveRest"}
      /\ local'[p].cmd = local[p].cmd /\ local'[p].base = local[p].base
  BY <1>1 DEF Archive, MoveState, Goto, Local, Ground, TypeOK
<1>5. Pins \subseteq Pins'
  <2>1. CASE Archive(p)
    BY <1>2, <2>1 DEF Archive, Pins
  <2>2. CASE MoveState(p)
    <3>1. state' = NoState /\ local'[p].pc = "moveRest"
      BY <1>1, <2>2 DEF MoveState, Goto, Local, Ground, TypeOK
    <3>2. Renewing(p)'
      BY <1>2, <1>4, <3>1 DEF Renewing
    <3> QED BY <1>3, <1>4, <3>1, <3>2 DEF Pins
  <2> QED BY <2>1, <2>2
<1>6. InForce'
  BY <1>1, <1>5, ProceedInForce
<1>7. snapshot' = snapshot /\ state' \in {state, NoState}
  BY DEF Archive, MoveState
<1>8. \A q \in Proc : local'[q].pc # "write"
  BY <1>1, <1>4, AloneInside, StateChangesInside DEF Ground, InCriticalSection, Acting
<1>9. Rendered'
  BY <1>7, <1>8 DEF Settled, Rendered
<1>10. CursorInProfile'
  BY <1>7 DEF Settled, CursorInProfile
<1> QED BY <1>6, <1>9, <1>10 DEF Settled

LEMMA WriteSettled ==
    ASSUME Ground, Settled, NEW p \in Proc, Write(p)
    PROVE  Settled'
<1>1. /\ Proceed(p) /\ InCriticalSection(p) /\ local[p].pc = "write" /\ local[p].pc \in Acting
      /\ local[p] \in Local /\ Equipped(local[p]) /\ Knows(p)
      /\ Certain(local[p]) /\ Aimed(local[p])
  BY DEF Proceed, Write, InCriticalSection, Acting, Ground, TypeOK, AllEquipped, AllKnow,
         AllSure, Sure
<1>2. local[p].cmd \in {"init", "advance", "rewind", "cycle", "stop"}
  BY <1>1 DEF Equipped, Mutator, Settled, InForce
<1>3. state' = NewState(local[p]) /\ state' # NoState
  <2>1. NewState(local[p]) \in ProjectState
    BY <1>1, NewStateTyped
  <2> QED BY <2>1, WorkflowAssumption DEF Write
<1>4. local[p].cmd # "init" => local[p].base \in ProjectState /\ local[p].base # NoState
  BY <1>1, ActsOnState
<1>5. local[p].cmd \notin {"init", "cycle"} => state = local[p].base /\ state # NoState
  BY <1>1, <1>4 DEF Knows
<1>6. /\ local[p].cmd = "init" => Pins = {}
      /\ local[p].cmd # "init" => Pins = {local[p].base.pin}
      /\ local[p].cmd \in {"advance", "rewind", "cycle"} => local[p].ver = local[p].base.pin
  BY <1>1, WriterKnowsPins
<1>7. state'.pin = IF local[p].cmd = "init" THEN local[p].ver ELSE local[p].base.pin
  BY <1>2, <1>3, <1>4 DEF NewState, ProjectState
<1>8. Pins \subseteq Pins'
  BY <1>3, <1>6, <1>7 DEF Pins
<1>9. InForce'
  BY <1>1, <1>8, ProceedInForce
<1>10. \A q \in Proc : local'[q].pc # "write"
  <2>1. local'[p].pc = "release"
    BY <1>1 DEF Write, Goto, Local, Ground, TypeOK
  <2> QED BY <1>1, <2>1, AloneInside, StateChangesInside DEF Ground, InCriticalSection, Acting
<1>11. snapshot' = {state'.pin}
  <2>1. snapshot' = snapshot
    BY DEF Write
  <2>2. CASE local[p].cmd \in {"init", "cycle"}
    BY <1>1, <1>6, <1>7, <2>1, <2>2 DEF Settled, Rendered
  <2>3. CASE local[p].cmd \notin {"init", "cycle"}
    BY <1>5, <1>7, <2>1, <2>3 DEF Settled, Rendered
  <2> QED BY <2>2, <2>3
<1>12. Rendered'
  BY <1>10, <1>11 DEF Rendered
<1>13. InProfile(state'.pin, state'.cursor)
  <2>1. CASE local[p].cmd = "stop"
    <3>1. state'.cursor = state.cursor /\ state'.pin = state.pin
      BY <1>3, <1>4, <1>5, <2>1 DEF NewState, ProjectState
    <3> QED BY <1>5, <2>1, <3>1 DEF Settled, CursorInProfile
  <2>2. CASE local[p].cmd # "stop"
    <3>1. state'.cursor = local[p].to /\ state'.pin = local[p].ver
      BY <1>2, <1>3, <1>4, <1>6, <1>7, <2>2 DEF NewState, ProjectState
    <3>2. InProfile(local[p].ver, local[p].to)
      BY <1>1, <1>2, <2>2, NextStepsInProfile DEF Aimed
    <3> QED BY <3>1, <3>2
  <2> QED BY <2>1, <2>2
<1> QED BY <1>9, <1>12, <1>13 DEF Settled, CursorInProfile

LEMMA SettledInit == Init => Settled
BY DEF Init, Settled, InForce, Rendered, CursorInProfile, Resting

LEMMA SettledStep ==
    ASSUME OnePin
    PROVE  Ground /\ Settled /\ [Next]_vars => Settled'
<1> SUFFICES ASSUME Ground, Settled, [Next]_vars PROVE Settled'
  OBVIOUS
<1>1. ASSUME NEW p \in Proc, Read(p) PROVE Settled'
  BY <1>1, ReadSettled
<1>2. ASSUME NEW p \in Proc, Proceed(p), ~Shifting(p) PROVE Settled'
  <2>1. Quiet(p)
    BY <1>2, ProceedQuiet DEF Ground, OnePin
  <2>2. InForce'
    BY <1>2, <2>1, QuietKeepsPins, ProceedInForce
  <2>3. Rendered'
    BY <1>2, SnapshotSteps
  <2>4. CursorInProfile'
    BY <2>1 DEF Quiet, Settled, CursorInProfile
  <2> QED BY <2>2, <2>3, <2>4 DEF Settled
<1>3. ASSUME NEW p \in Proc, Shifting(p) PROVE Settled'
  BY <1>3, MoveStateSettled, WriteSettled DEF Shifting
<1>4. ASSUME NEW p \in Proc, Crash(p) PROVE Settled'
  BY <1>4 DEF Crash, OnePin, Unfailing
<1>5. CASE AgentSetup \/ UNCHANGED vars
  BY <1>5
  DEF AgentSetup, vars, Settled, InForce, Pins, Renewing, Rendered, CursorInProfile
<1> QED BY <1>1, <1>2, <1>3, <1>4, <1>5 DEF Next

LEMMA SettledInvariant ==
    ASSUME OnePin
    PROVE  Spec => [](Ground /\ Settled)
BY GroundInvariant, GroundStep, SettledInit, SettledStep, PTL DEF Spec

\* However advances, rewinds, cycles, stops and inits interleave, the cursor is a
\* step of the profile the project is pinned to.
THEOREM CursorStaysInProfile ==
    ASSUME OnePin
    PROVE  Spec => []CursorInProfile
<1>1. Settled => CursorInProfile
  BY DEF Settled
<1> QED BY <1>1, SettledInvariant, PTL

\* An advance that is about to write goes to the step that follows the cursor on
\* disk in the profile pinned on disk, though it read both before the gate ran.
THEOREM AdvancesFollowThePin ==
    ASSUME OnePin
    PROVE  Spec => []AdvanceFollowsPin
<1>1. Ground /\ Settled => AdvanceFollowsPin
  <2> SUFFICES ASSUME Ground, Settled, NEW p \in Proc,
                      local[p].cmd = "advance", local[p].pc = "write"
               PROVE  local[p].to \in NextSteps(state.pin, state.cursor)
    BY DEF AdvanceFollowsPin
  <2>1. local[p].pc \in Acting /\ InCriticalSection(p)
    BY DEF Acting, InCriticalSection
  <2>2. state = local[p].base /\ local[p].base.cursor = local[p].from
    BY <2>1 DEF Ground, AllKnow, Knows, AllSure, Sure, Certain
  <2>3. local[p].ver = local[p].base.pin
    BY <2>1, WriterKnowsPins
  <2>4. local[p].to \in NextSteps(local[p].ver, local[p].from)
    BY <2>1 DEF Ground, AllSure, Sure, Aimed
  <2> QED BY <2>2, <2>3, <2>4
<1> QED BY <1>1, SettledInvariant, PTL

\* When no command writes, the snapshots on disk render the pinned profile.
THEOREM SnapshotsMatchThePin ==
    ASSUME OnePin
    PROVE  Spec => []SnapshotMatchesPin
<1>1. Settled => SnapshotMatchesPin
  BY DEF Settled, Rendered, SnapshotMatchesPin
<1> QED BY <1>1, SettledInvariant, PTL

----------------------------------------------------------------------------
(* Gates *)

\* A project that only goes forward, in profiles that name no step twice; its
\* commands may die and fail.
ForwardOnly ==
    /\ Command \cap {"rewind", "cycle", "upgrade"} = {}
    /\ \A v \in Version : \A i, j \in DOMAIN StepsOf[v] :
          StepsOf[v][i].stepId = StepsOf[v][j].stepId => i = j

\* In the profile v, l comes no later than m.
NotAfter(v, l, m) ==
    \E i, j \in DOMAIN StepsOf[v] : i <= j /\ StepsOf[v][i] = l /\ StepsOf[v][j] = m

\* The gate was run at the cursor or where the cursor has left since.
Gated(l) ==
    l.cmd = "advance" =>
        /\ state # NoState
        /\ l.ver = state.pin
        /\ NotAfter(l.ver, l.from, state.cursor)
        /\ l.pc \in {"lock", "recheck"} \cup Acting =>
              /\ NotAfter(l.ver, l.from, l.gate)
              /\ NotAfter(l.ver, l.gate, state.cursor)

Forward ==
    /\ CursorInProfile
    /\ \A p \in Proc : /\ local[p].cmd \notin {"rewind", "cycle", "upgrade"}
                       /\ Gated(local[p])

LEMMA StepIndices ==
    ASSUME NEW v \in Version
    PROVE  DOMAIN StepsOf[v] \subseteq Int
BY WorkflowAssumption

LEMMA NotAfterSelf ==
    ASSUME NEW v \in Version, NEW l, InProfile(v, l)
    PROVE  NotAfter(v, l, l)
BY StepIndices DEF InProfile, NotAfter

LEMMA NotAfterTransitive ==
    ASSUME ForwardOnly, NEW v \in Version, NEW l, NEW m, NEW n,
           NotAfter(v, l, m), NotAfter(v, m, n)
    PROVE  NotAfter(v, l, n)
<1>1. PICK i, j \in DOMAIN StepsOf[v] : i <= j /\ StepsOf[v][i] = l /\ StepsOf[v][j] = m
  BY DEF NotAfter
<1>2. PICK h, k \in DOMAIN StepsOf[v] : h <= k /\ StepsOf[v][h] = m /\ StepsOf[v][k] = n
  BY DEF NotAfter
<1>3. j = h
  BY <1>1, <1>2 DEF ForwardOnly
<1>4. i <= k
  BY <1>1, <1>2, <1>3, StepIndices
<1> QED BY <1>1, <1>2, <1>4 DEF NotAfter

LEMMA NotAfterBothWays ==
    ASSUME ForwardOnly, NEW v \in Version, NEW l, NEW m,
           NotAfter(v, l, m), NotAfter(v, m, l)
    PROVE  l = m
<1>1. PICK i, j \in DOMAIN StepsOf[v] : i <= j /\ StepsOf[v][i] = l /\ StepsOf[v][j] = m
  BY DEF NotAfter
<1>2. PICK h, k \in DOMAIN StepsOf[v] : h <= k /\ StepsOf[v][h] = m /\ StepsOf[v][k] = l
  BY DEF NotAfter
<1>3. j = h /\ i = k
  BY <1>1, <1>2 DEF ForwardOnly
<1>4. i = j
  BY <1>1, <1>2, <1>3, StepIndices
<1> QED BY <1>1, <1>4

LEMMA NextStepIsLater ==
    ASSUME ForwardOnly, NEW v \in Version, NEW l, InProfile(v, l),
           NEW next \in NextSteps(v, l)
    PROVE  NotAfter(v, l, next)
<1>1. PICK i \in DOMAIN StepsOf[v] : StepsOf[v][i] = l
  BY DEF InProfile
<1>2. PICK j \in DOMAIN StepsOf[v] :
        j + 1 \in DOMAIN StepsOf[v] /\ StepsOf[v][j].stepId = l.stepId /\ next = StepsOf[v][j + 1]
  BY DEF NextSteps
<1>3. i = j
  BY <1>1, <1>2 DEF ForwardOnly
<1>4. i <= i + 1
  BY StepIndices
<1> QED BY <1>1, <1>2, <1>3, <1>4 DEF NotAfter

\* Without cycles state.json changes by the writes of commands alone.
LEMMA OnlyWriteChanges ==
    ASSUME Ground, Forward, NEW p \in Proc, Read(p) \/ Proceed(p), ~Write(p)
    PROVE  state' = state
<1>1. ~MoveState(p)
  BY DEF Forward, MoveState, Ground, AllEquipped, Equipped
<1>2. CASE Read(p)
  BY <1>2
  DEF Read, AdvanceRead, RewindRead, CycleRead, StopRead, UpgradeRead, InitStart, OnlyLocal
<1>3. CASE Proceed(p)
  BY <1>1, <1>3
  DEF Proceed, AdvanceGatePasses, AdvanceBlocked, Acquire, LockTimeout, Recheck, RecheckFails,
      Archive, MoveRest, WriteFirstSnapshot, WriteSnapshots, Seed, IoFails, Release, Teardown,
      TeardownFails, OnlyLocal
<1> QED BY <1>2, <1>3

\* What the step of p leaves p with, while state.json stays.
LEMMA ForwardByOne ==
    ASSUME Ground, Forward, NEW p \in Proc, Read(p) \/ Proceed(p), state' = state,
           NEW l, local'[p] = l, Gated(l), l.cmd \notin {"rewind", "cycle", "upgrade"}
    PROVE  Forward'
<1>1. \A q \in Proc \ {p} : local'[q] = local[q]
  BY StateChangesInside DEF Ground
<1> QED BY <1>1 DEF Forward, Gated, CursorInProfile

LEMMA ReadForward ==
    ASSUME ForwardOnly, Ground, Forward, NEW p \in Proc, Read(p)
    PROVE  Forward'
<1>1. local \in [Proc -> Local] /\ state' = state
  BY OnlyWriteChanges
  DEF Ground, TypeOK, Read, AdvanceRead, RewindRead, CycleRead, StopRead, UpgradeRead,
      InitStart, OnlyLocal
<1>2. CASE AdvanceRead(p)
  <2>1. NotAfter(state.pin, state.cursor, state.cursor)
    BY <1>2, NotAfterSelf
    DEF AdvanceRead, Forward, CursorInProfile, Ground, TypeOK, ProjectState
  <2> DEFINE l == [Resting EXCEPT !.pc = "gate", !.cmd = "advance",
                                  !.from = state.cursor, !.ver = state.pin]
  <2>2. Gated(l) /\ l.cmd = "advance" /\ local'[p] = l
    BY <1>1, <1>2, <2>1 DEF AdvanceRead, Begin, Resting, Gated, Acting
  <2> QED BY <1>1, <2>2, ForwardByOne
<1>3. CASE StopRead(p) \/ InitStart(p)
  <2>1. local'[p].cmd \in {"stop", "init"}
    BY <1>1, <1>3 DEF StopRead, InitStart, Begin, Resting
  <2> QED BY <1>1, <2>1, ForwardByOne DEF Gated
<1>4. ~RewindRead(p) /\ ~CycleRead(p) /\ ~UpgradeRead(p)
  BY DEF ForwardOnly, RewindRead, CycleRead, UpgradeRead, Idle
<1> QED BY <1>2, <1>3, <1>4 DEF Read

LEMMA ProceedForward ==
    ASSUME ForwardOnly, Ground, Forward, NEW p \in Proc, Proceed(p), ~Write(p)
    PROVE  Forward'
<1>1. /\ local \in [Proc -> Local] /\ local[p] \in Local /\ Equipped(local[p])
      /\ state' = state /\ Gated(local[p])
      /\ local[p].cmd \notin {"rewind", "cycle", "upgrade"}
  BY OnlyWriteChanges DEF Ground, TypeOK, AllEquipped, Forward
<1>2. ASSUME local'[p] = Resting PROVE Forward'
  BY <1>1, <1>2, ForwardByOne DEF Resting, Gated
<1>3. ASSUME NEW where \in Place, local'[p] = [local[p] EXCEPT !.pc = where],
             local[p].pc \in {"lock", "recheck"} \cup Acting \/ where \notin {"lock", "recheck"} \cup Acting
      PROVE  Forward'
  <2> DEFINE l == [local[p] EXCEPT !.pc = where]
  <2>1. l.cmd = local[p].cmd /\ Gated(l)
    BY <1>1, <1>3 DEF Gated, Local
  <2> QED BY <1>1, <1>3, <2>1, ForwardByOne
<1>4. CASE AdvanceGatePasses(p)
  <2>1. PICK next \in NextSteps(local[p].ver, local[p].from) :
          local' = [local EXCEPT ![p].pc = "lock", ![p].to = next,
                                 ![p].gate = state.cursor]
    BY <1>4 DEF AdvanceGatePasses
  <2> DEFINE l == [local[p] EXCEPT !.pc = "lock", !.to = next, !.gate = state.cursor]
  <2>2. local[p].cmd = "advance" /\ state # NoState
    BY <1>1, <1>4 DEF AdvanceGatePasses, Equipped
  <2>3. NotAfter(local[p].ver, state.cursor, state.cursor)
    BY <1>1, <2>2, NotAfterSelf
    DEF Gated, Forward, CursorInProfile, Ground, TypeOK, ProjectState
  <2>4. Gated(l) /\ l.cmd = "advance" /\ local'[p] = l
    BY <1>1, <2>1, <2>2, <2>3 DEF Gated, Local
  <2> QED BY <1>1, <2>4, ForwardByOne
<1>5. CASE Recheck(p)
  <2> DEFINE l == [local[p] EXCEPT !.pc = FirstEffect(local[p].cmd), !.base = state]
  <2>1. local'[p] = l /\ local[p].pc = "recheck"
    BY <1>1, <1>5 DEF Recheck
  <2>2. l.cmd = local[p].cmd /\ Gated(l)
    BY <1>1, <2>1 DEF Gated, Local
  <2> QED BY <1>1, <2>1, <2>2, ForwardByOne
<1>6. CASE AdvanceBlocked(p) \/ LockTimeout(p) \/ Teardown(p) \/ TeardownFails(p)
  BY <1>1, <1>2, <1>6 DEF AdvanceBlocked, LockTimeout, Teardown, TeardownFails, Return
<1>7. CASE Acquire(p) \/ RecheckFails(p)
  BY <1>1, <1>3, <1>7 DEF Acquire, RecheckFails, Goto, Place
<1>8. CASE IoFails(p) \/ Seed(p)
  BY <1>1, <1>3, <1>8 DEF IoFails, Seed, Goto, Place, Acting
<1>9. CASE Archive(p) \/ MoveState(p) \/ MoveRest(p)
  BY <1>1, <1>9 DEF Archive, MoveState, MoveRest, Equipped
<1>10. CASE WriteFirstSnapshot(p) \/ WriteSnapshots(p)
  BY <1>1, <1>3, <1>10 DEF WriteFirstSnapshot, WriteSnapshots, Goto, Place, Acting
<1>11. CASE Release(p)
  BY <1>1, <1>2, <1>3, <1>11 DEF Release, Goto, Return, Place, Acting
<1> QED
  BY <1>4, <1>5, <1>6, <1>7, <1>8, <1>9, <1>10, <1>11 DEF Proceed

LEMMA WriteForward ==
    ASSUME ForwardOnly, Ground, Forward, NEW p \in Proc, Write(p)
    PROVE  Forward'
<1>1. /\ Proceed(p) /\ local[p].pc = "write" /\ local[p].pc \in Acting
      /\ local \in [Proc -> Local] /\ local[p] \in Local /\ Equipped(local[p]) /\ Knows(p)
      /\ Certain(local[p]) /\ Aimed(local[p]) /\ Gated(local[p])
  BY DEF Proceed, Write, Acting, Ground, TypeOK, AllEquipped, AllKnow, AllSure, Sure, Forward
<1>2. local[p].cmd \in {"init", "advance", "stop"}
  BY <1>1 DEF Forward, Equipped, Mutator
<1>3. state = local[p].base /\ state' = NewState(local[p])
  BY <1>1, <1>2 DEF Write, Knows
<1>4. local'[p] = [local[p] EXCEPT !.pc = "release"]
  BY <1>1 DEF Write, Goto
<1>5. \A q \in Proc \ {p} : local'[q] = local[q]
  BY <1>1, StateChangesInside DEF Ground
<1>6. state' \in ProjectState /\ state' # NoState
  BY <1>1, <1>3, NewStateTyped, WorkflowAssumption
<1>7. CASE local[p].cmd = "init"
  <2>1. state = NoState
    BY <1>1, <1>3, <1>7 DEF Certain
  <2>2. \A q \in Proc : local'[q].cmd \notin {"advance", "rewind", "cycle", "upgrade"}
    BY <1>1, <1>4, <1>5, <1>7, <2>1 DEF Forward, Gated, Local
  <2>3. InProfile(state'.pin, state'.cursor)
    BY <1>1, <1>3, <1>7 DEF NewState, Aimed
  <2> QED BY <2>2, <2>3 DEF Forward, Gated, CursorInProfile
<1>8. CASE local[p].cmd # "init"
  <2>1. state \in ProjectState /\ state # NoState /\ state.pin \in Version
    BY <1>1, <1>3, <1>8, ActsOnState DEF ProjectState
  <2>2. /\ state'.pin = state.pin
        /\ InProfile(state.pin, state'.cursor)
        /\ NotAfter(state.pin, state.cursor, state'.cursor)
    <3>1. CASE local[p].cmd = "stop"
      <4>1. state'.pin = state.pin /\ state'.cursor = state.cursor
        BY <1>3, <2>1, <3>1 DEF NewState, ProjectState
      <4> QED BY <2>1, <4>1, NotAfterSelf DEF Forward, CursorInProfile
    <3>2. CASE local[p].cmd = "advance"
      <4>1. state'.pin = state.pin /\ state'.cursor = local[p].to
        BY <1>3, <2>1, <3>2 DEF NewState, ProjectState
      <4>2. local[p].to \in NextSteps(state.pin, state.cursor)
        BY <1>1, <1>3, <3>2 DEF Aimed, Certain, Gated
      <4> QED BY <2>1, <4>1, <4>2, NextStepsInProfile, NextStepIsLater
              DEF Forward, CursorInProfile
    <3> QED BY <1>2, <1>8, <3>1, <3>2
  <2>3. ASSUME NEW q \in Proc PROVE Gated(local[q])'
    <3>1. /\ local'[q].cmd = local[q].cmd /\ local'[q].ver = local[q].ver
          /\ local'[q].from = local[q].from /\ local'[q].gate = local[q].gate
          /\ local'[q].pc \in {"lock", "recheck"} \cup Acting =>
                local[q].pc \in {"lock", "recheck"} \cup Acting
      BY <1>1, <1>4, <1>5 DEF Local, Acting
    <3>2. SUFFICES ASSUME local[q].cmd = "advance" PROVE Gated(local[q])'
      BY <3>1 DEF Gated
    <3>3. \A l : NotAfter(state.pin, l, state.cursor) => NotAfter(state.pin, l, state'.cursor)
      BY <2>1, <2>2, NotAfterTransitive
    <3>4. Gated(local[q])
      BY DEF Forward
    <3> QED BY <1>6, <2>2, <3>1, <3>2, <3>3, <3>4 DEF Gated
  <2>4. \A q \in Proc : local'[q].cmd \notin {"rewind", "cycle", "upgrade"}
    BY <1>1, <1>2, <1>4, <1>5 DEF Forward, Local
  <2> QED BY <2>2, <2>3, <2>4 DEF Forward, CursorInProfile
<1> QED BY <1>7, <1>8

LEMMA ForwardStep ==
    ASSUME ForwardOnly
    PROVE  Ground /\ Forward /\ [Next]_vars => Forward'
<1> SUFFICES ASSUME Ground, Forward, [Next]_vars PROVE Forward'
  OBVIOUS
<1>1. ASSUME NEW p \in Proc, Read(p) PROVE Forward'
  BY <1>1, ReadForward
<1>2. ASSUME NEW p \in Proc, Proceed(p) PROVE Forward'
  BY <1>2, ProceedForward, WriteForward
<1>3. ASSUME NEW p \in Proc, Crash(p) PROVE Forward'
  BY <1>3
  DEF Crash, Begin, OnlyLocal, Resting, Forward, Gated, CursorInProfile, Ground, TypeOK
<1>4. CASE AgentSetup \/ UNCHANGED vars
  BY <1>4 DEF AgentSetup, vars, Forward, Gated, CursorInProfile
<1> QED BY <1>1, <1>2, <1>3, <1>4 DEF Next

\* Where the cursor only goes forward an advance that is about to leave a step has
\* passed the gate of that step, though the gate read state.json for itself and
\* other advances raced with it.
THEOREM AdvancesAreGated ==
    ASSUME ForwardOnly
    PROVE  Spec => []GateBacked
<1>1. Init => Forward
  BY DEF Init, Forward, Gated, CursorInProfile, Resting
<1>2. Ground /\ Forward => GateBacked
  <2> SUFFICES ASSUME Ground, Forward, NEW p \in Proc,
                      local[p].cmd = "advance", local[p].pc = "write"
               PROVE  local[p].gate = state.cursor
    BY DEF GateBacked
  <2>1. state = local[p].base /\ local[p].base.cursor = local[p].from
    BY DEF Ground, AllKnow, Knows, AllSure, Sure, Certain, Acting
  <2>2. /\ state # NoState /\ local[p].ver = state.pin
        /\ NotAfter(state.pin, state.cursor, local[p].gate)
        /\ NotAfter(state.pin, local[p].gate, state.cursor)
    BY <2>1 DEF Forward, Gated, Acting
  <2> QED BY <2>2, NotAfterBothWays DEF Ground, TypeOK, ProjectState
<1> QED BY <1>1, <1>2, GroundInvariant, GroundStep, ForwardStep, PTL DEF Spec
=============================================================================
