--------------------------- MODULE WorkflowProofs ---------------------------
(***************************************************************************)
(* Proofs about the commands on state.json, for every set of processes,     *)
(* every family of SOP versions and every choice of commands, with crashes  *)
(* and failing file operations.                                             *)
(***************************************************************************)
EXTENDS Workflow, SequenceTheorems, TLAPS

----------------------------------------------------------------------------
(* What a command has in memory at each place of its text *)

Mutator == {"init", "advance", "rewind", "cycle", "stop", "upgrade"}

\* The fields a command will use are set: where it goes, which profile, and
\* which state it re-read.
Equipped(l) ==
    /\ l.pc = "gate" => l.cmd = "advance" /\ l.from \in Location /\ l.ver \in Version
    /\ l.pc \in {"lock", "recheck"} \cup Acting =>
        /\ l.cmd \in Mutator
        /\ l.cmd \in {"init", "advance", "rewind", "cycle"} => l.to \in Location
        /\ l.cmd \in {"init", "cycle", "upgrade"} => l.ver \in Version
    /\ l.pc \in Acting /\ l.cmd # "init" => l.base \in ProjectState
    /\ l.pc \in {"archive", "moveState", "moveRest"} => l.cmd = "cycle"
    /\ l.pc \in {"snapshot", "snapshots"} => l.cmd \in {"init", "cycle", "upgrade"}
    /\ l.pc = "seed" => l.cmd = "upgrade"

AllEquipped == \A p \in Proc : Equipped(local[p])

----------------------------------------------------------------------------
(* Profiles *)

LEMMA StepsAreLocations ==
    ASSUME NEW v \in Version, NEW i \in DOMAIN StepsOf[v]
    PROVE  StepsOf[v][i] \in Location
BY WorkflowAssumption DEF Location

LEMMA NextStepsAreLocations ==
    ASSUME NEW v \in Version, NEW l
    PROVE  NextSteps(v, l) \subseteq Location
BY StepsAreLocations DEF NextSteps

LEMMA EarlierStepsAreLocations ==
    ASSUME NEW v \in Version, NEW l
    PROVE  EarlierSteps(v, l) \subseteq Location
BY StepsAreLocations DEF EarlierSteps

LEMMA FirstStepIsStart ==
    ASSUME NEW v \in Version
    PROVE  StepsOf[v][1] = Start /\ Start \in Location
<1>1. 1 \in DOMAIN StepsOf[v]
  BY WorkflowAssumption
<1> QED BY <1>1, StepsAreLocations, WorkflowAssumption

----------------------------------------------------------------------------
(* Typing *)

LEMMA RestingTyped == Resting \in Local /\ Equipped(Resting)
BY DEF Resting, Local, Place, Equipped, Acting

LEMMA TypeInit == Init => TypeOK /\ AllEquipped
<1> SUFFICES ASSUME Init PROVE TypeOK /\ AllEquipped
  OBVIOUS
<1>1. local \in [Proc -> Local]
  BY RestingTyped DEF Init
<1>2. archive \in Seq(ProjectState \cup {NoState})
  BY DEF Init
<1>3. AllEquipped
  BY RestingTyped DEF Init, AllEquipped
<1> QED BY <1>1, <1>2, <1>3 DEF Init, TypeOK

\* A step that gives one process a typed, equipped memory keeps all of them so.
LEMMA OneProcess ==
    ASSUME TypeOK, AllEquipped, NEW p \in Proc, NEW l \in Local, Equipped(l),
           local' = [local EXCEPT ![p] = l]
    PROVE  local' \in [Proc -> Local] /\ AllEquipped'
BY DEF TypeOK, AllEquipped

\* The commands' first reading of state.json.
LEMMA ReadTyped ==
    ASSUME TypeOK, AllEquipped, NEW p \in Proc, Read(p)
    PROVE  TypeOK' /\ AllEquipped'
<1> USE DEF TypeOK, OnlyLocal, Begin
<1>1. CASE AdvanceRead(p)
  <2> DEFINE l == [Resting EXCEPT !.pc = "gate", !.cmd = "advance",
                                  !.from = state.cursor, !.ver = state.pin]
  <2>1. l \in Local /\ Equipped(l)
    BY <1>1 DEF AdvanceRead, ProjectState, Resting, Local, Place, CommandName,
                Equipped, Acting
  <2> QED BY <1>1, <2>1, OneProcess DEF AdvanceRead
<1>2. CASE RewindRead(p)
  <2>1. state \in ProjectState
    BY <1>2 DEF RewindRead
  <2>2. PICK target \in EarlierSteps(state.pin, state.cursor) :
          local' = [local EXCEPT ![p] =
              [Resting EXCEPT !.pc = "lock", !.cmd = "rewind", !.to = target,
                              !.from = state.cursor, !.ver = state.pin]]
    BY <1>2 DEF RewindRead
  <2>3. target \in Location
    BY <2>1, EarlierStepsAreLocations DEF ProjectState
  <2> DEFINE l == [Resting EXCEPT !.pc = "lock", !.cmd = "rewind", !.to = target,
                                  !.from = state.cursor, !.ver = state.pin]
  <2>4. l \in Local /\ Equipped(l)
    BY <2>1, <2>3 DEF ProjectState, Resting, Local, Place, CommandName, Equipped,
                      Acting, Mutator
  <2> QED BY <1>2, <2>2, <2>4, OneProcess DEF RewindRead
<1>3. CASE CycleRead(p)
  <2> DEFINE l == [Resting EXCEPT !.pc = "lock", !.cmd = "cycle",
                                  !.to = StepsOf[state.pin][1],
                                  !.from = state.cursor, !.ver = state.pin]
  <2>1. state \in ProjectState
    BY <1>3 DEF CycleRead
  <2>2. StepsOf[state.pin][1] \in Location
    BY <2>1, FirstStepIsStart DEF ProjectState
  <2>3. l \in Local /\ Equipped(l)
    BY <2>1, <2>2 DEF ProjectState, Resting, Local, Place, CommandName, Equipped,
                      Acting, Mutator
  <2> QED BY <1>3, <2>3, OneProcess DEF CycleRead
<1>4. CASE StopRead(p)
  <2> DEFINE l == [Resting EXCEPT !.pc = IF state.stopped THEN "teardown" ELSE "lock",
                                  !.cmd = "stop", !.from = state.cursor]
  <2>1. l \in Local /\ Equipped(l)
    BY <1>4 DEF StopRead, ProjectState, Resting, Local, Place, CommandName, Equipped,
                Acting, Mutator
  <2> QED BY <1>4, <2>1, OneProcess DEF StopRead
<1>5. CASE UpgradeRead(p)
  <2>1. PICK v \in Version : local' = [local EXCEPT ![p] =
              [Resting EXCEPT !.pc = "lock", !.cmd = "upgrade", !.ver = v]]
    BY <1>5 DEF UpgradeRead
  <2> DEFINE l == [Resting EXCEPT !.pc = "lock", !.cmd = "upgrade", !.ver = v]
  <2>2. l \in Local /\ Equipped(l)
    BY DEF Resting, Local, Place, CommandName, Equipped, Acting, Mutator
  <2> QED BY <1>5, <2>1, <2>2, OneProcess DEF UpgradeRead
<1>6. CASE InitStart(p)
  <2>1. PICK v \in Version : local' = [local EXCEPT ![p] =
              [Resting EXCEPT !.pc = "lock", !.cmd = "init", !.to = Start, !.ver = v]]
    BY <1>6 DEF InitStart
  <2> DEFINE l == [Resting EXCEPT !.pc = "lock", !.cmd = "init", !.to = Start, !.ver = v]
  <2>2. l \in Local /\ Equipped(l)
    BY FirstStepIsStart DEF Resting, Local, Place, CommandName, Equipped, Acting, Mutator
  <2> QED BY <1>6, <2>1, <2>2, OneProcess DEF InitStart
<1> QED BY <1>1, <1>2, <1>3, <1>4, <1>5, <1>6 DEF Read

\* A step that only changes where p is.
LEMMA GotoTyped ==
    ASSUME TypeOK, AllEquipped, NEW p \in Proc, NEW where \in Place, Goto(p, where),
           Equipped([local[p] EXCEPT !.pc = where])
    PROVE  local' \in [Proc -> Local] /\ AllEquipped'
<1> DEFINE l == [local[p] EXCEPT !.pc = where]
<1>1. l \in Local
  BY DEF TypeOK, Local
<1>2. local' = [local EXCEPT ![p] = l]
  BY DEF Goto
<1> QED BY <1>1, <1>2, OneProcess

LEMMA ReturnTyped ==
    ASSUME TypeOK, AllEquipped, NEW p \in Proc, Return(p)
    PROVE  local' \in [Proc -> Local] /\ AllEquipped'
BY RestingTyped, OneProcess DEF Return

\* What a command writes is a state.
LEMMA NewStateTyped ==
    ASSUME NEW l \in Local, Equipped(l), l.pc = "write"
    PROVE  NewState(l) \in ProjectState
<1> USE DEF Equipped, Acting, Mutator, Local, ProjectState, NewState
<1>1. CASE l.cmd \in {"advance", "rewind", "cycle"} BY <1>1
<1>2. CASE l.cmd = "stop" BY <1>2
<1>3. CASE l.cmd = "upgrade" BY <1>3
<1>4. CASE l.cmd = "init" BY <1>4
<1> QED BY <1>1, <1>2, <1>3, <1>4

\* The steps of a command after its first reading.
LEMMA ProceedTyped ==
    ASSUME TypeOK, AllEquipped, NEW p \in Proc, Proceed(p)
    PROVE  TypeOK' /\ AllEquipped'
<1>1. local[p] \in Local /\ Equipped(local[p])
  BY DEF TypeOK, AllEquipped
<1> USE DEF OnlyLocal
<1>2. CASE AdvanceGatePasses(p)
  <2>1. PICK next \in NextSteps(local[p].ver, local[p].from) :
          local' = [local EXCEPT ![p].pc = "lock", ![p].to = next,
                                 ![p].gate = state.cursor]
    BY <1>2 DEF AdvanceGatePasses
  <2>2. next \in Location /\ state.cursor \in Location
    BY <1>1, <1>2, NextStepsAreLocations
    DEF AdvanceGatePasses, Equipped, TypeOK, ProjectState
  <2> DEFINE l == [local[p] EXCEPT !.pc = "lock", !.to = next, !.gate = state.cursor]
  <2>3. l \in Local
    BY <1>1, <2>2 DEF Local, Place
  <2>4. local[p].cmd = "advance"
    BY <1>1, <1>2 DEF AdvanceGatePasses, Equipped
  <2>5. Equipped(l)
    BY <1>1, <2>2, <2>4 DEF Local, Equipped, Acting, Mutator
  <2>6. local' = [local EXCEPT ![p] = l]
    BY <2>1
  <2> QED BY <1>2, <2>3, <2>5, <2>6, OneProcess DEF AdvanceGatePasses, TypeOK
<1>3. CASE AdvanceBlocked(p)
  BY <1>3, ReturnTyped DEF AdvanceBlocked, TypeOK
<1>4. CASE Acquire(p)
  <2>1. Equipped([local[p] EXCEPT !.pc = "recheck"]) /\ "recheck" \in Place
    BY <1>1, <1>4 DEF Acquire, Equipped, Acting, Local, Place
  <2> QED BY <1>4, <2>1, GotoTyped DEF Acquire, TypeOK
<1>5. CASE LockTimeout(p)
  BY <1>5, ReturnTyped DEF LockTimeout, TypeOK
<1>6. CASE Recheck(p)
  <2> DEFINE l == [local[p] EXCEPT !.pc = FirstEffect(local[p].cmd), !.base = state]
  <2>1. FirstEffect(local[p].cmd) \in Place
    BY DEF FirstEffect, Place
  <2>2. l \in Local
    BY <1>1, <2>1 DEF Local, TypeOK
  <2>3. local[p].cmd # "init" => state \in ProjectState
    BY <1>1, <1>6 DEF Recheck, StillApplies, CanUpgrade, TypeOK, Equipped, Mutator
  <2>4. Equipped(l)
    BY <1>1, <1>6, <2>2, <2>3 DEF Recheck, FirstEffect, Local, Equipped, Acting, Mutator
  <2>5. local' = [local EXCEPT ![p] = l]
    BY <1>6 DEF Recheck
  <2> QED BY <1>6, <2>2, <2>4, <2>5, OneProcess DEF Recheck, TypeOK
<1>7. CASE RecheckFails(p)
  <2>1. Equipped([local[p] EXCEPT !.pc = "abort"]) /\ "abort" \in Place
    BY <1>1 DEF Equipped, Acting, Local, Place
  <2> QED BY <1>7, <2>1, GotoTyped DEF RecheckFails, TypeOK
<1>8. CASE Archive(p)
  <2>1. Equipped([local[p] EXCEPT !.pc = "moveState"]) /\ "moveState" \in Place
    BY <1>1, <1>8 DEF Archive, Equipped, Acting, Local, Place
  <2>2. archive' \in Seq(ProjectState \cup {NoState})
    BY <1>8 DEF Archive, TypeOK
  <2> QED BY <1>8, <2>1, <2>2, GotoTyped DEF Archive, TypeOK
<1>9. CASE MoveState(p)
  <2>1. Equipped([local[p] EXCEPT !.pc = "moveRest"]) /\ "moveRest" \in Place
    BY <1>1, <1>9 DEF MoveState, Equipped, Acting, Local, Place
  <2> DEFINE S == ProjectState \cup {NoState}
  <2>2. archive \in [1..Len(archive) -> S] /\ Len(archive) \in Nat
    BY LenProperties DEF TypeOK
  <2>3. archive' \in [1..Len(archive) -> S]
    BY <1>9, <2>2 DEF MoveState, TypeOK
  <2>4. archive' \in Seq(S)
    BY <2>2, <2>3, SeqDef
  <2> QED BY <1>9, <2>1, <2>4, GotoTyped DEF MoveState, TypeOK
<1>10. CASE MoveRest(p)
  <2>1. Equipped([local[p] EXCEPT !.pc = "snapshot"]) /\ "snapshot" \in Place
    BY <1>1, <1>10 DEF MoveRest, Equipped, Acting, Local, Place
  <2> QED BY <1>10, <2>1, GotoTyped DEF MoveRest, TypeOK
<1>18. CASE WriteFirstSnapshot(p)
  <2>1. Equipped([local[p] EXCEPT !.pc = "snapshots"]) /\ "snapshots" \in Place
    BY <1>1, <1>18 DEF WriteFirstSnapshot, Equipped, Acting, Local, Place
  <2>2. local[p].ver \in Version
    BY <1>1, <1>18 DEF WriteFirstSnapshot, Equipped, Acting
  <2> QED BY <1>18, <2>1, <2>2, GotoTyped DEF WriteFirstSnapshot, TypeOK
<1>11. CASE WriteSnapshots(p)
  <2> DEFINE where == IF local[p].cmd = "upgrade" THEN "seed" ELSE "write"
  <2>1. Equipped([local[p] EXCEPT !.pc = where]) /\ where \in Place
    BY <1>1, <1>11 DEF WriteSnapshots, Equipped, Acting, Local, Place
  <2>2. local[p].ver \in Version
    BY <1>1, <1>11 DEF WriteSnapshots, Equipped, Acting
  <2>3. Goto(p, where)
    BY <1>11 DEF WriteSnapshots
  <2> HIDE DEF where
  <2>4. local' \in [Proc -> Local] /\ AllEquipped'
    BY <2>1, <2>3, GotoTyped
  <2> QED BY <1>11, <2>2, <2>4 DEF WriteSnapshots, TypeOK
<1>12. CASE Seed(p)
  <2>1. Equipped([local[p] EXCEPT !.pc = "write"]) /\ "write" \in Place
    BY <1>1, <1>12 DEF Seed, Equipped, Acting, Local, Place
  <2> QED BY <1>12, <2>1, GotoTyped DEF Seed, TypeOK
<1>13. CASE IoFails(p)
  <2>1. Equipped([local[p] EXCEPT !.pc = "abort"]) /\ "abort" \in Place
    BY <1>1 DEF Equipped, Acting, Local, Place
  <2> QED BY <1>13, <2>1, GotoTyped DEF IoFails, TypeOK
<1>14. CASE Write(p)
  <2>1. Equipped([local[p] EXCEPT !.pc = "release"]) /\ "release" \in Place
    BY <1>1 DEF Equipped, Acting, Local, Place
  <2> QED BY <1>1, <1>14, <2>1, GotoTyped, NewStateTyped DEF Write, TypeOK
<1>15. CASE Release(p)
  <2>1. Equipped([local[p] EXCEPT !.pc = "teardown"]) /\ "teardown" \in Place
    BY <1>1 DEF Equipped, Acting, Local, Place
  <2>2. local' \in [Proc -> Local] /\ AllEquipped'
    BY <1>15, <2>1, GotoTyped, ReturnTyped DEF Release
  <2> QED BY <1>15, <2>2 DEF Release, TypeOK
<1>16. CASE Teardown(p)
  BY <1>16, ReturnTyped DEF Teardown, TypeOK
<1>17. CASE TeardownFails(p)
  BY <1>17, ReturnTyped DEF TeardownFails, TypeOK
<1> QED
  BY <1>2, <1>3, <1>4, <1>5, <1>6, <1>7, <1>8, <1>9, <1>10, <1>11, <1>12, <1>13,
     <1>14, <1>15, <1>16, <1>17, <1>18 DEF Proceed

LEMMA CrashTyped ==
    ASSUME TypeOK, AllEquipped, NEW p \in Proc, Crash(p)
    PROVE  TypeOK' /\ AllEquipped'
<1> DEFINE l == [Resting EXCEPT !.pc = "dead"]
<1>1. l \in Local /\ Equipped(l)
  BY DEF Resting, Local, Place, Equipped, Acting
<1> QED BY <1>1, OneProcess DEF Crash, Begin, OnlyLocal, TypeOK

LEMMA TypeStep == TypeOK /\ AllEquipped /\ [Next]_vars => TypeOK' /\ AllEquipped'
<1> SUFFICES ASSUME TypeOK, AllEquipped, [Next]_vars PROVE TypeOK' /\ AllEquipped'
  OBVIOUS
<1>1. ASSUME NEW p \in Proc, Read(p) PROVE TypeOK' /\ AllEquipped'
  BY <1>1, ReadTyped
<1>2. ASSUME NEW p \in Proc, Proceed(p) PROVE TypeOK' /\ AllEquipped'
  BY <1>2, ProceedTyped
<1>3. ASSUME NEW p \in Proc, Crash(p) PROVE TypeOK' /\ AllEquipped'
  BY <1>3, CrashTyped
<1>4. CASE AgentSetup
  BY <1>4 DEF AgentSetup, TypeOK, AllEquipped
<1>5. CASE UNCHANGED vars
  BY <1>5 DEF vars, TypeOK, AllEquipped
<1> QED BY <1>1, <1>2, <1>3, <1>4, <1>5 DEF Next

\* Type correctness of the commands: whatever they interleave with, what they
\* write to state.json, to the snapshots and to the archive is well formed.
THEOREM TypeCorrect == Spec => []TypeOK
<1>1. Spec => [](TypeOK /\ AllEquipped)
  BY TypeInit, TypeStep, PTL DEF Spec
<1> QED BY <1>1, PTL

----------------------------------------------------------------------------
(* The lock *)

\* The process inside a critical section is the one the lock names.
HoldsLock == \A p \in Proc : InCriticalSection(p) => lock = p

Inside == {p \in Proc : InCriticalSection(p)}

\* p keeps its place relative to the lock, and no other process moves.
Stays(p) == InCriticalSection(p)' <=> InCriticalSection(p)

LEMMA OthersStay ==
    ASSUME TypeOK, NEW p \in Proc, NEW l, local' = [local EXCEPT ![p] = l]
    PROVE  \A q \in Proc \ {p} : local'[q] = local[q] /\ Stays(q)
BY DEF TypeOK, Stays, InCriticalSection, Acting

\* The steps that neither take nor leave the lock.
LEMMA WorkingStays ==
    ASSUME TypeOK, AllEquipped, NEW p \in Proc, Read(p) \/ Proceed(p),
           ~Acquire(p), ~Release(p)
    PROVE  lock' = lock /\ \A q \in Proc : Stays(q)
<1>1. local \in [Proc -> Local] /\ Equipped(local[p])
  BY DEF TypeOK, AllEquipped
<1> USE <1>1 DEF InCriticalSection, Acting, Stays, OnlyLocal, Begin, Return, Goto, Idle, Resting
<1>2. CASE Read(p)
  <2>1. CASE AdvanceRead(p) BY <2>1 DEF AdvanceRead
  <2>2. CASE RewindRead(p) BY <2>2 DEF RewindRead
  <2>3. CASE CycleRead(p) BY <2>3 DEF CycleRead
  <2>4. CASE StopRead(p) BY <2>4 DEF StopRead
  <2>5. CASE UpgradeRead(p) BY <2>5 DEF UpgradeRead
  <2>6. CASE InitStart(p) BY <2>6 DEF InitStart
  <2> QED BY <1>2, <2>1, <2>2, <2>3, <2>4, <2>5, <2>6 DEF Read
<1>3. CASE AdvanceGatePasses(p) BY <1>3 DEF AdvanceGatePasses, Local
<1>4. CASE AdvanceBlocked(p) BY <1>4 DEF AdvanceBlocked
<1>5. CASE LockTimeout(p) BY <1>5 DEF LockTimeout
<1>6. CASE Recheck(p)
  <2>1. FirstEffect(local[p].cmd) \in {"archive", "snapshot", "write"}
    BY DEF FirstEffect
  <2> QED BY <1>6, <2>1 DEF Recheck, Local
<1>7. CASE RecheckFails(p) BY <1>7 DEF RecheckFails, Local
<1>8. CASE Archive(p) BY <1>8 DEF Archive, Local
<1>9. CASE MoveState(p) BY <1>9 DEF MoveState, Local
<1>10. CASE MoveRest(p) BY <1>10 DEF MoveRest, Local
<1>17. CASE WriteFirstSnapshot(p) BY <1>17 DEF WriteFirstSnapshot, Local
<1>11. CASE WriteSnapshots(p) BY <1>11 DEF WriteSnapshots, Local
<1>12. CASE Seed(p) BY <1>12 DEF Seed, Local
<1>13. CASE IoFails(p) BY <1>13 DEF IoFails, Local
<1>14. CASE Write(p) BY <1>14 DEF Write, Local
<1>15. CASE Teardown(p) BY <1>15 DEF Teardown
<1>16. CASE TeardownFails(p) BY <1>16 DEF TeardownFails
<1> QED
  BY <1>2, <1>3, <1>4, <1>5, <1>6, <1>7, <1>8, <1>9, <1>10, <1>11, <1>12, <1>13,
     <1>14, <1>15, <1>16, <1>17 DEF Proceed

\* Whoever takes the lock finds every critical section empty.
LEMMA AcquireFindsNobody ==
    ASSUME TypeOK, HoldsLock, NEW p \in Proc, Acquire(p)
    PROVE  /\ Inside = {}
           /\ lock' = p
           /\ \A q \in Proc : InCriticalSection(q)' <=> q = p
<1>1. \A q \in Proc : ~InCriticalSection(q)
  BY DEF HoldsLock, Acquire, LockIsFree, Dead, InCriticalSection, Acting
<1>2. InCriticalSection(p)'
  BY DEF Acquire, Goto, InCriticalSection, Acting, TypeOK, Local
<1>3. \A q \in Proc \ {p} : Stays(q)
  BY OthersStay DEF Acquire, Goto
<1> QED BY <1>1, <1>2, <1>3 DEF Acquire, Inside, Stays

LEMMA ReleaseLeaves ==
    ASSUME TypeOK, NEW p \in Proc, Release(p)
    PROVE  /\ InCriticalSection(p)
           /\ ~InCriticalSection(p)'
           /\ \A q \in Proc \ {p} : Stays(q)
BY OthersStay
DEF Release, Goto, Return, Resting, InCriticalSection, Acting, TypeOK, Local, Stays

LEMMA CrashLeaves ==
    ASSUME TypeOK, NEW p \in Proc, Crash(p)
    PROVE  /\ ~InCriticalSection(p)'
           /\ lock' = lock
           /\ \A q \in Proc \ {p} : Stays(q)
BY OthersStay
DEF Crash, Begin, OnlyLocal, Resting, InCriticalSection, Acting, TypeOK, Stays

LEMMA HoldsLockStep ==
    TypeOK /\ AllEquipped /\ HoldsLock /\ [Next]_vars => HoldsLock'
<1> SUFFICES ASSUME TypeOK, AllEquipped, HoldsLock, [Next]_vars,
                    NEW q \in Proc, InCriticalSection(q)'
             PROVE  lock' = q
  BY DEF HoldsLock
<1>1. ASSUME NEW p \in Proc, Read(p) \/ Proceed(p), ~Acquire(p), ~Release(p)
      PROVE  lock' = q
  BY <1>1, WorkingStays DEF HoldsLock, Stays
<1>2. ASSUME NEW p \in Proc, Acquire(p) PROVE lock' = q
  BY <1>2, AcquireFindsNobody
<1>3. ASSUME NEW p \in Proc, Release(p) PROVE lock' = q
  BY <1>3, ReleaseLeaves DEF HoldsLock, Stays
<1>4. ASSUME NEW p \in Proc, Crash(p) PROVE lock' = q
  BY <1>4, CrashLeaves DEF HoldsLock, Stays
<1>5. CASE AgentSetup
  BY <1>5 DEF AgentSetup, HoldsLock, InCriticalSection, Acting
<1>6. CASE UNCHANGED vars
  BY <1>6 DEF vars, HoldsLock, InCriticalSection, Acting
<1> QED BY <1>1, <1>2, <1>3, <1>4, <1>5, <1>6 DEF Next

LEMMA LockInvariant == Spec => [](TypeOK /\ AllEquipped /\ HoldsLock)
<1>1. Init => HoldsLock
  BY DEF Init, Resting, HoldsLock, InCriticalSection, Acting
<1> QED BY <1>1, TypeInit, TypeStep, HoldsLockStep, PTL DEF Spec

\* The critical sections of the commands run as module Mutex says: one process
\* at a time, and one that dies inside leaves the section to the others.
THEOREM CommandsAreMutuallyExclusive == Spec => LockedAsMutex
<1>1. Init => Lock!Init
  BY DEF Init, Resting, InCriticalSection, Acting, Lock!Init
<1>2. TypeOK /\ AllEquipped /\ HoldsLock /\ [Next]_vars => [Lock!Next]_Inside
  <2> SUFFICES ASSUME TypeOK, AllEquipped, HoldsLock, [Next]_vars
               PROVE  [Lock!Next]_Inside
    OBVIOUS
  <2>1. ASSUME NEW p \in Proc, Read(p) \/ Proceed(p), ~Acquire(p), ~Release(p)
        PROVE  Inside' = Inside
    BY <2>1, WorkingStays DEF Inside, Stays
  <2>2. ASSUME NEW p \in Proc, Acquire(p) PROVE Lock!Next
    <3>1. Inside = {} /\ Inside' = {p}
      BY <2>2, AcquireFindsNobody DEF Inside
    <3> QED BY <3>1 DEF Lock!Next, Lock!Enter, Inside
  <2>3. ASSUME NEW p \in Proc, Release(p) PROVE Lock!Next
    <3>1. p \in Inside /\ Inside' = Inside \ {p}
      BY <2>3, ReleaseLeaves DEF Inside, Stays
    <3> QED BY <3>1 DEF Lock!Next, Lock!Leave, Inside
  <2>4. ASSUME NEW p \in Proc, Crash(p) PROVE [Lock!Next]_Inside
    <3>1. Inside' = Inside \ {p}
      BY <2>4, CrashLeaves DEF Inside, Stays
    <3>2. CASE p \in Inside
      BY <3>1, <3>2 DEF Lock!Next, Lock!Leave, Inside
    <3>3. CASE p \notin Inside
      BY <3>1, <3>3
    <3> QED BY <3>2, <3>3
  <2>5. CASE AgentSetup
    BY <2>5 DEF AgentSetup, Inside, InCriticalSection, Acting
  <2>6. CASE UNCHANGED vars
    BY <2>6 DEF vars, Inside, InCriticalSection, Acting
  <2> QED BY <2>1, <2>2, <2>3, <2>4, <2>5, <2>6 DEF Next
<1> QED BY <1>1, <1>2, LockInvariant, PTL DEF Spec, LockedAsMutex, Lock!Spec, Inside

----------------------------------------------------------------------------
(* No update is lost *)

\* What a process that acts in its critical section knows of state.json: it is
\* as it was re-read, or the cycle has moved it away.
Knows(p) ==
    /\ local[p].pc \in {"archive", "moveState"} => state = local[p].base
    /\ local[p].pc = "moveRest" => state = NoState
    /\ local[p].pc \in {"snapshot", "snapshots", "seed", "write"} =>
          state = IF local[p].cmd = "cycle" THEN NoState ELSE local[p].base

AllKnow == \A p \in Proc : Knows(p)

\* The process whose turn it is keeps its own knowledge.
LEMMA ActorKnows ==
    ASSUME TypeOK, AllEquipped, NEW p \in Proc, Knows(p), Read(p) \/ Proceed(p)
    PROVE  Knows(p)'
<1>1. local \in [Proc -> Local] /\ Equipped(local[p])
  BY DEF TypeOK, AllEquipped
<1> USE <1>1 DEF Knows, OnlyLocal, Begin, Return, Goto, Idle, Resting
<1>2. CASE Read(p)
  <2>1. CASE AdvanceRead(p) BY <2>1 DEF AdvanceRead
  <2>2. CASE RewindRead(p) BY <2>2 DEF RewindRead
  <2>3. CASE CycleRead(p) BY <2>3 DEF CycleRead
  <2>4. CASE StopRead(p) BY <2>4 DEF StopRead
  <2>5. CASE UpgradeRead(p) BY <2>5 DEF UpgradeRead
  <2>6. CASE InitStart(p) BY <2>6 DEF InitStart
  <2> QED BY <1>2, <2>1, <2>2, <2>3, <2>4, <2>5, <2>6 DEF Read
<1>3. CASE AdvanceGatePasses(p) BY <1>3 DEF AdvanceGatePasses, Local
<1>4. CASE AdvanceBlocked(p) BY <1>4 DEF AdvanceBlocked
<1>5. CASE Acquire(p) BY <1>5 DEF Acquire, Local
<1>6. CASE LockTimeout(p) BY <1>6 DEF LockTimeout
<1>7. CASE Recheck(p)
  <2>1. local[p].cmd = "cycle" => FirstEffect(local[p].cmd) = "archive"
    BY DEF FirstEffect
  <2>2. FirstEffect(local[p].cmd) \in {"archive", "snapshot", "write"}
    BY DEF FirstEffect
  <2> QED BY <1>7, <2>1, <2>2 DEF Recheck, Local
<1>8. CASE RecheckFails(p) BY <1>8 DEF RecheckFails, Local
<1>9. CASE Archive(p) BY <1>9 DEF Archive, Local
<1>10. CASE MoveState(p) BY <1>10 DEF MoveState, Local
<1>11. CASE MoveRest(p) BY <1>11 DEF MoveRest, Local, Equipped
<1>19. CASE WriteFirstSnapshot(p) BY <1>19 DEF WriteFirstSnapshot, Local
<1>12. CASE WriteSnapshots(p) BY <1>12 DEF WriteSnapshots, Local
<1>13. CASE Seed(p) BY <1>13 DEF Seed, Local
<1>14. CASE IoFails(p) BY <1>14 DEF IoFails, Local
<1>15. CASE Write(p) BY <1>15 DEF Write, Local
<1>16. CASE Release(p) BY <1>16 DEF Release, Local
<1>17. CASE Teardown(p) BY <1>17 DEF Teardown
<1>18. CASE TeardownFails(p) BY <1>18 DEF TeardownFails
<1> QED
  BY <1>2, <1>3, <1>4, <1>5, <1>6, <1>7, <1>8, <1>9, <1>10, <1>11, <1>12, <1>13,
     <1>14, <1>15, <1>16, <1>17, <1>18, <1>19 DEF Proceed

\* Only a step inside a critical section changes state.json, and it moves only
\* the process that takes it.
LEMMA StateChangesInside ==
    ASSUME TypeOK, NEW p \in Proc, Read(p) \/ Proceed(p)
    PROVE  /\ state' = state \/ InCriticalSection(p)
           /\ \A q \in Proc \ {p} : local'[q] = local[q]
<1>1. local \in [Proc -> Local]
  BY DEF TypeOK
<1> USE <1>1 DEF InCriticalSection, Acting, OnlyLocal, Begin, Return, Goto
<1>2. CASE Read(p)
  BY <1>2 DEF Read, AdvanceRead, RewindRead, CycleRead, StopRead, UpgradeRead, InitStart
<1>3. CASE Proceed(p)
  <2>1. CASE \/ AdvanceGatePasses(p) \/ AdvanceBlocked(p) \/ Acquire(p) \/ LockTimeout(p)
             \/ Recheck(p) \/ RecheckFails(p)
    BY <2>1 DEF AdvanceGatePasses, AdvanceBlocked, Acquire, LockTimeout, Recheck,
                RecheckFails
  <2>2. CASE Archive(p) \/ MoveState(p) \/ MoveRest(p) \/ WriteFirstSnapshot(p)
             \/ WriteSnapshots(p)
    BY <2>2 DEF Archive, MoveState, MoveRest, WriteFirstSnapshot, WriteSnapshots, Acting
  <2>3. CASE Seed(p) \/ IoFails(p) \/ Write(p) \/ Release(p)
    BY <2>3 DEF Seed, IoFails, Write, Release, Acting
  <2>4. CASE Teardown(p) \/ TeardownFails(p)
    BY <2>4 DEF Teardown, TeardownFails
  <2> QED BY <1>3, <2>1, <2>2, <2>3, <2>4 DEF Proceed
<1> QED BY <1>2, <1>3

LEMMA AllKnowStep ==
    TypeOK /\ AllEquipped /\ HoldsLock /\ AllKnow /\ [Next]_vars => AllKnow'
<1> SUFFICES ASSUME TypeOK, AllEquipped, HoldsLock, AllKnow, [Next]_vars,
                    NEW q \in Proc
             PROVE  Knows(q)'
  BY DEF AllKnow
<1>1. ASSUME NEW p \in Proc, Read(p) \/ Proceed(p) PROVE Knows(q)'
  <2>1. CASE p = q
    BY <1>1, <2>1, ActorKnows DEF AllKnow
  <2>2. CASE p # q /\ state' = state
    BY <1>1, <2>2, StateChangesInside DEF AllKnow, Knows
  <2>3. CASE p # q /\ InCriticalSection(p)
    <3>1. ~InCriticalSection(q)
      BY <2>3 DEF HoldsLock
    <3> QED BY <1>1, <2>3, <3>1, StateChangesInside DEF Knows, InCriticalSection, Acting
  <2> QED BY <1>1, <2>1, <2>2, <2>3, StateChangesInside
<1>2. ASSUME NEW p \in Proc, Crash(p) PROVE Knows(q)'
  BY <1>2 DEF Crash, Begin, OnlyLocal, Resting, AllKnow, Knows, TypeOK
<1>3. CASE AgentSetup
  BY <1>3 DEF AgentSetup, AllKnow, Knows
<1>4. CASE UNCHANGED vars
  BY <1>4 DEF vars, AllKnow, Knows
<1> QED BY <1>1, <1>2, <1>3, <1>4 DEF Next

\* No command overwrites a state it has not seen: what it replaces is what it
\* re-read under the lock, or the absence its own cycle has made.
THEOREM NothingOverwrittenUnseen == Spec => NoLostUpdate
<1>1. Init => AllKnow
  BY DEF Init, Resting, AllKnow, Knows
<1>2. Spec => [](TypeOK /\ AllEquipped /\ HoldsLock /\ AllKnow)
  BY <1>1, TypeInit, TypeStep, HoldsLockStep, AllKnowStep, LockInvariant, PTL DEF Spec
<1>3. AllKnow => \A p \in Proc : Write(p) =>
        state = IF local[p].cmd = "cycle" THEN NoState ELSE local[p].base
  BY DEF AllKnow, Knows, Write
<1> QED BY <1>2, <1>3, PTL DEF NoLostUpdate
=============================================================================
