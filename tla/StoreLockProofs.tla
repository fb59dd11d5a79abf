--------------------------- MODULE StoreLockProofs ---------------------------
(***************************************************************************)
(* Proofs about the lock protocol of StoreLock, for every set of callers,   *)
(* every assignment of callers to processes and every retry bound.          *)
(***************************************************************************)
EXTENDS StoreLock, TLAPS

----------------------------------------------------------------------------
(* Typing *)

\* What readLockFile returns is well formed.
LEMMA ReadLockFileType ==
    ASSUME TypeOK PROVE ReadLockFile \in Contents
<1> USE LockAssumption
<1>1. CASE FileExists /\ lockFile.written
  <2>1. lockFile.by \in Caller
    BY <1>1 DEF TypeOK, LockFile, FileExists
  <2> QED BY <1>1, <2>1 DEF TypeOK, LockFile, ReadLockFile, Contents
<1>2. CASE ~(FileExists /\ lockFile.written)
  BY <1>2 DEF ReadLockFile, Unreadable, Contents
<1> QED BY <1>1, <1>2

LEMMA TypeInit == Init => TypeOK
<1> SUFFICES ASSUME Init PROVE TypeOK
  OBVIOUS
<1>1. NoFile \in LockFile
  BY DEF NoFile, LockFile
<1>2. Unreadable \in Contents
  BY DEF Unreadable, Contents
<1>3. "idle" \in Location /\ 0 \in 0..MaxRetries
  BY LockAssumption DEF Location
<1> QED BY <1>1, <1>2, <1>3 DEF Init, TypeOK

\* Every step of the protocol and of its environment keeps the variables typed.
LEMMA TypeStep == TypeOK /\ [Next]_vars => TypeOK'
<1> SUFFICES ASSUME TypeOK, [Next]_vars PROVE TypeOK'
  OBVIOUS
<1> USE LockAssumption
<1>1. ASSUME NEW c \in Caller, Call(c) PROVE TypeOK'
  BY <1>1 DEF TypeOK, Call, Goto, Location
<1>2. ASSUME NEW c \in Caller, Acquire(c) PROVE TypeOK'
  <2>1. CASE Create(c)
    BY <2>1 DEF TypeOK, Create, Goto, Location, LockFile
  <2>2. CASE CreateRefused(c) BY <2>2 DEF TypeOK, CreateRefused, Goto, Location
  <2>3. CASE Write(c) BY <2>3 DEF TypeOK, Write, Goto, Location, LockFile
  <2>4. CASE WriteFails(c) BY <2>4 DEF TypeOK, WriteFails, Goto, Location
  <2>5. CASE Read(c)
    BY <2>5, ReadLockFileType DEF TypeOK, Read, Goto, Location
  <2>6. CASE Judge(c) BY <2>6 DEF TypeOK, Judge, Goto, Location
  <2>7. CASE Reclaim(c)
    BY <2>7 DEF TypeOK, Reclaim, Unlink, NoFile, Goto, Location, LockFile
  <2>8. CASE ReclaimFails(c) BY <2>8 DEF TypeOK, ReclaimFails, Goto, Location
  <2>9. CASE TimeOut(c) BY <2>9 DEF TypeOK, TimeOut, Goto, Location
  <2>10. CASE Sleep(c) BY <2>10 DEF TypeOK, Sleep, Goto, Location
  <2> QED
    BY <1>2, <2>1, <2>2, <2>3, <2>4, <2>5, <2>6, <2>7, <2>8, <2>9, <2>10 DEF Acquire
<1>3. ASSUME NEW c \in Caller, Release(c) PROVE TypeOK'
  <2>1. CASE Finish(c) BY <2>1 DEF TypeOK, Finish, Goto, Location
  <2>2. CASE ReleaseRead(c)
    BY <2>2, ReadLockFileType DEF TypeOK, ReleaseRead, Goto, Location
  <2>3. CASE ReleaseUnlink(c)
    BY <2>3 DEF TypeOK, ReleaseUnlink, Unlink, NoFile, Goto, Location, LockFile
  <2>4. CASE ReleaseFails(c) BY <2>4 DEF TypeOK, ReleaseFails, Goto, Location
  <2> QED BY <1>3, <2>1, <2>2, <2>3, <2>4 DEF Release
<1>4. ASSUME NEW p \in Pid, Crash(p) PROVE TypeOK'
  BY <1>4 DEF TypeOK, Crash, Location
<1>5. CASE FileGrowsOld
  BY <1>5 DEF TypeOK, FileGrowsOld, LockFile
<1>6. ASSUME NEW c \in Caller, CopyGrowsOld(c) PROVE TypeOK'
  BY <1>6 DEF TypeOK, CopyGrowsOld, Contents
<1>7. CASE UNCHANGED vars
  BY <1>7 DEF TypeOK, vars
<1> QED BY <1>1, <1>2, <1>3, <1>4, <1>5, <1>6, <1>7 DEF Next

\* Type correctness of the lock protocol, whatever crashes, delays and failing
\* file operations occur.
THEOREM TypeCorrect == Spec => []TypeOK
<1> QED BY TypeInit, TypeStep, PTL DEF Spec

----------------------------------------------------------------------------
(* Mutual exclusion, unless a file was stolen *)

\* Until a file is stolen, the file is that of the caller relying on it.
Owned == ~stolen => \A c \in Caller : Relies(c) => lockFile.by = c

LEMMA OwnedExcludes == Owned => ExclusiveUnlessStolen
BY DEF Owned, ExclusiveUnlessStolen, MutualExclusion, Relies

\* The step that matters is unlinking: a file that leaves the path under
\* another caller that relies on it is recorded in stolen.
LEMMA OwnedStep == TypeOK /\ Owned /\ [Next]_vars => Owned'
<1> SUFFICES ASSUME TypeOK, Owned, [Next]_vars, ~stolen',
                    NEW d \in Caller, Relies(d)'
             PROVE  lockFile'.by = d
  BY DEF Owned
<1> USE LockAssumption
<1>1. ASSUME NEW c \in Caller, Call(c) PROVE lockFile'.by = d
  BY <1>1 DEF TypeOK, Owned, Relies, Call, Goto
<1>2. ASSUME NEW c \in Caller, Acquire(c) PROVE lockFile'.by = d
  <2>1. CASE Create(c)
    BY <2>1 DEF TypeOK, Owned, Relies, Create, Goto, FileExists, LockFile
  <2>2. CASE CreateRefused(c) BY <2>2 DEF TypeOK, Owned, Relies, CreateRefused, Goto
  <2>3. CASE Write(c)
    BY <2>3 DEF TypeOK, Owned, Relies, Write, Goto, LockFile
  <2>4. CASE WriteFails(c) BY <2>4 DEF TypeOK, Owned, Relies, WriteFails, Goto
  <2>5. CASE Read(c) BY <2>5 DEF TypeOK, Owned, Relies, Read, Goto
  <2>6. CASE Judge(c) BY <2>6 DEF TypeOK, Owned, Relies, Judge, Goto
  <2>7. CASE Reclaim(c)
    BY <2>7 DEF TypeOK, Owned, Relies, Reclaim, Unlink, Goto, LockFile, NoFile
  <2>8. CASE ReclaimFails(c) BY <2>8 DEF TypeOK, Owned, Relies, ReclaimFails, Goto
  <2>9. CASE TimeOut(c) BY <2>9 DEF TypeOK, Owned, Relies, TimeOut, Goto
  <2>10. CASE Sleep(c) BY <2>10 DEF TypeOK, Owned, Relies, Sleep, Goto
  <2> QED
    BY <1>2, <2>1, <2>2, <2>3, <2>4, <2>5, <2>6, <2>7, <2>8, <2>9, <2>10 DEF Acquire
<1>3. ASSUME NEW c \in Caller, Release(c) PROVE lockFile'.by = d
  <2>1. CASE Finish(c) BY <2>1 DEF TypeOK, Owned, Relies, Finish, Goto
  <2>2. CASE ReleaseRead(c) BY <2>2 DEF TypeOK, Owned, Relies, ReleaseRead, Goto
  <2>3. CASE ReleaseUnlink(c)
    BY <2>3 DEF TypeOK, Owned, Relies, ReleaseUnlink, Unlink, Goto, LockFile, NoFile
  <2>4. CASE ReleaseFails(c) BY <2>4 DEF TypeOK, Owned, Relies, ReleaseFails, Goto
  <2> QED BY <1>3, <2>1, <2>2, <2>3, <2>4 DEF Release
<1>4. ASSUME NEW p \in Pid, Crash(p) PROVE lockFile'.by = d
  BY <1>4 DEF TypeOK, Owned, Relies, Crash
<1>5. CASE FileGrowsOld
  BY <1>5 DEF TypeOK, Owned, Relies, FileGrowsOld, LockFile
<1>6. ASSUME NEW c \in Caller, CopyGrowsOld(c) PROVE lockFile'.by = d
  BY <1>6 DEF TypeOK, Owned, Relies, CopyGrowsOld
<1>7. CASE UNCHANGED vars
  BY <1>7 DEF Owned, Relies, vars
<1> QED BY <1>1, <1>2, <1>3, <1>4, <1>5, <1>6, <1>7 DEF Next

LEMMA OwnedInvariant == Spec => [](TypeOK /\ Owned)
<1>1. Init => Owned
  BY LockAssumption DEF Init, Owned, Relies
<1> QED BY <1>1, TypeInit, TypeStep, OwnedStep, PTL DEF Spec

\* Two commands are in their critical sections together only after a lock file
\* was unlinked under a caller that relied on it.
THEOREM ExclusionUnlessStolen == Spec => []ExclusiveUnlessStolen
<1> QED BY OwnedInvariant, OwnedExcludes, PTL

----------------------------------------------------------------------------
(* Mutual exclusion when one caller recovers at a time *)

\* A lock file nobody alive can still be using.
Orphaned == FileExists /\ PidOf[lockFile.by] \notin alive

\* The callers of a dead process are gone.
DeadAreDead == \A c \in Caller : pc[c] = "dead" <=> PidOf[c] \notin alive

\* Only orphans grow old, and what the recoverer has found to be stale stays
\* the file at the path until the recoverer itself unlinks it.
StaleIsOrphaned ==
    /\ lockFile.old => Orphaned
    /\ \A c \in Caller : pc[c] = "judge" /\ seen[c].old /\ c = Recoverer => Orphaned
    /\ \A c \in Caller : pc[c] = "unlink" => c = Recoverer /\ Orphaned

CalmInv == TypeOK /\ Owned /\ ~stolen /\ DeadAreDead /\ StaleIsOrphaned

LEMMA CalmInit == Init => CalmInv
<1> SUFFICES ASSUME Init PROVE CalmInv
  OBVIOUS
<1>1. Owned /\ ~stolen /\ DeadAreDead /\ StaleIsOrphaned
  BY LockAssumption
  DEF Init, Owned, Relies, DeadAreDead, StaleIsOrphaned, NoFile, Unreadable
<1> QED BY <1>1, TypeInit DEF CalmInv

LEMMA DeadStep == TypeOK /\ DeadAreDead /\ [Next]_vars => DeadAreDead'
<1> SUFFICES ASSUME TypeOK, DeadAreDead, [Next]_vars PROVE DeadAreDead'
  OBVIOUS
<1> USE LockAssumption
<1>1. ASSUME NEW c \in Caller, Call(c) PROVE DeadAreDead'
  BY <1>1 DEF TypeOK, DeadAreDead, Call, Goto
<1>2. ASSUME NEW c \in Caller, Acquire(c) PROVE DeadAreDead'
  BY <1>2 DEF TypeOK, DeadAreDead, Goto, Acquire, Create, CreateRefused, Write,
     WriteFails, Read, Judge, Reclaim, ReclaimFails, TimeOut, Sleep
<1>3. ASSUME NEW c \in Caller, Release(c) PROVE DeadAreDead'
  BY <1>3 DEF TypeOK, DeadAreDead, Goto, Release, Finish, ReleaseRead,
     ReleaseUnlink, ReleaseFails
<1>4. ASSUME NEW p \in Pid, Crash(p) PROVE DeadAreDead'
  BY <1>4 DEF TypeOK, DeadAreDead, Crash
<1>5. CASE FileGrowsOld
  BY <1>5 DEF DeadAreDead, FileGrowsOld
<1>6. ASSUME NEW c \in Caller, CopyGrowsOld(c) PROVE DeadAreDead'
  BY <1>6 DEF DeadAreDead, CopyGrowsOld
<1>7. CASE UNCHANGED vars
  BY <1>7 DEF DeadAreDead, vars
<1> QED BY <1>1, <1>2, <1>3, <1>4, <1>5, <1>6, <1>7 DEF Next

\* A dead process is relied on by nobody, so unlinking an orphan steals nothing.
LEMMA OrphanUnlink ==
    ASSUME CalmInv, NEW c \in Caller, Orphaned, Unlink(c) PROVE ~stolen'
BY LockAssumption DEF CalmInv, TypeOK, DeadAreDead, Orphaned, Unlink, Relies

\* A caller releasing a lock unlinks its own file, which is no orphan.
LEMMA OwnUnlink ==
    ASSUME CalmInv, NEW c \in Caller, pc[c] = "relUnlink", Unlink(c)
    PROVE  ~stolen' /\ ~Orphaned
BY LockAssumption
DEF CalmInv, TypeOK, Owned, Relies, DeadAreDead, Orphaned, FileExists, Unlink

LEMMA CalmStep == CalmInv /\ [Next /\ OnlyRecovererReclaims]_vars => CalmInv'
<1> SUFFICES ASSUME CalmInv, [Next /\ OnlyRecovererReclaims]_vars
             PROVE  ~stolen' /\ StaleIsOrphaned'
  BY TypeStep, OwnedStep, DeadStep DEF CalmInv
<1> USE LockAssumption DEF CalmInv
<1>1. ASSUME OnlyRecovererReclaims, NEW c \in Caller, Call(c)
      PROVE  ~stolen' /\ StaleIsOrphaned'
  BY <1>1 DEF TypeOK, StaleIsOrphaned, Orphaned, FileExists, Call, Goto
<1>2. ASSUME OnlyRecovererReclaims, NEW c \in Caller, Acquire(c)
      PROVE  ~stolen' /\ StaleIsOrphaned'
  <2>1. CASE Create(c)
    BY <2>1 DEF TypeOK, StaleIsOrphaned, Orphaned, FileExists, LockFile, Create, Goto
  <2>2. CASE CreateRefused(c)
    BY <2>2 DEF TypeOK, StaleIsOrphaned, Orphaned, FileExists, CreateRefused, Goto
  <2>3. CASE Write(c)
    BY <2>3 DEF TypeOK, StaleIsOrphaned, Orphaned, FileExists, LockFile, Write, Goto
  <2>4. CASE WriteFails(c)
    BY <2>4 DEF TypeOK, StaleIsOrphaned, Orphaned, FileExists, WriteFails, Goto
  <2>5. CASE Read(c)
    BY <2>5 DEF TypeOK, StaleIsOrphaned, Orphaned, FileExists, LockFile, Read,
       ReadLockFile, Unreadable, Goto
  <2>6. CASE Judge(c)
    BY <2>6, <1>2 DEF TypeOK, StaleIsOrphaned, Orphaned, FileExists, Judge, IsStale,
       Goto, OnlyRecovererReclaims
  <2>7. CASE Reclaim(c)
    <3>1. ~stolen'
      BY <2>7, OrphanUnlink DEF Reclaim, StaleIsOrphaned
    <3>2. StaleIsOrphaned'
      BY <2>7 DEF TypeOK, StaleIsOrphaned, Reclaim, Unlink, NoFile, Goto
    <3> QED BY <3>1, <3>2
  <2>8. CASE ReclaimFails(c)
    BY <2>8 DEF TypeOK, StaleIsOrphaned, Orphaned, FileExists, ReclaimFails, Goto
  <2>9. CASE TimeOut(c)
    BY <2>9 DEF TypeOK, StaleIsOrphaned, Orphaned, FileExists, TimeOut, Goto
  <2>10. CASE Sleep(c)
    BY <2>10 DEF TypeOK, StaleIsOrphaned, Orphaned, FileExists, Sleep, Goto
  <2> QED
    BY <1>2, <2>1, <2>2, <2>3, <2>4, <2>5, <2>6, <2>7, <2>8, <2>9, <2>10 DEF Acquire
<1>3. ASSUME OnlyRecovererReclaims, NEW c \in Caller, Release(c)
      PROVE  ~stolen' /\ StaleIsOrphaned'
  <2>1. CASE Finish(c)
    BY <2>1 DEF TypeOK, StaleIsOrphaned, Orphaned, FileExists, Finish, Goto
  <2>2. CASE ReleaseRead(c)
    BY <2>2 DEF TypeOK, StaleIsOrphaned, Orphaned, FileExists, ReleaseRead, Goto
  <2>3. CASE ReleaseUnlink(c)
    <3>1. ~stolen' /\ ~Orphaned
      BY <2>3, OwnUnlink DEF ReleaseUnlink
    <3>2. StaleIsOrphaned'
      BY <2>3, <3>1 DEF TypeOK, StaleIsOrphaned, ReleaseUnlink, Unlink, NoFile, Goto
    <3> QED BY <3>1, <3>2
  <2>4. CASE ReleaseFails(c)
    BY <2>4 DEF TypeOK, StaleIsOrphaned, Orphaned, FileExists, ReleaseFails, Goto
  <2> QED BY <1>3, <2>1, <2>2, <2>3, <2>4 DEF Release
<1>4. ASSUME OnlyRecovererReclaims, NEW p \in Pid, Crash(p)
      PROVE  ~stolen' /\ StaleIsOrphaned'
  BY <1>4 DEF TypeOK, StaleIsOrphaned, Orphaned, FileExists, Crash
<1>5. ASSUME OnlyRecovererReclaims, FileGrowsOld
      PROVE  ~stolen' /\ StaleIsOrphaned'
  BY <1>5 DEF TypeOK, StaleIsOrphaned, Orphaned, FileExists, LockFile, FileGrowsOld,
     OnlyRecovererReclaims
<1>6. ASSUME OnlyRecovererReclaims, NEW c \in Caller, CopyGrowsOld(c) PROVE FALSE
  BY <1>6 DEF OnlyRecovererReclaims
<1>7. CASE UNCHANGED vars
  BY <1>7 DEF StaleIsOrphaned, Orphaned, FileExists, vars
<1> QED BY <1>1, <1>2, <1>3, <1>4, <1>5, <1>6, <1>7 DEF Next

LEMMA CalmInvariant == CalmSpec => []CalmInv
<1> QED BY CalmInit, CalmStep, PTL DEF CalmSpec

LEMMA CalmExcludes == CalmInv => MutualExclusion
BY DEF CalmInv, Owned, MutualExclusion, Relies

\* With one caller recovering at a time and no pause of thirty seconds inside a
\* critical section or a stale check, the lock excludes: whatever dies and
\* whichever lock-file operation fails.
THEOREM CalmMutualExclusion == CalmSpec => []MutualExclusion
<1> QED BY CalmInvariant, CalmExcludes, PTL

----------------------------------------------------------------------------
(* Refinement of the abstract lock *)

Inside == {c \in Caller : pc[c] = "held" /\ ~stolen}

\* A theft is never forgotten.
LEMMA StolenStays ==
    ASSUME TypeOK, [Next]_vars, ~stolen' PROVE ~stolen
<1>1. ASSUME NEW c \in Caller, Call(c) \/ Acquire(c) PROVE ~stolen
  BY <1>1 DEF Call, Acquire, Create, CreateRefused, Write, WriteFails, Read, Judge,
     Reclaim, ReclaimFails, TimeOut, Sleep, Unlink
<1>2. ASSUME NEW c \in Caller, Release(c) PROVE ~stolen
  BY <1>2 DEF Release, Finish, ReleaseRead, ReleaseUnlink, ReleaseFails, Unlink
<1>3. CASE (\E p \in Pid : Crash(p)) \/ FileGrowsOld \/ (\E c \in Caller : CopyGrowsOld(c))
  BY <1>3 DEF Crash, FileGrowsOld, CopyGrowsOld
<1>4. CASE UNCHANGED vars
  BY <1>4 DEF vars
<1> QED BY <1>1, <1>2, <1>3, <1>4 DEF Next

\* Taking the lock is Write; leaving it is Finish, a crash or a theft.
LEMMA RefinementStep ==
    TypeOK /\ Owned /\ [Next]_vars => [Abstract!Next]_Inside
<1> SUFFICES ASSUME TypeOK, Owned, [Next]_vars PROVE Abstract!Next \/ UNCHANGED Inside
  OBVIOUS
<1> USE LockAssumption
<1>1. CASE stolen'
  <2>1. Inside' = {} /\ Inside \in SUBSET Caller
    BY <1>1 DEF Inside
  <2>2. CASE Inside # {}
    BY <2>1, <2>2 DEF Abstract!Next, Abstract!Leave, Inside
  <2> QED BY <2>1, <2>2
<1>2. CASE ~stolen'
  <2> ~stolen
    BY <1>2, StolenStays
  <2>1. ASSUME NEW c \in Caller, Call(c) PROVE UNCHANGED Inside
    BY <2>1 DEF TypeOK, Inside, Call, Goto
  <2>2. ASSUME NEW c \in Caller, Acquire(c), ~Write(c) PROVE UNCHANGED Inside
    BY <1>2, <2>2 DEF TypeOK, Inside, Goto, Acquire, Create, CreateRefused, WriteFails,
       Read, Judge, Reclaim, ReclaimFails, TimeOut, Sleep
  <2>3. ASSUME NEW c \in Caller, Write(c) PROVE Abstract!Enter(c)
    <3>1. Inside = {}
      BY <2>3 DEF TypeOK, Inside, Owned, Relies, Write
    <3>2. Inside' = {c}
      BY <2>3, <3>1 DEF TypeOK, Inside, Write, Goto
    <3> QED BY <3>1, <3>2 DEF Abstract!Enter, Inside
  <2>4. ASSUME NEW c \in Caller, Finish(c) PROVE Abstract!Leave({c})
    <3>1. c \in Inside /\ Inside' = Inside \ {c}
      BY <2>4 DEF TypeOK, Inside, Finish, Goto
    <3> QED BY <3>1 DEF Abstract!Leave, Inside
  <2>5. ASSUME NEW c \in Caller, Release(c), ~Finish(c) PROVE UNCHANGED Inside
    BY <1>2, <2>5
    DEF TypeOK, Inside, Goto, Release, ReleaseRead, ReleaseUnlink, ReleaseFails
  <2>6. ASSUME NEW p \in Pid, Crash(p) PROVE Abstract!Next \/ UNCHANGED Inside
    <3> DEFINE gone == {c \in Caller : PidOf[c] = p}
    <3>1. Inside' = Inside \ gone
      BY <2>6 DEF TypeOK, Inside, Crash
    <3>2. CASE Inside \cap gone = {}
      BY <3>1, <3>2
    <3>3. CASE Inside \cap gone # {}
      BY <3>1, <3>3 DEF Abstract!Next, Abstract!Leave, Inside
    <3> QED BY <3>2, <3>3
  <2>7. CASE FileGrowsOld \/ (\E c \in Caller : CopyGrowsOld(c)) \/ UNCHANGED vars
    BY <2>7 DEF Inside, FileGrowsOld, CopyGrowsOld, vars
  <2>8. ASSUME NEW c \in Caller, Abstract!Enter(c) \/ Abstract!Leave({c})
        PROVE  Abstract!Next
    BY <2>8 DEF Abstract!Next
  <2> QED BY <2>1, <2>2, <2>3, <2>4, <2>5, <2>6, <2>7, <2>8 DEF Next, Release
<1> QED BY <1>1, <1>2

\* The lock file implements the abstract lock for as long as no file is unlinked
\* under the caller that relies on it.
THEOREM LockFileImplementsMutex == Spec => ImplementsMutex
<1>1. Init => Abstract!Init
  BY LockAssumption DEF Init, Abstract!Init
<1> QED
  BY <1>1, RefinementStep, OwnedInvariant, PTL
  DEF Spec, ImplementsMutex, Abstract!Spec, Inside

\* Under the conditions of CalmSpec no file is ever stolen, so there the lock
\* implements the abstract one without reservation.
THEOREM NothingStolenWhenCalm == CalmSpec => []~stolen
<1>1. CalmInv => ~stolen
  BY DEF CalmInv
<1> QED BY <1>1, CalmInvariant, PTL

----------------------------------------------------------------------------
(* No file is left behind *)

\* A caller leaves its own file by unlinking it or by dying: what it reads back of
\* it on release is its own process's pid, or nothing.
LEMMA NoLeakStep ==
    ASSUME ~IoCanFail
    PROVE  TypeOK /\ NoLeak /\ [Next]_vars => NoLeak'
<1> SUFFICES ASSUME TypeOK, NoLeak, [Next]_vars PROVE NoLeak'
  OBVIOUS
<1> USE LockAssumption DEF NoLeak, FileExists
<1>1. ASSUME NEW c \in Caller, Call(c) PROVE NoLeak'
  BY <1>1 DEF TypeOK, Relies, Call, Goto
<1>2. ASSUME NEW c \in Caller, Acquire(c) PROVE NoLeak'
  <2>1. CASE Create(c)
    BY <2>1 DEF TypeOK, Relies, Create, Goto, LockFile
  <2>2. CASE Write(c)
    BY <2>2 DEF TypeOK, Relies, Write, Goto, LockFile
  <2>3. CASE Reclaim(c)
    BY <2>3 DEF Reclaim, Unlink, NoFile
  <2>4. CASE CreateRefused(c)
    BY <2>4 DEF TypeOK, Relies, CreateRefused, Goto
  <2>5. CASE Read(c)
    BY <2>5 DEF TypeOK, Relies, Read, Goto
  <2>6. CASE Judge(c)
    BY <2>6 DEF TypeOK, Relies, Judge, Goto
  <2>7. CASE TimeOut(c)
    BY <2>7 DEF TypeOK, Relies, TimeOut, Goto
  <2>8. CASE Sleep(c)
    BY <2>8 DEF TypeOK, Relies, Sleep, Goto
  <2>9. CASE WriteFails(c) \/ ReclaimFails(c)
    BY <2>9 DEF WriteFails, ReclaimFails
  <2> QED BY <1>2, <2>1, <2>2, <2>3, <2>4, <2>5, <2>6, <2>7, <2>8, <2>9 DEF Acquire
<1>3. ASSUME NEW c \in Caller, Release(c) PROVE NoLeak'
  <2>1. CASE Finish(c)
    BY <2>1 DEF TypeOK, Relies, Finish, Goto
  <2>2. CASE ReleaseRead(c)
    <3>1. CASE lockFile.by = c
      <4>1. ReadLockFile.pid \in {NoPid, PidOf[c]}
        BY <3>1 DEF ReadLockFile, Unreadable
      <4> QED BY <2>2, <3>1, <4>1 DEF TypeOK, Relies, ReleaseRead, Goto
    <3>2. CASE lockFile.by # c
      BY <2>2, <3>2 DEF TypeOK, Relies, ReleaseRead, Goto
    <3> QED BY <3>1, <3>2
  <2>3. CASE ReleaseUnlink(c)
    BY <2>3 DEF ReleaseUnlink, Unlink, NoFile
  <2>4. CASE ReleaseFails(c)
    BY <2>4 DEF ReleaseFails
  <2> QED BY <1>3, <2>1, <2>2, <2>3, <2>4 DEF Release
<1>4. ASSUME NEW p \in Pid, Crash(p) PROVE NoLeak'
  BY <1>4 DEF TypeOK, LockFile, Relies, Crash
<1>5. CASE FileGrowsOld
  BY <1>5 DEF TypeOK, Relies, FileGrowsOld, LockFile
<1>6. ASSUME NEW c \in Caller, CopyGrowsOld(c) PROVE NoLeak'
  BY <1>6 DEF Relies, CopyGrowsOld
<1>7. CASE UNCHANGED vars
  BY <1>7 DEF Relies, vars
<1> QED BY <1>1, <1>2, <1>3, <1>4, <1>5, <1>6, <1>7 DEF Next

\* While file operations succeed, a lock file that exists belongs to a caller still
\* using it or to a dead process, however calls are reclaimed or time out.
THEOREM NothingLeaks ==
    ASSUME ~IoCanFail
    PROVE  Spec => []NoLeak
<1>1. Init => NoLeak
  BY DEF Init, NoLeak, FileExists, NoFile
<1> QED BY <1>1, TypeInit, TypeStep, NoLeakStep, PTL DEF Spec
==============================================================================
