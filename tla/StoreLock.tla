------------------------------ MODULE StoreLock ------------------------------
(***************************************************************************)
(* The lock file `.ocoding/.lock` (src/core/state/lock.ts): every command   *)
(* that changes the project runs its critical section inside withLock.      *)
(*                                                                          *)
(* A caller creates the file exclusively ("wx"), writes its pid and the     *)
(* time into it, runs `op` and unlinks the file.  A caller that finds the   *)
(* file reads it, looks whether its owner is alive, and either unlinks it   *)
(* as stale and tries again, or waits and finally times out.  Each of these *)
(* file-system and process calls is one step: any other caller, a crash, or *)
(* thirty seconds of delay fits between two of them.                        *)
(*                                                                          *)
(* The contents are reduced to what the code reads back: the pid, and       *)
(* whether createdAt lies further back than the stale threshold.            *)
(***************************************************************************)
EXTENDS Naturals, FiniteSets

CONSTANTS
    Caller,        \* calls of withLock, one at a time per caller
    Pid,           \* operating-system processes
    PidOf,         \* the process a caller runs in; an MCP server serves several
    NoPid,         \* no process: what an unreadable lock file names
    Nobody,        \* the creator of a file that does not exist
    Recoverer,     \* the one caller that may reclaim, in CalmSpec
    MaxRetries,    \* sleeps after which timeoutMs has certainly passed
    IoCanFail      \* may writing or unlinking the lock file fail?

ASSUME LockAssumption ==
    /\ PidOf \in [Caller -> Pid]
    /\ NoPid \notin Pid
    /\ Nobody \notin Caller
    /\ Recoverer \in Caller
    /\ MaxRetries \in Nat
    /\ IoCanFail \in BOOLEAN

VARIABLES
    lockFile,      \* the file: its creator, whether its text is there, its age
    pc,            \* where each caller stands inside withLock
    seen,          \* what each caller read from the file last
    retries,       \* how often it has slept in this call
    alive,         \* the processes still running
    stolen         \* has a file been unlinked under a caller that relied on it?

vars == <<lockFile, pc, seen, retries, alive, stolen>>

Location == {"idle", "create", "write", "held", "relRead", "relUnlink",
             "read", "judge", "unlink", "wait", "dead"}

Contents == [pid : Pid \cup {NoPid}, old : BOOLEAN]
LockFile == [by : Caller \cup {Nobody}, written : BOOLEAN, old : BOOLEAN]

NoFile     == [by |-> Nobody, written |-> FALSE, old |-> FALSE]
Unreadable == [pid |-> NoPid, old |-> FALSE]

TypeOK ==
    /\ lockFile \in LockFile
    /\ pc \in [Caller -> Location]
    /\ seen \in [Caller -> Contents]
    /\ retries \in [Caller -> 0..MaxRetries]
    /\ alive \in SUBSET Pid
    /\ stolen \in BOOLEAN

Init ==
    /\ lockFile = NoFile
    /\ pc = [c \in Caller |-> "idle"]
    /\ seen = [c \in Caller |-> Unreadable]
    /\ retries = [c \in Caller |-> 0]
    /\ alive = Pid
    /\ stolen = FALSE

FileExists == lockFile.by # Nobody

\* Between creating the file and unlinking it, a caller takes it to be its own.
Relies(c) == pc[c] \in {"write", "held", "relRead", "relUnlink"}

\* readLockFile: a missing, empty or half-written file yields null.
ReadLockFile ==
    IF FileExists /\ lockFile.written
    THEN [pid |-> PidOf[lockFile.by], old |-> lockFile.old]
    ELSE Unreadable

\* Mutated form: the answer of isProcessAlive is taken the wrong way round.
IsStaleOfLiving(contents) ==
    contents # Unreadable /\ contents.old /\ contents.pid \in alive

\* isStaleLockState, with isProcessAlive asked now about the pid read earlier.
IsStale(contents) ==
    /\ contents # Unreadable
    /\ contents.old
    /\ contents.pid \notin alive

\* Unlinking the path removes whatever file is there by now.
Unlink(c) ==
    /\ lockFile' = NoFile
    /\ stolen' = (stolen \/ \E d \in Caller \ {c} : lockFile.by = d /\ Relies(d))

Goto(c, where) == pc' = [pc EXCEPT ![c] = where]

----------------------------------------------------------------------------
(* acquireLock *)

Call(c) ==
    /\ pc[c] = "idle"
    /\ Goto(c, "create")
    /\ retries' = [retries EXCEPT ![c] = 0]
    /\ UNCHANGED <<lockFile, seen, alive, stolen>>

\* Mutated form: the file is opened with "w" in place of "wx".
CreateOverwrites(c) ==
    /\ pc[c] = "create"
    /\ lockFile' = [by |-> c, written |-> FALSE, old |-> FALSE]
    /\ Goto(c, "write")
    /\ UNCHANGED <<seen, retries, alive, stolen>>

\* tryWriteLock, first half: open(lockFile, "wx").
Create(c) ==
    /\ pc[c] = "create"
    /\ ~FileExists
    /\ lockFile' = [by |-> c, written |-> FALSE, old |-> FALSE]
    /\ Goto(c, "write")
    /\ UNCHANGED <<seen, retries, alive, stolen>>

\* EEXIST: somebody's file is there.
CreateRefused(c) ==
    /\ pc[c] = "create"
    /\ FileExists
    /\ Goto(c, "read")
    /\ UNCHANGED <<lockFile, seen, retries, alive, stolen>>

\* tryWriteLock, second half.  The handle stays with the file it opened, so
\* nothing shows at the path when that file has been unlinked meanwhile.
Write(c) ==
    /\ pc[c] = "write"
    /\ lockFile' = IF lockFile.by = c THEN [lockFile EXCEPT !.written = TRUE]
                                      ELSE lockFile
    /\ Goto(c, "held")
    /\ UNCHANGED <<seen, retries, alive, stolen>>

\* writeFile throws (a full disk): the error leaves acquireLock and the empty
\* file stays behind.
WriteFails(c) ==
    /\ IoCanFail
    /\ pc[c] = "write"
    /\ Goto(c, "idle")
    /\ UNCHANGED <<lockFile, seen, retries, alive, stolen>>

Read(c) ==
    /\ pc[c] = "read"
    /\ seen' = [seen EXCEPT ![c] = ReadLockFile]
    /\ Goto(c, "judge")
    /\ UNCHANGED <<lockFile, retries, alive, stolen>>

Judge(c) ==
    /\ pc[c] = "judge"
    /\ Goto(c, IF IsStale(seen[c]) THEN "unlink" ELSE "wait")
    /\ UNCHANGED <<lockFile, seen, retries, alive, stolen>>

\* The stale file is unlinked and the loop starts over, without the time check.
Reclaim(c) ==
    /\ pc[c] = "unlink"
    /\ Unlink(c)
    /\ Goto(c, "create")
    /\ UNCHANGED <<seen, retries, alive>>

\* An unlink error is ignored and the loop starts over just the same.
ReclaimFails(c) ==
    /\ IoCanFail
    /\ pc[c] = "unlink"
    /\ Goto(c, "create")
    /\ UNCHANGED <<lockFile, seen, retries, alive, stolen>>

\* Slow calls count towards timeoutMs as sleeps do: it may have passed at any
\* check, and has passed for certain after MaxRetries sleeps.
TimeOut(c) ==
    /\ pc[c] = "wait"
    /\ Goto(c, "idle")
    /\ UNCHANGED <<lockFile, seen, retries, alive, stolen>>

\* Mutated form: the time is measured from the latest attempt.
SleepUncounted(c) ==
    /\ pc[c] = "wait"
    /\ Goto(c, "create")
    /\ UNCHANGED <<lockFile, seen, retries, alive, stolen>>

Sleep(c) ==
    /\ pc[c] = "wait"
    /\ retries[c] < MaxRetries
    /\ retries' = [retries EXCEPT ![c] = @ + 1]
    /\ Goto(c, "create")
    /\ UNCHANGED <<lockFile, seen, alive, stolen>>

----------------------------------------------------------------------------
(* withLock's op, and releaseLock in its finally block *)

Finish(c) ==
    /\ pc[c] = "held"
    /\ Goto(c, "relRead")
    /\ UNCHANGED <<lockFile, seen, retries, alive, stolen>>

\* Mutated form: the comparison of the pids is inverted.
ReleaseReadInverted(c) ==
    /\ pc[c] = "relRead"
    /\ seen' = [seen EXCEPT ![c] = ReadLockFile]
    /\ Goto(c, IF ReadLockFile.pid = PidOf[c] THEN "idle" ELSE "relUnlink")
    /\ UNCHANGED <<lockFile, retries, alive, stolen>>

\* A readable file of another process is left alone; an own file, and one that
\* cannot be read, goes on to be unlinked.
ReleaseRead(c) ==
    /\ pc[c] = "relRead"
    /\ seen' = [seen EXCEPT ![c] = ReadLockFile]
    /\ Goto(c, IF ReadLockFile.pid \in {NoPid, PidOf[c]} THEN "relUnlink" ELSE "idle")
    /\ UNCHANGED <<lockFile, retries, alive, stolen>>

ReleaseUnlink(c) ==
    /\ pc[c] = "relUnlink"
    /\ Unlink(c)
    /\ Goto(c, "idle")
    /\ UNCHANGED <<seen, retries, alive>>

\* LockReleaseError: the file stays while its process lives on.
ReleaseFails(c) ==
    /\ IoCanFail
    /\ pc[c] = "relUnlink"
    /\ Goto(c, "idle")
    /\ UNCHANGED <<lockFile, seen, retries, alive, stolen>>

----------------------------------------------------------------------------
(* The environment *)

Crash(p) ==
    /\ p \in alive
    /\ alive' = alive \ {p}
    /\ pc' = [c \in Caller |-> IF PidOf[c] = p THEN "dead" ELSE pc[c]]
    /\ UNCHANGED <<lockFile, seen, retries, stolen>>

\* staleThresholdMs passes over the file, or over a copy already read.
FileGrowsOld ==
    /\ FileExists
    /\ ~lockFile.old
    /\ lockFile' = [lockFile EXCEPT !.old = TRUE]
    /\ UNCHANGED <<pc, seen, retries, alive, stolen>>

CopyGrowsOld(c) ==
    /\ pc[c] = "judge"
    /\ seen[c] # Unreadable
    /\ ~seen[c].old
    /\ seen' = [seen EXCEPT ![c].old = TRUE]
    /\ UNCHANGED <<lockFile, pc, retries, alive, stolen>>

----------------------------------------------------------------------------

Acquire(c) ==
    \/ Create(c) \/ CreateRefused(c) \/ Write(c) \/ WriteFails(c)
    \/ Read(c) \/ Judge(c) \/ Reclaim(c) \/ ReclaimFails(c)
    \/ TimeOut(c) \/ Sleep(c)

Release(c) ==
    Finish(c) \/ ReleaseRead(c) \/ ReleaseUnlink(c) \/ ReleaseFails(c)

Next ==
    \/ \E c \in Caller : Call(c) \/ Acquire(c) \/ Release(c)
    \/ \E p \in Pid : Crash(p)
    \/ FileGrowsOld
    \/ \E c \in Caller : CopyGrowsOld(c)

Spec == Init /\ [][Next]_vars

\* A caller that runs keeps running: each await in acquireLock and withLock
\* settles, and the critical sections are short file operations.
FairSpec == Spec /\ \A c \in Caller : WF_vars(Acquire(c) \/ Release(c))

\* The conditions under which the lock is a mutex: a lock outlives the stale
\* threshold only when its process is dead, nobody pauses that long between
\* reading a lock and judging it, and only one caller ever comes to unlink a
\* stale lock.
OnlyRecovererReclaims ==
    /\ FileGrowsOld => PidOf[lockFile.by] \notin alive
    /\ \A c \in Caller :
        /\ ~CopyGrowsOld(c)
        /\ c # Recoverer => pc'[c] # "unlink"

CalmSpec == Init /\ [][Next /\ OnlyRecovererReclaims]_vars

----------------------------------------------------------------------------
(* Properties *)

\* At most one caller of withLock is running its critical section.
MutualExclusion ==
    \A c, d \in Caller : pc[c] = "held" /\ pc[d] = "held" => c = d

\* Two callers are in their critical sections together only after a lock file
\* was unlinked under a caller that relied on it: no interleaving of creating,
\* writing, waiting, timing out, releasing and dying breaks the lock by itself.
ExclusiveUnlessStolen == ~stolen => MutualExclusion

\* The finally block of withLock leaves no file behind: one that exists belongs
\* to a caller that is still using it or whose process died.
NoLeak ==
    FileExists => Relies(lockFile.by) \/ PidOf[lockFile.by] \notin alive

\* Every call comes to an end: with the lock taken and released, with
\* LockTimeoutError, or with the death of its process.
CallReturns ==
    \A c \in Caller : pc[c] # "idle" ~> pc[c] \in {"idle", "dead"}

Stale == FileExists /\ lockFile.old /\ PidOf[lockFile.by] \notin alive

SomebodyKeepsTrying == []<>(\E c \in Caller : pc[c] = "read")

\* A lock whose owner died while holding it is reclaimed once it is old enough,
\* as long as somebody keeps asking for it.
HeldLockReclaimed ==
    SomebodyKeepsTrying => ((Stale /\ lockFile.written) ~> ~Stale)

\* The abstract lock, implemented by the callers that hold a handle, until a
\* file is stolen.
Abstract ==
    INSTANCE Mutex WITH inside <- {c \in Caller : pc[c] = "held" /\ ~stolen}

\* As long as nobody's lock file is unlinked under it, every step of the
\* protocol is a step of the abstract lock or changes nothing there.
ImplementsMutex == Abstract!Spec
==============================================================================
