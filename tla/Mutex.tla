-------------------------------- MODULE Mutex --------------------------------
(***************************************************************************)
(* What `.ocoding/.lock` promises to the commands that take it: of all the  *)
(* callers of withLock at most one runs its critical section, and a caller  *)
(* leaves its section by releasing the lock or by dying inside it.          *)
(* StoreLock, the protocol on the lock file, implements this under the      *)
(* conditions StoreLock names; Workflow and the ledgers rely on it.         *)
(***************************************************************************)
CONSTANT Caller        \* one member per call of withLock that may be running

VARIABLE inside        \* the callers that are running their critical section

Init == inside = {}

\* withLock hands the handle to `op`: nobody else is inside.
Enter(c) ==
    /\ inside = {}
    /\ inside' = {c}

\* `op` has settled, or the process died while it was running; when a whole
\* process dies, every call it was serving leaves at once.
Leave(gone) ==
    /\ inside \cap gone # {}
    /\ inside' = inside \ gone

Next == (\E c \in Caller : Enter(c)) \/ (\E gone \in SUBSET Caller : Leave(gone))

Spec == Init /\ [][Next]_inside
==============================================================================
