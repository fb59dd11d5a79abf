----------------------------- MODULE NextPrompt -----------------------------
(* What `ocn next-prompt` sends an agent to do: the task of the ledger or    *)
(* the outcome to measure that it dispatches, and the sections of the prompt *)
(* that each ask for the dispatch anew.  It only reads.                      *)
(*                                                                           *)
(* A situation p is what it finds: the project (none, unreadable, stopped or *)
(* read) with its pin and state, the task ledger (<<>> when there is none),  *)
(* the outcome ledger, and what was asked: a mode, and maybe an issue.       *)
(*   a task is [id, status, depends]; an outcome [id, due, waived, latest]   *)
EXTENDS Profiles, FiniteSets

ProjectRead(p) == p.project \in {"read", "stopped"}

---------------------------------------------------------------------------
(* The task ledger                                                         *)

TasksRead(p) == IF p.project # "none" THEN p.tasks ELSE <<>>

Done(tasks) == {t.id : t \in {u \in ToSet(tasks) : u.status = "done"}}

Pending(tasks) == {t \in ToSet(tasks) : t.status = "pending"}

IsReady(tasks, t) == t.depends \subseteq Done(tasks)

NoDispatch == [kind |-> "none", id |-> 0]

ResolveTaskDispatch(p) ==
  LET tasks == TasksRead(p)
      ready == SelectInSeq(tasks, LAMBDA t : t \in Pending(tasks) /\ IsReady(tasks, t))
  IN  IF ~ProjectRead(p) \/ p.state # "build" \/ Pending(tasks) = {} THEN NoDispatch
      ELSE IF ready # 0 THEN [kind |-> "task", id |-> tasks[ready].id]
      ELSE [kind |-> "all_blocked", id |-> 0]

---------------------------------------------------------------------------
(* The outcome ledger                                                      *)

StateIndex(state) == SelectInSeq(StateOrder, LAMBDA s : s = state)

DueReached(at, due) == StateIndex(due) = 0 \/ StateIndex(at) >= StateIndex(due)

BlocksAdvance(e) == ~e.waived /\ e.latest \in {"UNMEASURED", "NO_EVIDENCE"}

ClassifyEntry(e, at) ==
  IF ~DueReached(at, e.due) THEN "deferred"
  ELSE IF BlocksAdvance(e) THEN "blocking"
  ELSE IF ~e.waived /\ e.latest = "MEASURED_FAIL" THEN "measured_fail"
  ELSE "ok"

\* Mutated form: a task that waits for another holds back the outcomes too.
HasPendingTask(tasks) == Pending(tasks) # {}

HasReadyBuildTask(tasks) ==
  \E t \in Pending(tasks) : IsReady(tasks, t)

\* A task to build goes before an outcome to measure.
ResolveOutcomeDispatch(p) ==
  IF /\ ProjectRead(p) /\ RequiresOutcome(p.pin)
     /\ ~(p.state = "build" /\ HasReadyBuildTask(TasksRead(p)))
  THEN {e.id : e \in {f \in p.outcomes : ClassifyEntry(f, p.state) = "blocking"}}
  ELSE {}

---------------------------------------------------------------------------
(* The sections                                                            *)

Objective(p) ==
  IF p.issue THEN "issue"
  ELSE IF ResolveTaskDispatch(p) # NoDispatch THEN ResolveTaskDispatch(p).kind
  ELSE IF ProjectRead(p) THEN "advance"
  ELSE "evidence"

AllowedWork(p) ==
  IF p.mode = "review" THEN "read-only"
  ELSE IF ResolveTaskDispatch(p).kind = "task" THEN "task"
  ELSE "general"

\* The stop conditions name the task and the outcomes that are dispatched.
AssemblePrompt(p) ==
  IF p.project = "stopped"
  THEN [objective |-> "none", allowed |-> "anything", task |-> 0, outcomes |-> {}]
  ELSE [objective |-> Objective(p), allowed |-> AllowedWork(p),
        task |-> ResolveTaskDispatch(p).id, outcomes |-> ResolveOutcomeDispatch(p)]

---------------------------------------------------------------------------
(* Property                                                                *)

\* A ledger that the gate lets in: every dependency is a task, and none waits
\* for itself.
Sound(tasks) ==
  LET ids == {t.id : t \in ToSet(tasks)}
  IN  \E rank \in [ids -> 1..Cardinality(ids)] :
        \A t \in ToSet(tasks) : \A d \in t.depends : d \in ids /\ rank[d] < rank[t.id]

\* An agent that follows the prompt is never sent in circles: it is sent to
\* one task or to outcomes, never to both (next-prompt-outcome-dispatch.ts:7-10,
\* "BUILD anti-livelock"); a task it is sent to has all it depends on; while a
\* sound ledger has a task to build in BUILD it gets one; and what a gate will
\* refuse the state for, a due outcome that nobody measured, is named unless a
\* task comes first.
PromptLeadsOn(p) ==
  LET prompt  == AssemblePrompt(p)
      tasks   == {t \in ToSet(p.tasks) : t.id = prompt.task}
      debts   == {e \in p.outcomes : /\ ~e.waived /\ DueReached(p.state, e.due)
                                     /\ e.latest \in {"UNMEASURED", "NO_EVIDENCE"}}
      working == p.project = "read" /\ p.state = "build"
  IN  /\ tasks # {} => prompt.outcomes = {}
      /\ prompt.allowed = "task" => tasks # {}
      /\ \A t \in tasks : t.status = "pending" /\ t.depends \subseteq Done(p.tasks)
      /\ working /\ Sound(p.tasks) /\ Pending(p.tasks) # {} => tasks # {}
      /\ p.project = "read" /\ RequiresOutcome(p.pin) /\ tasks = {} =>
           {e.id : e \in debts} \subseteq prompt.outcomes
=============================================================================
