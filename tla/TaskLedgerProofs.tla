-------------------------- MODULE TaskLedgerProofs --------------------------
(***************************************************************************)
(* Theorems about TaskLedger, for every set of processes, tasks, commands   *)
(* and documents.  The invariant behind them says the same of the ledger on *)
(* disk and of every copy of it that a process still holds: a stale copy    *)
(* that is written back loses marks, but it brings no false one.            *)
(***************************************************************************)
EXTENDS TaskLedger, TLAPS

\* The marks of a ledger, or of a copy of one, have been earned.
Earned(tasks) ==
    tasks # NoLedger =>
        \A id \in Done(tasks) : <<id, tasks[id].verify>> \in judged

\* Its dependencies lead to tasks of its own and never in a circle.
Ordered(tasks) ==
    tasks # NoLedger =>
        /\ \A id \in DOMAIN tasks : tasks[id].depends \subseteq DOMAIN tasks
        /\ Acyclic(tasks)

\* What a process has set by the time it stands at a place.
Equipped(l) ==
    /\ l.cmd = "advance" => l.next \in Stage
    /\ l.pc \in {"guard", "move"} => l.cmd = "advance"
    /\ l.pc \in {"drift", "verify", "record"} =>
          /\ l.read # NoLedger
          /\ l.target \in DOMAIN l.read

WellTyped == TypeOK /\ \A p \in Proc : Equipped(local[p])

\* What it knows there.
Knows(l) ==
    /\ Earned(l.read)
    /\ Ordered(l.read)
    /\ l.pc \in {"carry", "freeze"} => Valid(l.specs)
    /\ l.pc = "record" => <<l.target, l.read[l.target].verify>> \in judged
    /\ l.pc = "move" /\ l.from = "build" /\ l.read # NoLedger =>
          Pending(l.read) = {}

Knowing ==
    /\ Earned(ledger)
    /\ Ordered(ledger)
    /\ \A p \in Proc : Knows(local[p])

----------------------------------------------------------------------------
(* Typing *)

LEMMA PlanFunctions ==
    ASSUME NEW specs \in Plan
    PROVE  /\ DOMAIN specs \in SUBSET TaskId
           /\ specs \in [DOMAIN specs -> TaskSpec]
  BY DEF Plan

LEMMA LedgerFunctions ==
    ASSUME NEW tasks \in Ledger
    PROVE  /\ DOMAIN tasks \in SUBSET TaskId
           /\ tasks \in [DOMAIN tasks -> LedgerTask]
           /\ tasks # NoLedger
  BY TaskAssumption DEF Ledger

\* What buildLedger returns is a ledger of the tasks it is given.
LEMMA BuiltLedgerType ==
    ASSUME NEW specs \in Plan, NEW prev \in Ledger \cup {NoLedger}
    PROVE  BuildLedger(specs, prev) \in Ledger
  <1>1. /\ DOMAIN specs \in SUBSET TaskId
        /\ specs \in [DOMAIN specs -> TaskSpec]
    BY PlanFunctions
  <1>2. BuildLedger(specs, prev) \in [DOMAIN specs -> LedgerTask]
    <2>1. ASSUME NEW id \in DOMAIN specs
          PROVE  [verify |-> specs[id].verify, depends |-> specs[id].depends,
                  done |-> /\ prev # NoLedger
                           /\ id \in Done(prev)
                           /\ prev[id].verify = specs[id].verify] \in LedgerTask
      BY <1>1 DEF TaskSpec, LedgerTask
    <2> QED  BY <2>1 DEF BuildLedger
  <1> QED  BY <1>1, <1>2 DEF Ledger

\* Marking a task of a ledger yields a ledger of the same tasks.
LEMMA MarkedLedgerType ==
    ASSUME NEW tasks \in Ledger, NEW t \in DOMAIN tasks
    PROVE  /\ [tasks EXCEPT ![t].done = TRUE] \in Ledger
           /\ DOMAIN [tasks EXCEPT ![t].done = TRUE] = DOMAIN tasks
           /\ \A id \in DOMAIN tasks :
                /\ [tasks EXCEPT ![t].done = TRUE][id].verify = tasks[id].verify
                /\ [tasks EXCEPT ![t].done = TRUE][id].depends = tasks[id].depends
                /\ [tasks EXCEPT ![t].done = TRUE][id].done =
                      (id = t \/ tasks[id].done)
  <1>1. /\ DOMAIN tasks \in SUBSET TaskId
        /\ tasks \in [DOMAIN tasks -> LedgerTask]
    BY LedgerFunctions
  <1>2. [tasks EXCEPT ![t].done = TRUE] \in [DOMAIN tasks -> LedgerTask]
    BY <1>1 DEF LedgerTask
  <1>3. [tasks EXCEPT ![t].done = TRUE] \in Ledger
    BY <1>1, <1>2 DEF Ledger
  <1>4. \A id \in DOMAIN tasks : tasks[id] \in LedgerTask
    BY <1>1
  <1> QED  BY <1>1, <1>3, <1>4 DEF LedgerTask

LEMMA RestingType == Resting \in Local
  <1>1. NoSpecs \in [{} -> TaskSpec]
    BY DEF NoSpecs
  <1>2. NoSpecs \in Plan
    BY <1>1 DEF Plan
  <1> QED  BY <1>2 DEF Resting, Local, Place

LEMMA NoSpecsType == NoSpecs \in Plan
  <1>1. NoSpecs \in [{} -> TaskSpec]
    BY DEF NoSpecs
  <1> QED  BY <1>1 DEF Plan

LEMMA StagesType ==
    ASSUME NEW stage \in Stage
    PROVE  NextStages(stage) \subseteq Stage /\ EarlierStages(stage) \subseteq Stage
  <1>1. DOMAIN Stages = 1..4 /\ \A i \in 1..4 : Stages[i] \in Stage
    BY DEF Stages, Stage
  <1> QED  BY <1>1 DEF NextStages, EarlierStages

LEMMA RestingEquipped == Equipped(Resting)
  BY TaskAssumption DEF Equipped, Resting

\* A gate that passes leaves a well-typed process.
LEMMA AfterGateType ==
    ASSUME NEW l \in Local, Equipped(l)
    PROVE  AfterGate(l) \in Local /\ Equipped(AfterGate(l))
  <1>1. CASE l.cmd = "advance"
    BY <1>1, NoSpecsType DEF AfterGate, Local, Place, Equipped
  <1>2. CASE l.cmd # "advance"
    BY <1>2, RestingType, RestingEquipped DEF AfterGate
  <1> QED  BY <1>1, <1>2

LEMMA TypeInit == Init => WellTyped
  BY RestingType, RestingEquipped, TaskAssumption
     DEF Init, WellTyped, TypeOK, Stage

\* One process changing its memory to something typed and equipped.
LEMMA LocalStep ==
    ASSUME WellTyped, NEW p \in Proc, NEW l \in Local, Equipped(l),
           local' = [local EXCEPT ![p] = l]
    PROVE  /\ local' \in [Proc -> Local]
           /\ \A q \in Proc : Equipped(local[q])'
  BY DEF WellTyped, TypeOK, Equipped

LEMMA TypeNext == WellTyped /\ [Next]_vars => WellTyped'
  <1> SUFFICES ASSUME WellTyped, [Next]_vars PROVE WellTyped'
    OBVIOUS
  <1>0. TypeOK /\ \A p \in Proc : local[p] \in Local /\ Equipped(local[p])
    BY DEF WellTyped, TypeOK
  <1>1. ASSUME NEW p \in Proc, GateStart(p) PROVE WellTyped'
    <2> DEFINE l == [Resting EXCEPT !.pc = "gate", !.cmd = "gate"]
    <2>1. l \in Local /\ Equipped(l)
      BY RestingType DEF Resting, Local, Place, Equipped
    <2>2. local' = [local EXCEPT ![p] = l]
      BY <1>1 DEF GateStart, Begin
    <2> HIDE DEF l
    <2>3. local' \in [Proc -> Local] /\ \A q \in Proc : Equipped(local[q])'
      BY <2>1, <2>2, LocalStep
    <2> QED  BY <1>0, <1>1, <2>3 DEF GateStart, OnlyLocal, WellTyped, TypeOK
  <1>2. ASSUME NEW p \in Proc, GateRead(p) PROVE WellTyped'
    <2> DEFINE l == IF cursor = "buildPlan" THEN [local[p] EXCEPT !.pc = "parse"]
                                            ELSE AfterGate(local[p])
    <2>1. l \in Local /\ Equipped(l)
      <3>1. [local[p] EXCEPT !.pc = "parse"] \in Local
        BY <1>0 DEF Local, Place
      <3>2. Equipped([local[p] EXCEPT !.pc = "parse"])
        BY <1>0 DEF Local, Equipped
      <3> QED  BY <1>0, <3>1, <3>2, AfterGateType
    <2>2. local' = [local EXCEPT ![p] = l]
      BY <1>2 DEF GateRead, Begin
    <2> HIDE DEF l
    <2>3. local' \in [Proc -> Local] /\ \A q \in Proc : Equipped(local[q])'
      BY <2>1, <2>2, LocalStep
    <2> QED  BY <1>0, <1>2, <2>3 DEF GateRead, OnlyLocal, WellTyped, TypeOK
  <1>3. ASSUME NEW p \in Proc, GateParse(p) PROVE WellTyped'
    <2> DEFINE l == [local[p] EXCEPT !.pc = "carry", !.specs = plan]
    <2>1. l \in Local /\ Equipped(l)
      BY <1>0 DEF TypeOK, Local, Place, Equipped
    <2>2. local' = [local EXCEPT ![p] = l]
      BY <1>0, <1>3 DEF GateParse, Begin, Goto, Return, Local, TypeOK
    <2> HIDE DEF l
    <2>3. local' \in [Proc -> Local] /\ \A q \in Proc : Equipped(local[q])'
      BY <2>1, <2>2, LocalStep
    <2> QED  BY <1>0, <1>3, <2>3 DEF GateParse, OnlyLocal, WellTyped, TypeOK
  <1>4. ASSUME NEW p \in Proc, GateCarry(p) PROVE WellTyped'
    <2> DEFINE l == [local[p] EXCEPT !.pc = "freeze", !.read = ledger]
    <2>1. l \in Local /\ Equipped(l)
      BY <1>0 DEF TypeOK, Local, Place, Equipped
    <2>2. local' = [local EXCEPT ![p] = l]
      BY <1>0, <1>4 DEF GateCarry, Begin, Goto, Return, Local, TypeOK
    <2> HIDE DEF l
    <2>3. local' \in [Proc -> Local] /\ \A q \in Proc : Equipped(local[q])'
      BY <2>1, <2>2, LocalStep
    <2> QED  BY <1>0, <1>4, <2>3 DEF GateCarry, OnlyLocal, WellTyped, TypeOK
  <1>5. ASSUME NEW p \in Proc, GateFreeze(p) PROVE WellTyped'
    <2> DEFINE l == AfterGate(local[p])
    <2>1. l \in Local /\ Equipped(l)
      BY <1>0, AfterGateType
    <2>2. local' = [local EXCEPT ![p] = l]
      BY <1>0, <1>5 DEF GateFreeze, Begin, Goto, Return, Local, TypeOK
    <2> HIDE DEF l
    <2>3. local' \in [Proc -> Local] /\ \A q \in Proc : Equipped(local[q])'
      BY <2>1, <2>2, LocalStep
    <2>4. local[p].specs \in Plan /\ local[p].read \in Ledger \cup {NoLedger}
      BY <1>0 DEF Local
    <2>5. BuildLedger(local[p].specs, local[p].read) \in Ledger
      BY <2>4, BuiltLedgerType
    <2> QED  BY <1>0, <1>5, <2>3, <2>5 DEF GateFreeze, WriteTaskLedger, WellTyped, TypeOK
  <1>6. ASSUME NEW p \in Proc, AdvanceStart(p) PROVE WellTyped'
    <2>1. PICK next \in NextStages(cursor) :
            Begin(p, [Resting EXCEPT !.pc = "gate", !.cmd = "advance",
                                     !.from = cursor, !.next = next])
      BY <1>6 DEF AdvanceStart
    <2> DEFINE l == [Resting EXCEPT !.pc = "gate", !.cmd = "advance",
                                    !.from = cursor, !.next = next]
    <2>2. cursor \in Stage /\ next \in Stage
      BY <1>0, StagesType DEF TypeOK
    <2>3. l \in Local /\ Equipped(l)
      BY <2>2, RestingType DEF Resting, Local, Place, Equipped
    <2>4. local' = [local EXCEPT ![p] = l]
      BY <2>1 DEF Begin
    <2> HIDE DEF l
    <2>5. local' \in [Proc -> Local] /\ \A q \in Proc : Equipped(local[q])'
      BY <2>3, <2>4, LocalStep
    <2> QED  BY <1>0, <1>6, <2>5 DEF AdvanceStart, OnlyLocal, WellTyped, TypeOK
  <1>7. ASSUME NEW p \in Proc, TaskLedgerGuard(p) PROVE WellTyped'
    <2> DEFINE l == [local[p] EXCEPT !.pc = "move", !.read = ledger]
    <2>1. l \in Local /\ Equipped(l)
      BY <1>0, <1>7 DEF TaskLedgerGuard, TypeOK, Local, Place, Equipped
    <2>2. local' = [local EXCEPT ![p] = l]
      BY <1>0, <1>7 DEF TaskLedgerGuard, Begin, Goto, Return, Local, TypeOK
    <2> HIDE DEF l
    <2>3. local' \in [Proc -> Local] /\ \A q \in Proc : Equipped(local[q])'
      BY <2>1, <2>2, LocalStep
    <2> QED  BY <1>0, <1>7, <2>3 DEF TaskLedgerGuard, OnlyLocal, WellTyped, TypeOK
  <1>8. ASSUME NEW p \in Proc, Move(p) PROVE WellTyped'
    <2> DEFINE l == Resting
    <2>1. l \in Local /\ Equipped(l)
      BY RestingType, RestingEquipped
    <2>2. local' = [local EXCEPT ![p] = l]
      BY <1>0, <1>8 DEF Move, Begin, Goto, Return, Local, TypeOK
    <2> HIDE DEF l
    <2>3. local' \in [Proc -> Local] /\ \A q \in Proc : Equipped(local[q])'
      BY <2>1, <2>2, LocalStep
    <2>4. local[p].next \in Stage
      BY <1>0, <1>8 DEF Move, Equipped
    <2> QED  BY <1>0, <1>8, <2>3, <2>4 DEF Move, WellTyped, TypeOK
  <1>9. ASSUME NEW p \in Proc, TaskCheckStart(p) PROVE WellTyped'
    <2>1. PICK id \in DOMAIN ledger :
            Begin(p, [Resting EXCEPT !.pc = "drift", !.cmd = "task",
                                     !.read = ledger, !.target = id])
      BY <1>9 DEF TaskCheckStart
    <2> DEFINE l == [Resting EXCEPT !.pc = "drift", !.cmd = "task",
                                    !.read = ledger, !.target = id]
    <2>2. ledger \in Ledger /\ ledger # NoLedger
      BY <1>0, <1>9 DEF TypeOK, TaskCheckStart
    <2>3. id \in TaskId
      BY <2>2, LedgerFunctions
    <2>4. l \in Local /\ Equipped(l)
      BY <2>2, <2>3, RestingType DEF Resting, Local, Place, Equipped
    <2>5. local' = [local EXCEPT ![p] = l]
      BY <2>1 DEF Begin
    <2> HIDE DEF l
    <2>6. local' \in [Proc -> Local] /\ \A q \in Proc : Equipped(local[q])'
      BY <2>4, <2>5, LocalStep
    <2> QED  BY <1>0, <1>9, <2>6 DEF TaskCheckStart, OnlyLocal, WellTyped, TypeOK
  <1>10. ASSUME NEW p \in Proc, NotDrifted(p) PROVE WellTyped'
    <2> DEFINE l == [local[p] EXCEPT !.pc = "verify"]
    <2>1. l \in Local /\ Equipped(l)
      BY <1>0, <1>10 DEF NotDrifted, Local, Place, Equipped
    <2>2. local' = [local EXCEPT ![p] = l]
      BY <1>0, <1>10 DEF NotDrifted, Begin, Goto, Return, Local, TypeOK
    <2> HIDE DEF l
    <2>3. local' \in [Proc -> Local] /\ \A q \in Proc : Equipped(local[q])'
      BY <2>1, <2>2, LocalStep
    <2> QED  BY <1>0, <1>10, <2>3 DEF NotDrifted, OnlyLocal, WellTyped, TypeOK
  <1>11. ASSUME NEW p \in Proc, VerifyPasses(p) PROVE WellTyped'
    <2> DEFINE l == [local[p] EXCEPT !.pc = "record"]
    <2>1. l \in Local /\ Equipped(l)
      BY <1>0, <1>11 DEF VerifyPasses, Local, Place, Equipped
    <2>2. local' = [local EXCEPT ![p] = l]
      BY <1>0, <1>11 DEF VerifyPasses, Begin, Goto, Return, Local, TypeOK
    <2> HIDE DEF l
    <2>3. local' \in [Proc -> Local] /\ \A q \in Proc : Equipped(local[q])'
      BY <2>1, <2>2, LocalStep
    <2>4. local[p].read \in Ledger /\ local[p].target \in DOMAIN local[p].read
      BY <1>0, <1>11 DEF VerifyPasses, Local, Equipped
    <2>5. /\ local[p].target \in TaskId
          /\ local[p].read[local[p].target].verify \in VerifyCommand
      BY <2>4, LedgerFunctions DEF LedgerTask
    <2> QED  BY <1>0, <1>11, <2>3, <2>5 DEF VerifyPasses, WellTyped, TypeOK
  <1>12. ASSUME NEW p \in Proc, RecordDone(p) PROVE WellTyped'
    <2> DEFINE l == Resting
    <2>1. l \in Local /\ Equipped(l)
      BY RestingType, RestingEquipped
    <2>2. local' = [local EXCEPT ![p] = l]
      BY <1>0, <1>12 DEF RecordDone, Begin, Goto, Return, Local, TypeOK
    <2> HIDE DEF l
    <2>3. local' \in [Proc -> Local] /\ \A q \in Proc : Equipped(local[q])'
      BY <2>1, <2>2, LocalStep
    <2>4. local[p].read \in Ledger /\ local[p].target \in DOMAIN local[p].read
      BY <1>0, <1>12 DEF RecordDone, Local, Equipped
    <2>5. [local[p].read EXCEPT ![local[p].target].done = TRUE] \in Ledger
      BY <2>4, MarkedLedgerType
    <2> QED  BY <1>0, <1>12, <2>3, <2>5 DEF RecordDone, WriteTaskLedger, WellTyped, TypeOK
  <1>13. ASSUME NEW p \in Proc, GiveUp(p) PROVE WellTyped'
    <2> DEFINE l == Resting
    <2>1. l \in Local /\ Equipped(l)
      BY RestingType, RestingEquipped
    <2>2. local' = [local EXCEPT ![p] = l]
      BY <1>0, <1>13 DEF GiveUp, Begin, Goto, Return, Local, TypeOK
    <2> HIDE DEF l
    <2>3. local' \in [Proc -> Local] /\ \A q \in Proc : Equipped(local[q])'
      BY <2>1, <2>2, LocalStep
    <2> QED  BY <1>0, <1>13, <2>3 DEF GiveUp, OnlyLocal, WellTyped, TypeOK
  <1>14. CASE EditPlan
    BY <1>0, <1>14, TaskAssumption DEF EditPlan, WellTyped, TypeOK
  <1>15. CASE Rewind
    BY <1>0, <1>15, StagesType DEF Rewind, WellTyped, TypeOK
  <1>16. CASE CycleNew
    BY <1>0, <1>16 DEF CycleNew, WellTyped, TypeOK, Stage
  <1>17. CASE UNCHANGED vars
    BY <1>0, <1>17 DEF vars, WellTyped, TypeOK
  <1> QED
    BY <1>1, <1>2, <1>3, <1>4, <1>5, <1>6, <1>7, <1>8, <1>9, <1>10, <1>11, <1>12,
       <1>13, <1>14, <1>15, <1>16, <1>17 DEF Next

LEMMA TypeInvariant == Spec => []WellTyped
  BY TypeInit, TypeNext, PTL DEF Spec

\* TypeOK is an invariant: the cursor, the plan, the ledger and what each process
\* holds in memory stay what the schemas of the code say.
THEOREM TypeCorrect == Spec => []TypeOK
  <1>1. WellTyped => TypeOK
    BY DEF WellTyped
  <1> QED  BY <1>1, TypeInvariant, PTL

----------------------------------------------------------------------------
(* Marks and dependencies *)

\* What buildLedger carries over was earned, if the previous marks were.
LEMMA BuiltLedgerEarned ==
    ASSUME NEW specs, NEW prev, Earned(prev)
    PROVE  Earned(BuildLedger(specs, prev))
  BY DEF Earned, BuildLedger, Done

\* A plan that has passed validation freezes into an ordered ledger.
LEMMA BuiltLedgerOrdered ==
    ASSUME NEW specs, NEW prev, Valid(specs)
    PROVE  Ordered(BuildLedger(specs, prev))
  <1> DEFINE built == BuildLedger(specs, prev)
  <1>1. /\ DOMAIN built = DOMAIN specs
        /\ \A id \in DOMAIN specs : built[id].depends = specs[id].depends
    BY DEF BuildLedger
  <1> HIDE DEF built
  <1>2. \A id \in DOMAIN built : built[id].depends \subseteq DOMAIN built
    BY <1>1 DEF Valid
  <1>3. Acyclic(built)
    BY <1>1 DEF Valid, Acyclic
  <1> QED  BY <1>2, <1>3 DEF Ordered, built

\* Marking one more task keeps the order, and the marks are earned if the new
\* one is.
LEMMA MarkedLedgerKnown ==
    ASSUME NEW tasks \in Ledger, NEW t \in DOMAIN tasks,
           Earned(tasks), Ordered(tasks), <<t, tasks[t].verify>> \in judged
    PROVE  /\ Earned([tasks EXCEPT ![t].done = TRUE])
           /\ Ordered([tasks EXCEPT ![t].done = TRUE])
  <1> DEFINE marked == [tasks EXCEPT ![t].done = TRUE]
  <1>1. /\ DOMAIN marked = DOMAIN tasks
        /\ \A id \in DOMAIN tasks :
             /\ marked[id].verify = tasks[id].verify
             /\ marked[id].depends = tasks[id].depends
             /\ marked[id].done = (id = t \/ tasks[id].done)
    BY MarkedLedgerType
  <1>2. tasks # NoLedger
    BY LedgerFunctions
  <1> HIDE DEF marked
  <1>3. Earned(marked)
    BY <1>1, <1>2 DEF Earned, Done
  <1>4. Ordered(marked)
    BY <1>1, <1>2 DEF Ordered, Acyclic
  <1> QED  BY <1>3, <1>4 DEF marked

\* More judgements take nothing away.
LEMMA KnowsGrows ==
    ASSUME judged \subseteq judged', NEW l, Knows(l)
    PROVE  /\ Earned(l.read)'
           /\ Ordered(l.read)'
           /\ l.pc = "record" => <<l.target, l.read[l.target].verify>> \in judged'
  BY DEF Knows, Earned

LEMMA KnowingInit == Init => Knowing
  <1>1. Knows(Resting)
    BY DEF Knows, Earned, Ordered, Resting
  <1> QED  BY <1>1 DEF Init, Knowing, Earned, Ordered, Knows

\* A step that leaves the ledger and the history alone and gives one process
\* something it may know.
LEMMA KnowingLocalStep ==
    ASSUME WellTyped, Knowing, NEW p \in Proc, NEW l, Knows(l),
           local' = [local EXCEPT ![p] = l], ledger' = ledger, judged' = judged
    PROVE  Knowing'
  <1>1. \A q \in Proc : local'[q] = IF q = p THEN l ELSE local[q]
    BY DEF WellTyped, TypeOK
  <1> QED  BY <1>1 DEF Knowing, Knows, Earned, Ordered

\* The same when the ledger is written too.
LEMMA KnowingWrite ==
    ASSUME WellTyped, Knowing, NEW p \in Proc, NEW l, Knows(l),
           local' = [local EXCEPT ![p] = l],
           Earned(ledger'), Ordered(ledger'), judged' = judged
    PROVE  Knowing'
  <1>1. \A q \in Proc : local'[q] = IF q = p THEN l ELSE local[q]
    BY DEF WellTyped, TypeOK
  <1> QED  BY <1>1 DEF Knowing, Knows, Earned, Ordered

LEMMA RestingKnows == Knows(Resting)
  BY DEF Knows, Earned, Ordered, Resting

LEMMA AfterGateKnows ==
    ASSUME NEW l \in Local
    PROVE  Knows(AfterGate(l))
  <1>1. CASE l.cmd = "advance"
    BY <1>1 DEF AfterGate, Local, Knows, Earned, Ordered
  <1>2. CASE l.cmd # "advance"
    BY <1>2, RestingKnows DEF AfterGate
  <1> QED  BY <1>1, <1>2

LEMMA KnowingNext == WellTyped /\ Knowing /\ [Next]_vars => Knowing'
  <1> SUFFICES ASSUME WellTyped, Knowing, [Next]_vars PROVE Knowing'
    OBVIOUS
  <1>0. /\ TypeOK
        /\ Earned(ledger) /\ Ordered(ledger)
        /\ \A p \in Proc : /\ local[p] \in Local
                          /\ Equipped(local[p])
                          /\ Knows(local[p])
    BY DEF WellTyped, TypeOK, Knowing
  <1>1. ASSUME NEW p \in Proc, GateStart(p) PROVE Knowing'
    <2> DEFINE l == [Resting EXCEPT !.pc = "gate", !.cmd = "gate"]
    <2>1. Knows(l)
      BY DEF Knows, Earned, Ordered, Resting
    <2>2. local' = [local EXCEPT ![p] = l] /\ ledger' = ledger /\ judged' = judged
      BY <1>0, <1>1 DEF GateStart, Begin, Goto, Return, OnlyLocal, Local, TypeOK
    <2> HIDE DEF l
    <2> QED  BY <2>1, <2>2, KnowingLocalStep
  <1>2. ASSUME NEW p \in Proc, GateRead(p) PROVE Knowing'
    <2> DEFINE l == IF cursor = "buildPlan" THEN [local[p] EXCEPT !.pc = "parse"]
                                            ELSE AfterGate(local[p])
    <2>1. Knows(l)
      <3>1. Knows([local[p] EXCEPT !.pc = "parse"])
        BY <1>0 DEF Local, Knows
      <3> QED  BY <1>0, <3>1, AfterGateKnows
    <2>2. local' = [local EXCEPT ![p] = l] /\ ledger' = ledger /\ judged' = judged
      BY <1>0, <1>2 DEF GateRead, Begin, Goto, Return, OnlyLocal, Local, TypeOK
    <2> HIDE DEF l
    <2> QED  BY <2>1, <2>2, KnowingLocalStep
  <1>3. ASSUME NEW p \in Proc, GateParse(p) PROVE Knowing'
    <2> DEFINE l == [local[p] EXCEPT !.pc = "carry", !.specs = plan]
    <2>1. Knows(l)
      BY <1>0, <1>3 DEF GateParse, Local, Knows
    <2>2. local' = [local EXCEPT ![p] = l] /\ ledger' = ledger /\ judged' = judged
      BY <1>0, <1>3 DEF GateParse, Begin, Goto, Return, OnlyLocal, Local, TypeOK
    <2> HIDE DEF l
    <2> QED  BY <2>1, <2>2, KnowingLocalStep
  <1>4. ASSUME NEW p \in Proc, GateCarry(p) PROVE Knowing'
    <2> DEFINE l == [local[p] EXCEPT !.pc = "freeze", !.read = ledger]
    <2>1. Knows(l)
      BY <1>0, <1>4 DEF GateCarry, Local, Knows
    <2>2. local' = [local EXCEPT ![p] = l] /\ ledger' = ledger /\ judged' = judged
      BY <1>0, <1>4 DEF GateCarry, Begin, Goto, Return, OnlyLocal, Local, TypeOK
    <2> HIDE DEF l
    <2> QED  BY <2>1, <2>2, KnowingLocalStep
  <1>5. ASSUME NEW p \in Proc, GateFreeze(p) PROVE Knowing'
    <2>1. Knows(AfterGate(local[p]))
      BY <1>0, AfterGateKnows
    <2>2. Earned(local[p].read) /\ Valid(local[p].specs)
      BY <1>0, <1>5 DEF GateFreeze, Knows
    <2>3. /\ Earned(BuildLedger(local[p].specs, local[p].read))
          /\ Ordered(BuildLedger(local[p].specs, local[p].read))
      BY <2>2, BuiltLedgerEarned, BuiltLedgerOrdered
    <2>4. /\ local' = [local EXCEPT ![p] = AfterGate(local[p])]
          /\ ledger' = BuildLedger(local[p].specs, local[p].read)
          /\ judged' = judged
      BY <1>5 DEF GateFreeze, WriteTaskLedger, Begin
    <2> QED  BY <2>1, <2>3, <2>4, KnowingWrite
  <1>6. ASSUME NEW p \in Proc, AdvanceStart(p) PROVE Knowing'
    <2>1. PICK next \in NextStages(cursor) :
            Begin(p, [Resting EXCEPT !.pc = "gate", !.cmd = "advance",
                                     !.from = cursor, !.next = next])
      BY <1>6 DEF AdvanceStart
    <2> DEFINE l == [Resting EXCEPT !.pc = "gate", !.cmd = "advance",
                                    !.from = cursor, !.next = next]
    <2>2. Knows(l)
      BY DEF Knows, Earned, Ordered, Resting
    <2>3. local' = [local EXCEPT ![p] = l] /\ ledger' = ledger /\ judged' = judged
      BY <1>6, <2>1 DEF AdvanceStart, Begin, OnlyLocal
    <2> HIDE DEF l
    <2> QED  BY <2>2, <2>3, KnowingLocalStep
  <1>7. ASSUME NEW p \in Proc, TaskLedgerGuard(p) PROVE Knowing'
    <2> DEFINE l == [local[p] EXCEPT !.pc = "move", !.read = ledger]
    <2>1. Knows(l)
      BY <1>0, <1>7 DEF TaskLedgerGuard, Local, Knows
    <2>2. local' = [local EXCEPT ![p] = l] /\ ledger' = ledger /\ judged' = judged
      BY <1>0, <1>7 DEF TaskLedgerGuard, Begin, Goto, Return, OnlyLocal, Local, TypeOK
    <2> HIDE DEF l
    <2> QED  BY <2>1, <2>2, KnowingLocalStep
  <1>8. ASSUME NEW p \in Proc, Move(p) PROVE Knowing'
    <2> DEFINE l == Resting
    <2>1. Knows(l)
      BY RestingKnows
    <2>2. local' = [local EXCEPT ![p] = l] /\ ledger' = ledger /\ judged' = judged
      BY <1>0, <1>8 DEF Move, Begin, Goto, Return, OnlyLocal, Local, TypeOK
    <2> HIDE DEF l
    <2> QED  BY <2>1, <2>2, KnowingLocalStep
  <1>9. ASSUME NEW p \in Proc, TaskCheckStart(p) PROVE Knowing'
    <2>1. PICK id \in DOMAIN ledger :
            Begin(p, [Resting EXCEPT !.pc = "drift", !.cmd = "task",
                                     !.read = ledger, !.target = id])
      BY <1>9 DEF TaskCheckStart
    <2> DEFINE l == [Resting EXCEPT !.pc = "drift", !.cmd = "task",
                                    !.read = ledger, !.target = id]
    <2>2. Knows(l)
      BY <1>0 DEF Knows, Resting
    <2>3. local' = [local EXCEPT ![p] = l] /\ ledger' = ledger /\ judged' = judged
      BY <1>9, <2>1 DEF TaskCheckStart, Begin, OnlyLocal
    <2> HIDE DEF l
    <2> QED  BY <2>2, <2>3, KnowingLocalStep
  <1>10. ASSUME NEW p \in Proc, NotDrifted(p) PROVE Knowing'
    <2> DEFINE l == [local[p] EXCEPT !.pc = "verify"]
    <2>1. Knows(l)
      BY <1>0 DEF Local, Knows
    <2>2. local' = [local EXCEPT ![p] = l] /\ ledger' = ledger /\ judged' = judged
      BY <1>0, <1>10 DEF NotDrifted, Begin, Goto, Return, OnlyLocal, Local, TypeOK
    <2> HIDE DEF l
    <2> QED  BY <2>1, <2>2, KnowingLocalStep
  <1>11. ASSUME NEW p \in Proc, VerifyPasses(p) PROVE Knowing'
    <2> DEFINE l == [local[p] EXCEPT !.pc = "record"]
    <2>1. judged \subseteq judged'
      BY <1>11 DEF VerifyPasses
    <2>2. <<local[p].target, local[p].read[local[p].target].verify>> \in judged'
      BY <1>11 DEF VerifyPasses
    <2>3. Earned(local[p].read)' /\ Ordered(local[p].read)'
      BY <1>0, <1>11, <2>1 DEF VerifyPasses, Goto, Knows, Earned, Ordered, TypeOK, Local
    <2>4. \A q \in Proc : local'[q] = IF q = p THEN l ELSE local[q]
      BY <1>0, <1>11 DEF VerifyPasses, Goto, TypeOK
    <2>5. Earned(ledger)' /\ Ordered(ledger)'
      BY <1>0, <1>11, <2>1 DEF VerifyPasses, Earned, Ordered
    <2>6. Knows(local[p])'
      <3>1. /\ local'[p].pc = "record"
            /\ local'[p].read = local[p].read
            /\ local'[p].target = local[p].target
        BY <1>0, <2>4 DEF Local
      <3> QED  BY <2>2, <2>3, <3>1 DEF Knows
    <2>7. ASSUME NEW q \in Proc, q # p PROVE Knows(local[q])'
      BY <1>0, <2>1, <2>4, <2>7 DEF Knows, Earned, Ordered
    <2> QED  BY <2>5, <2>6, <2>7 DEF Knowing
  <1>12. ASSUME NEW p \in Proc, RecordDone(p) PROVE Knowing'
    <2> DEFINE marked == [local[p].read EXCEPT ![local[p].target].done = TRUE]
    <2>1. local[p].read \in Ledger /\ local[p].target \in DOMAIN local[p].read
      BY <1>0, <1>12 DEF RecordDone, Local, Equipped
    <2>2. /\ Earned(local[p].read) /\ Ordered(local[p].read)
          /\ <<local[p].target, local[p].read[local[p].target].verify>> \in judged
      BY <1>0, <1>12 DEF RecordDone, Knows
    <2>3. Earned(marked) /\ Ordered(marked)
      BY <2>1, <2>2, MarkedLedgerKnown
    <2>4. local' = [local EXCEPT ![p] = Resting] /\ ledger' = marked /\ judged' = judged
      BY <1>12 DEF RecordDone, WriteTaskLedger, Return
    <2> HIDE DEF marked
    <2> QED  BY <2>3, <2>4, RestingKnows, KnowingWrite
  <1>13. ASSUME NEW p \in Proc, GiveUp(p) PROVE Knowing'
    <2> DEFINE l == Resting
    <2>1. Knows(l)
      BY RestingKnows
    <2>2. local' = [local EXCEPT ![p] = l] /\ ledger' = ledger /\ judged' = judged
      BY <1>0, <1>13 DEF GiveUp, Begin, Goto, Return, OnlyLocal, Local, TypeOK
    <2> HIDE DEF l
    <2> QED  BY <2>1, <2>2, KnowingLocalStep
  <1>14. CASE EditPlan
    BY <1>0, <1>14 DEF EditPlan, Knowing, Knows, Earned, Ordered
  <1>15. CASE Rewind
    BY <1>0, <1>15 DEF Rewind, Knowing, Knows, Earned, Ordered
  <1>16. CASE CycleNew
    BY <1>0, <1>16 DEF CycleNew, Knowing, Knows, Earned, Ordered
  <1>17. CASE UNCHANGED vars
    BY <1>0, <1>17 DEF vars, Knowing, Knows, Earned, Ordered
  <1> QED
    BY <1>1, <1>2, <1>3, <1>4, <1>5, <1>6, <1>7, <1>8, <1>9, <1>10, <1>11, <1>12,
       <1>13, <1>14, <1>15, <1>16, <1>17 DEF Next

LEMMA KnowingInvariant == Spec => []Knowing
  BY KnowingInit, KnowingNext, TypeInvariant, PTL DEF Spec

\* A task that any ledger calls done has had its frozen command exit 0, however
\* gates, checks, edits, advances, rewinds and new rounds interleave.
THEOREM DoneOnlyByJudgement == Spec => []DoneWasJudged
  <1>1. Knowing => DoneWasJudged
    BY DEF Knowing, Earned, DoneWasJudged
  <1> QED  BY <1>1, KnowingInvariant, PTL

\* As long as a task is pending there is one that `ocn task check` can take up:
\* validation leaves no cycle and no dangling dependency, and no later step
\* brings one in.
THEOREM DispatchNeverDeadlocks == Spec => []ReadyTaskExists
  <1>1. Knowing => ReadyTaskExists
    <2> SUFFICES ASSUME Knowing, ledger # NoLedger, Pending(ledger) # {}
                 PROVE  \E id \in Pending(ledger) :
                           ledger[id].depends \subseteq Done(ledger)
      BY DEF ReadyTaskExists
    <2>1. /\ \A id \in DOMAIN ledger : ledger[id].depends \subseteq DOMAIN ledger
          /\ Acyclic(ledger)
      BY DEF Knowing, Ordered
    <2>2. Pending(ledger) \in SUBSET DOMAIN ledger
      BY DEF Pending
    <2>3. PICK id \in Pending(ledger) :
            ledger[id].depends \cap Pending(ledger) = {}
      BY <2>1, <2>2 DEF Acyclic
    <2>4. ledger[id].depends \subseteq Done(ledger)
      BY <2>1, <2>2, <2>3 DEF Pending
    <2> QED  BY <2>3, <2>4
  <1> QED  BY <1>1, KnowingInvariant, PTL

\* Whoever is about to move the cursor out of BUILD has seen a ledger all of
\* whose tasks had been run to exit 0, or none.
THEOREM BuildIsLeftJudged == Spec => []BuildLeftJudged
  <1>1. Knowing => BuildLeftJudged
    BY DEF Knowing, Knows, Earned, BuildLeftJudged, Pending
  <1> QED  BY <1>1, KnowingInvariant, PTL

\* Marks are lost by racing writes alone: a step that takes the mark off a task
\* whose command stays the same replaces a ledger that its process had not read.
THEOREM MarksAreLostByRacesAlone == Spec => DoneStaysDoneUnlessRaced
  <1>1. WellTyped /\ [Next]_vars => raced' \/ MarksKept \/ UNCHANGED vars
    <2> SUFFICES ASSUME WellTyped, Next, ~raced' PROVE MarksKept
      OBVIOUS
    <2>1. CASE ledger' = ledger
      BY <2>1 DEF MarksKept, Done
    <2>2. ASSUME NEW p \in Proc, GateFreeze(p) PROVE MarksKept
      <3>1. ledger' = BuildLedger(local[p].specs, ledger)
        BY <2>2 DEF GateFreeze, WriteTaskLedger
      <3> QED  BY <3>1 DEF MarksKept, BuildLedger, Done
    <2>3. ASSUME NEW p \in Proc, RecordDone(p) PROVE MarksKept
      <3>1. /\ local[p].read \in Ledger
            /\ local[p].target \in DOMAIN local[p].read
            /\ local[p].read = ledger
        BY <2>3 DEF RecordDone, WriteTaskLedger, WellTyped, TypeOK, Local, Equipped
      <3>2. ledger' = [ledger EXCEPT ![local[p].target].done = TRUE]
        BY <2>3, <3>1 DEF RecordDone, WriteTaskLedger
      <3> QED  BY <3>1, <3>2, MarkedLedgerType DEF MarksKept, Done
    <2>4. CASE CycleNew
      BY <2>4 DEF CycleNew, MarksKept
    <2> QED
      BY <2>1, <2>2, <2>3, <2>4
         DEF Next, GateStart, GateRead, GateParse, GateCarry, AdvanceStart,
             TaskLedgerGuard, Move, TaskCheckStart, NotDrifted, VerifyPasses,
             GiveUp, EditPlan, Rewind, OnlyLocal
  <1>2. WellTyped /\ [Next]_vars => [raced' \/ MarksKept]_vars
    BY <1>1
  <1> QED  BY <1>2, TypeInvariant, PTL DEF Spec, DoneStaysDoneUnlessRaced
==============================================================================
