-------------------------- MODULE AutomationProofs --------------------------
(***************************************************************************)
(* Proofs about auto mode, for every set of processes, every profile with   *)
(* its phases, every threshold of the breaker and every set of edits.       *)
(***************************************************************************)
EXTENDS Automation, TLAPS

----------------------------------------------------------------------------
(* What a command has in memory *)

AgentCommand == {"advance", "rewind", "check"}

\* Where the command goes from and to, which commands come to which place, and
\* that a command past its reading of the breaker has not read a tripped one.
Equipped(l) ==
    /\ l.cmd \in AgentCommand => l.from \in Step
    /\ l.cmd = "advance" => l.to = NextStep(l.from)
    /\ l.cmd = "rewind" => l.to \in 1 .. (l.from - 1)
    /\ l.pc \in {"config", "runtime"} => l.cmd \in AgentCommand
    /\ l.pc \in {"gate", "clear"} => l.cmd = "advance"
    /\ l.pc = "move" => l.cmd \in {"advance", "rewind"}
    /\ l.pc = "verify" => l.cmd = "check"
    /\ l.pc \in {"writeConfig", "writeRuntime"} => l.cmd = "switch"
    /\ ~l.read.suspended

AllEquipped == \A p \in Proc : Equipped(local[p])

\* A count has had as many failures at its step, and trips at the threshold.
Backed(r, f) ==
    /\ r.count # 0 => r.step # NoStep /\ r.count <= f[r.step]
    /\ r.suspended <=> r.count = Threshold

AllBacked == Backed(runtime, fails) /\ \A p \in Proc : Backed(local[p].read, fails)

Permits(c, l) ==
    /\ l.cmd = "advance" => AdvanceGranted(Granted(c), l.from, l.to)
    /\ l.cmd = "rewind" => RewindGranted(Granted(c), l.from, l.to)
    /\ l.cmd = "check" => CheckGranted(Granted(c), l.from)

\* A command that nothing has overtaken is still permitted, and a switch that
\* nothing has overtaken has left what it was to leave.
Covered(l, c, r) ==
    ~l.overtaken =>
        /\ l.pc \in {"runtime", "gate", "move", "verify"} => Permits(c, l)
        /\ l.pc \in {"gate", "move", "verify", "clear"} => ~r.suspended
        /\ l.pc = "writeRuntime" => Granted(c) \subseteq l.granted

AllCovered == \A p \in Proc : Covered(local[p], config, runtime)

Inv == TypeOK /\ AllEquipped /\ AllBacked /\ AllCovered

----------------------------------------------------------------------------
(* Steps, grants and counts *)

LEMMA NextStepTyped == \A s \in Step : NextStep(s) \in Step \cup {NoStep}
BY StepAssumption DEF Step, NextStep, NoStep

LEMMA EarlierStepTyped == \A s \in Step : \A t \in 1 .. (s - 1) : t \in Step
BY StepAssumption DEF Step

LEMMA RuntimeTyped == DefaultRuntime \in Runtime
BY BreakerAssumption DEF DefaultRuntime, Runtime

LEMMA RestingFits ==
    ASSUME NEW c, NEW r, NEW f
    PROVE  Resting \in Local /\ Equipped(Resting) /\ Covered(Resting, c, r)
           /\ Backed(Resting.read, f)
BY RuntimeTyped, BreakerAssumption
   DEF Resting, Local, Place, Equipped, AgentCommand, Covered, Backed, DefaultRuntime

LEMMA GrantedTyped == \A c \in Config : Granted(c) \subseteq Phase
BY DEF Config, Granted

LEMMA WrittenFits ==
    ASSUME NEW c \in Config, NEW phases \in SUBSET Phase
    PROVE  Written(c, phases) \in Config /\ Granted(Written(c, phases)) \subseteq phases
BY DEF Written, Config, Form, Granted

\* One more failure at a step backs one more in a count read before.
LEMMA FailureBacks ==
    ASSUME NEW f \in [Step -> 0 .. Threshold], NEW r \in Runtime, NEW s \in Step,
           Backed(r, f), ~r.suspended
    PROVE  /\ RecordAiGateFailure(r, s) \in Runtime
           /\ Backed(RecordAiGateFailure(r, s), [f EXCEPT ![s] = Capped(@ + 1)])
<1> DEFINE count == IF r.step = s THEN r.count + 1 ELSE 1
<1>1. r.count \in 0 .. Threshold /\ r.count # Threshold /\ Threshold \in Nat \ {0}
  BY BreakerAssumption DEF Runtime, Backed
<1>2. count \in 1 .. Threshold
  BY <1>1
<1>3. count <= Capped(f[s] + 1)
  BY <1>1 DEF Capped, Backed
<1>4. RecordAiGateFailure(r, s) = [suspended |-> count >= Threshold, step |-> s, count |-> count]
  BY DEF RecordAiGateFailure
<1>5. s # NoStep
  BY DEF Step, NoStep
<1>6. [f EXCEPT ![s] = Capped(@ + 1)][s] = Capped(f[s] + 1)
  OBVIOUS
<1> DEFINE new == RecordAiGateFailure(r, s)
           g == [f EXCEPT ![s] = Capped(@ + 1)]
<1> HIDE DEF count
<1>7. PICK tripped \in BOOLEAN : tripped <=> count >= Threshold
  OBVIOUS
<1>8. new = [suspended |-> tripped, step |-> s, count |-> count]
  BY <1>4, <1>7
<1> HIDE DEF new, g
<1>9. new \in Runtime
  BY <1>1, <1>2, <1>8 DEF Runtime
<1>10. Backed(new, g)
  BY <1>1, <1>2, <1>3, <1>5, <1>6, <1>7, <1>8 DEF Backed, g
<1> QED BY <1>9, <1>10 DEF new, g

\* The failures only grow.
LEMMA FailuresGrow ==
    ASSUME NEW f \in [Step -> 0 .. Threshold], NEW s \in Step
    PROVE  /\ [f EXCEPT ![s] = Capped(@ + 1)] \in [Step -> 0 .. Threshold]
           /\ \A r \in Runtime : Backed(r, f) => Backed(r, [f EXCEPT ![s] = Capped(@ + 1)])
<1> DEFINE g == [f EXCEPT ![s] = Capped(@ + 1)]
<1>1. g \in [Step -> 0 .. Threshold]
  BY BreakerAssumption DEF Capped
<1>2. \A t \in Step : f[t] <= g[t] /\ f[t] \in Nat /\ g[t] \in Nat
  BY BreakerAssumption DEF Capped
<1>3. ASSUME NEW r \in Runtime, Backed(r, f) PROVE Backed(r, g)
  <2>1. CASE r.count = 0
    BY <1>3, <2>1 DEF Backed
  <2>2. CASE r.count # 0
    <3>1. r.step \in Step /\ r.count \in Nat /\ r.count <= f[r.step]
      BY <1>3, <2>2, BreakerAssumption DEF Backed, Runtime
    <3>2. r.count <= g[r.step]
      BY <3>1, <1>2
    <3> QED BY <1>3, <3>2 DEF Backed
  <2> QED BY <2>1, <2>2
<1> QED BY <1>1, <1>3

LEMMA ClearedFits ==
    ASSUME NEW r \in Runtime, NEW f, ~r.suspended
    PROVE  /\ ClearFailureCounter(r) \in Runtime
           /\ Backed(ClearFailureCounter(r), f)
           /\ ~ClearFailureCounter(r).suspended
<1> DEFINE new == ClearFailureCounter(r)
<1>1. new = [suspended |-> r.suspended, step |-> NoStep, count |-> 0]
  BY DEF ClearFailureCounter
<1>2. Threshold \in Nat \ {0} /\ r.suspended = FALSE
  BY BreakerAssumption DEF Runtime
<1> HIDE DEF new
<1>3. new.count = 0 /\ new.suspended = FALSE /\ new.step = NoStep
  BY <1>1, <1>2
<1>4. new \in Runtime
  BY <1>1, <1>2 DEF Runtime
<1>5. Backed(new, f)
  BY <1>2, <1>3 DEF Backed
<1> QED BY <1>3, <1>4, <1>5 DEF new

LEMMA DefaultFits == \A f : Backed(DefaultRuntime, f) /\ ~DefaultRuntime.suspended
BY BreakerAssumption DEF DefaultRuntime, Backed

----------------------------------------------------------------------------
(* Steps of one process *)

\* A step that touches nothing else than one command's memory, or also what no
\* command depends on, the cursor and the row of failures.
LEMMA OneCommand ==
    ASSUME Inv, NEW p \in Proc, NEW l \in Local, Equipped(l), Backed(l.read, fails),
           Covered(l, config, runtime), local' = [local EXCEPT ![p] = l],
           UNCHANGED <<config, runtime, fails>>
    PROVE  local' \in [Proc -> Local] /\ (AllEquipped /\ AllBacked /\ AllCovered)'
<1>1. local' \in [Proc -> Local]
  BY DEF Inv, TypeOK
<1>2. \A q \in Proc : local'[q] = IF q = p THEN l ELSE local[q]
  BY DEF Inv, TypeOK
<1>3. AllEquipped'
  BY <1>2 DEF Inv, AllEquipped
<1>4. AllBacked'
  BY <1>2 DEF Inv, AllBacked
<1>5. AllCovered'
  BY <1>2 DEF Inv, AllCovered
<1> QED BY <1>1, <1>3, <1>4, <1>5

\* What an overtaken command keeps.
LEMMA OvertakenFits ==
    ASSUME Inv, NEW q \in Proc, NEW c, NEW r
    PROVE  /\ Overtaken(local)[q] \in Local
           /\ Equipped(Overtaken(local)[q])
           /\ Covered(Overtaken(local)[q], c, r)
           /\ Overtaken(local)[q].read = local[q].read
<1> DEFINE l == local[q]
           o == [l EXCEPT !.overtaken = @ \/ l.pc # "idle"]
<1>1. l \in Local /\ Equipped(l)
  BY DEF Inv, TypeOK, AllEquipped
<1>2. Overtaken(local)[q] = o
  BY DEF Overtaken
<1> HIDE DEF l
<1>3. o \in Local /\ o.read = l.read
  BY <1>1 DEF Local
<1>4. Equipped(o)
  BY <1>1 DEF Local, Equipped
<1>5. Covered(o, c, r)
  BY <1>1 DEF Local, Covered
<1> QED BY <1>2, <1>3, <1>4, <1>5 DEF l

\* A step that overtakes all the others.
LEMMA OthersOvertaken ==
    ASSUME Inv, NEW p \in Proc, NEW l \in Local, Equipped(l), Backed(l.read, fails'),
           Covered(l, config', runtime'), local' = [Overtaken(local) EXCEPT ![p] = l],
           \A r \in Runtime : Backed(r, fails) => Backed(r, fails'),
           Backed(runtime', fails')
    PROVE  local' \in [Proc -> Local] /\ (AllEquipped /\ AllBacked /\ AllCovered)'
<1>1. \A q \in Proc : local'[q] = IF q = p THEN l ELSE Overtaken(local)[q]
  BY DEF Overtaken
<1>2. local' \in [Proc -> Local]
  <2>1. \A q \in Proc : local'[q] \in Local
    BY <1>1, OvertakenFits
  <2>2. local' = [q \in Proc |-> local'[q]]
    BY DEF Overtaken
  <2> QED BY <2>1, <2>2
<1>3. AllEquipped'
  BY <1>1, OvertakenFits DEF AllEquipped
<1>4. \A q \in Proc : local[q].read \in Runtime /\ Backed(local[q].read, fails)
  BY DEF Inv, TypeOK, Local, AllBacked
<1>5. AllBacked'
  BY <1>1, <1>4, OvertakenFits DEF AllBacked
<1>6. AllCovered'
  BY <1>1, OvertakenFits DEF AllCovered
<1> QED BY <1>2, <1>3, <1>5, <1>6

\* A step that overtakes every command.
LEMMA AllOvertaken ==
    ASSUME Inv, local' = Overtaken(local), fails' = fails, Backed(runtime', fails)
    PROVE  local' \in [Proc -> Local] /\ (AllEquipped /\ AllBacked /\ AllCovered)'
<1>1. \A q \in Proc : local'[q] = Overtaken(local)[q]
  OBVIOUS
<1>2. local' \in [Proc -> Local]
  <2>1. \A q \in Proc : local'[q] \in Local
    BY <1>1, OvertakenFits
  <2>2. local' = [q \in Proc |-> local'[q]]
    BY DEF Overtaken
  <2> QED BY <2>1, <2>2
<1>3. AllEquipped'
  BY <1>1, OvertakenFits DEF AllEquipped
<1>4. \A q \in Proc : Backed(local[q].read, fails)
  BY DEF Inv, AllBacked
<1>5. AllBacked'
  BY <1>1, <1>4, OvertakenFits DEF AllBacked
<1>6. AllCovered'
  BY <1>1, OvertakenFits DEF AllCovered
<1> QED BY <1>2, <1>3, <1>5, <1>6
----------------------------------------------------------------------------
(* Every step *)

\* A command that goes to another place keeps the rest of what it knows.
LEMMA GoingOn ==
    ASSUME NEW l \in Local, NEW place \in Place
    PROVE  LET n == [l EXCEPT !.pc = place]
           IN  /\ n \in Local
               /\ n.pc = place /\ n.cmd = l.cmd /\ n.from = l.from /\ n.to = l.to
               /\ n.granted = l.granted /\ n.read = l.read /\ n.overtaken = l.overtaken
BY DEF Local

LEMMA InvInit == Init => Inv
<1> SUFFICES ASSUME Init PROVE Inv
  OBVIOUS
<1>1. TypeOK
  <2>1. cursor \in Step /\ config \in Config
    BY StepAssumption, EditAssumption DEF Init, Step
  <2>2. fails \in [Step -> 0 .. Threshold]
    BY BreakerAssumption DEF Init
  <2>3. local \in [Proc -> Local]
    BY RestingFits DEF Init
  <2> QED BY <2>1, <2>2, <2>3, RuntimeTyped DEF Init, TypeOK
<1>2. AllEquipped /\ AllCovered
  BY RestingFits DEF Init, AllEquipped, AllCovered
<1>3. AllBacked
  BY RestingFits, DefaultFits DEF Init, AllBacked
<1> QED BY <1>1, <1>2, <1>3 DEF Inv

\* A step of one command that leaves the files and the history alone.
LEMMA QuietStep ==
    ASSUME Inv, NEW p \in Proc, NEW l \in Local, Equipped(l), Backed(l.read, fails),
           Covered(l, config, runtime), local' = [local EXCEPT ![p] = l], OnlyLocal
    PROVE  Inv'
<1>1. local' \in [Proc -> Local] /\ (AllEquipped /\ AllBacked /\ AllCovered)'
  BY OneCommand DEF OnlyLocal
<1> QED BY <1>1 DEF Inv, TypeOK, OnlyLocal

LEMMA AgentStarts ==
    ASSUME Inv, NEW p \in Proc, AgentStart(p)
    PROVE  Inv'
<1> USE DEF AgentStart, Become
<1>0. cursor \in Step /\ NextStep(cursor) \in Step \cup {NoStep} /\ OnlyLocal
  BY NextStepTyped DEF Inv, TypeOK
<1>1. CASE Become(p, [Resting EXCEPT !.pc = "config", !.cmd = "advance",
                                     !.from = cursor, !.to = NextStep(cursor)])
  <2> DEFINE l == [Resting EXCEPT !.pc = "config", !.cmd = "advance",
                                  !.from = cursor, !.to = NextStep(cursor)]
  <2>1. l \in Local /\ Equipped(l) /\ Covered(l, config, runtime) /\ l.read = Resting.read
    BY <1>0, RestingFits DEF Resting, Local, Place, Equipped, AgentCommand, Covered
  <2> QED BY <1>0, <1>1, <2>1, RestingFits, QuietStep
<1>2. CASE \E to \in 1 .. (cursor - 1) :
              Become(p, [Resting EXCEPT !.pc = "config", !.cmd = "rewind",
                                        !.from = cursor, !.to = to])
  <2>1. PICK to \in 1 .. (cursor - 1) :
              Become(p, [Resting EXCEPT !.pc = "config", !.cmd = "rewind",
                                        !.from = cursor, !.to = to])
    BY <1>2
  <2>2. to \in Step
    BY <1>0, EarlierStepTyped
  <2> DEFINE l == [Resting EXCEPT !.pc = "config", !.cmd = "rewind",
                                  !.from = cursor, !.to = to]
  <2>3. l \in Local /\ Equipped(l) /\ Covered(l, config, runtime) /\ l.read = Resting.read
    BY <1>0, <2>2, RestingFits DEF Resting, Local, Place, Equipped, AgentCommand, Covered
  <2> QED BY <1>0, <2>1, <2>3, RestingFits, QuietStep
<1>3. CASE Become(p, [Resting EXCEPT !.pc = "config", !.cmd = "check", !.from = cursor])
  <2> DEFINE l == [Resting EXCEPT !.pc = "config", !.cmd = "check", !.from = cursor]
  <2>1. l \in Local /\ Equipped(l) /\ Covered(l, config, runtime) /\ l.read = Resting.read
    BY <1>0, RestingFits DEF Resting, Local, Place, Equipped, AgentCommand, Covered
  <2> QED BY <1>0, <1>3, <2>1, RestingFits, QuietStep
<1> QED BY <1>1, <1>2, <1>3

LEMMA ConfigLoads ==
    ASSUME Inv, NEW p \in Proc, LoadConfig(p)
    PROVE  Inv'
<1> DEFINE l == [local[p] EXCEPT !.pc = "runtime"]
<1>0. /\ local[p] \in Local /\ Equipped(local[p]) /\ Backed(local[p].read, fails)
      /\ local[p].pc = "config" /\ OnlyLocal
      /\ local' = [local EXCEPT ![p].pc = "runtime"]
  BY DEF Inv, TypeOK, AllEquipped, AllBacked, LoadConfig
<1>1. Permits(config, local[p])
  BY <1>0 DEF LoadConfig, Permits
<1>2. /\ l \in Local /\ l.pc = "runtime" /\ l.cmd = local[p].cmd /\ l.from = local[p].from
      /\ l.to = local[p].to /\ l.read = local[p].read
  BY <1>0, GoingOn DEF Place
<1>3. Equipped(l)
  BY <1>0, <1>2 DEF Equipped
<1>4. Covered(l, config, runtime)
  BY <1>1, <1>2 DEF Covered, Permits
<1>5. local' = [local EXCEPT ![p] = l]
  BY <1>0 DEF Inv, TypeOK
<1> HIDE DEF l
<1> QED BY <1>0, <1>2, <1>3, <1>4, <1>5, QuietStep

LEMMA RuntimeLoads ==
    ASSUME Inv, NEW p \in Proc, LoadRuntime(p)
    PROVE  Inv'
<1>0. /\ local[p] \in Local /\ Equipped(local[p]) /\ Backed(local[p].read, fails)
      /\ Covered(local[p], config, runtime)
      /\ local[p].pc = "runtime" /\ OnlyLocal /\ ~runtime.suspended
      /\ runtime \in Runtime /\ Backed(runtime, fails)
      /\ local' = [local EXCEPT ![p] = AfterLoading(local[p])]
  BY DEF Inv, TypeOK, AllEquipped, AllBacked, AllCovered, LoadRuntime, Become
<1>1. local[p].cmd \in AgentCommand
  BY <1>0 DEF Equipped
<1>2. CASE local[p].cmd = "advance"
  <2> DEFINE l == [local[p] EXCEPT !.pc = "gate", !.read = runtime]
  <2>1. AfterLoading(local[p]) = l
    BY <1>2 DEF AfterLoading
  <2>2. /\ l \in Local /\ l.pc = "gate" /\ l.cmd = local[p].cmd /\ l.from = local[p].from
        /\ l.to = local[p].to /\ l.read = runtime /\ l.overtaken = local[p].overtaken
    BY <1>0 DEF Local, Place
  <2> HIDE DEF l
  <2>3. Equipped(l)
    BY <1>0, <1>2, <2>2 DEF Equipped
  <2>4. Covered(l, config, runtime)
    BY <1>0, <2>2 DEF Covered, Permits
  <2> QED BY <1>0, <2>1, <2>2, <2>3, <2>4, QuietStep
<1>3. CASE local[p].cmd = "rewind"
  <2> DEFINE l == [local[p] EXCEPT !.pc = "move"]
  <2>1. AfterLoading(local[p]) = l
    BY <1>3 DEF AfterLoading
  <2>2. /\ l \in Local /\ l.pc = "move" /\ l.cmd = local[p].cmd /\ l.from = local[p].from
        /\ l.to = local[p].to /\ l.read = local[p].read /\ l.overtaken = local[p].overtaken
    BY <1>0, GoingOn DEF Place
  <2> HIDE DEF l
  <2>3. Equipped(l)
    BY <1>0, <1>3, <2>2 DEF Equipped
  <2>4. Covered(l, config, runtime)
    BY <1>0, <2>2 DEF Covered, Permits
  <2> QED BY <1>0, <2>1, <2>2, <2>3, <2>4, QuietStep
<1>4. CASE local[p].cmd = "check"
  <2> DEFINE l == [local[p] EXCEPT !.pc = "verify"]
  <2>1. AfterLoading(local[p]) = l
    BY <1>4 DEF AfterLoading
  <2>2. /\ l \in Local /\ l.pc = "verify" /\ l.cmd = local[p].cmd /\ l.from = local[p].from
        /\ l.to = local[p].to /\ l.read = local[p].read /\ l.overtaken = local[p].overtaken
    BY <1>0, GoingOn DEF Place
  <2> HIDE DEF l
  <2>3. Equipped(l)
    BY <1>0, <1>4, <2>2 DEF Equipped
  <2>4. Covered(l, config, runtime)
    BY <1>0, <2>2 DEF Covered, Permits
  <2> QED BY <1>0, <2>1, <2>2, <2>3, <2>4, QuietStep
<1> QED BY <1>1, <1>2, <1>3, <1>4 DEF AgentCommand

LEMMA GoesToRest ==
    ASSUME Inv, NEW p \in Proc, Become(p, Resting), OnlyLocal
    PROVE  Inv'
BY RestingFits, QuietStep DEF Become

LEMMA GateFailsOnce ==
    ASSUME Inv, NEW p \in Proc, GateFails(p)
    PROVE  Inv'
<1>0. /\ local[p] \in Local /\ Equipped(local[p]) /\ Backed(local[p].read, fails)
      /\ local[p].pc = "gate" /\ fails \in [Step -> 0 .. Threshold]
      /\ local[p].read \in Runtime
  BY DEF Inv, TypeOK, AllEquipped, AllBacked, GateFails, Local
<1>1. local[p].from \in Step /\ ~local[p].read.suspended
  BY <1>0 DEF Equipped, AgentCommand
<1>2. runtime' \in Runtime /\ Backed(runtime', fails')
  BY <1>0, <1>1, FailureBacks DEF GateFails
<1>3. fails' \in [Step -> 0 .. Threshold] /\ \A r \in Runtime : Backed(r, fails) => Backed(r, fails')
  BY <1>0, <1>1, FailuresGrow DEF GateFails
<1>5. local' \in [Proc -> Local] /\ (AllEquipped /\ AllBacked /\ AllCovered)'
  BY <1>2, <1>3, RestingFits, OthersOvertaken DEF GateFails
<1> QED BY <1>2, <1>3, <1>5 DEF Inv, TypeOK, GateFails

LEMMA GatePassesOnce ==
    ASSUME Inv, NEW p \in Proc, GatePasses(p)
    PROVE  Inv'
<1> DEFINE l == [local[p] EXCEPT !.pc = "move"]
<1>0. /\ local[p] \in Local /\ Equipped(local[p]) /\ Backed(local[p].read, fails)
      /\ Covered(local[p], config, runtime) /\ local[p].pc = "gate"
      /\ local' = [local EXCEPT ![p] = l]
  BY DEF Inv, TypeOK, AllEquipped, AllBacked, AllCovered, GatePasses, Become
<1>1. /\ l \in Local /\ l.pc = "move" /\ l.cmd = local[p].cmd /\ l.from = local[p].from
      /\ l.to = local[p].to /\ l.read = local[p].read /\ l.overtaken = local[p].overtaken
  BY <1>0, GoingOn DEF Place
<1> HIDE DEF l
<1>2. Equipped(l)
  BY <1>0, <1>1 DEF Equipped
<1>3. Covered(l, config, runtime)
  BY <1>0, <1>1 DEF Covered, Permits
<1>4. local' \in [Proc -> Local] /\ (AllEquipped /\ AllBacked /\ AllCovered)'
  BY <1>0, <1>1, <1>2, <1>3, OneCommand DEF GatePasses
<1> QED BY <1>4, BreakerAssumption DEF Inv, TypeOK, GatePasses

LEMMA MovesOnce ==
    ASSUME Inv, NEW p \in Proc, Move(p)
    PROVE  Inv'
<1> DEFINE l == IF local[p].cmd = "advance" /\ local[p].read.count # 0
                THEN [local[p] EXCEPT !.pc = "clear"] ELSE Resting
<1>0. /\ local[p] \in Local /\ Equipped(local[p]) /\ Backed(local[p].read, fails)
      /\ Covered(local[p], config, runtime) /\ local[p].pc = "move"
      /\ local' = [local EXCEPT ![p] = l]
  BY DEF Inv, TypeOK, AllEquipped, AllBacked, AllCovered, Move, Become
<1>1. l \in Local /\ Equipped(l) /\ Covered(l, config, runtime) /\ Backed(l.read, fails)
  <2>1. CASE local[p].cmd = "advance" /\ local[p].read.count # 0
    <3> DEFINE n == [local[p] EXCEPT !.pc = "clear"]
    <3>1. /\ n \in Local /\ n.pc = "clear" /\ n.cmd = local[p].cmd /\ n.from = local[p].from
          /\ n.to = local[p].to /\ n.read = local[p].read /\ n.overtaken = local[p].overtaken
      BY <1>0, GoingOn DEF Place
    <3>2. l = n
      BY <2>1
    <3> HIDE DEF l, n
    <3>3. Equipped(n)
      BY <1>0, <2>1, <3>1 DEF Equipped
    <3>4. Covered(n, config, runtime)
      BY <1>0, <3>1 DEF Covered
    <3> QED BY <1>0, <3>1, <3>2, <3>3, <3>4
  <2>2. CASE ~(local[p].cmd = "advance" /\ local[p].read.count # 0)
    BY <2>2, RestingFits
  <2> QED BY <2>1, <2>2
<1> HIDE DEF l
<1>2. cursor' \in Step
  BY <1>0, StepAssumption DEF Move, Local
<1>4. local' \in [Proc -> Local] /\ (AllEquipped /\ AllBacked /\ AllCovered)'
  BY <1>0, <1>1, OneCommand DEF Move
<1> QED BY <1>2, <1>4 DEF Inv, TypeOK, Move

LEMMA ClearsOnce ==
    ASSUME Inv, NEW p \in Proc, Clear(p)
    PROVE  Inv'
<1>1. /\ local[p].read \in Runtime /\ ~local[p].read.suspended
  BY DEF Inv, TypeOK, AllEquipped, Equipped, Local
<1>2. runtime' \in Runtime /\ Backed(runtime', fails') /\ ~runtime'.suspended
  BY <1>1, ClearedFits DEF Clear
<1>3. local' \in [Proc -> Local] /\ (AllEquipped /\ AllBacked /\ AllCovered)'
  BY <1>2, RestingFits, OthersOvertaken DEF Clear
<1> QED BY <1>2, <1>3 DEF Inv, TypeOK, Clear
LEMMA SwitchStarts ==
    ASSUME Inv, NEW p \in Proc, SwitchStart(p)
    PROVE  Inv'
<1> USE DEF Become
<1>0. OnlyLocal /\ Granted(config) \subseteq Phase
  BY GrantedTyped DEF SwitchStart, Inv, TypeOK
<1>1. CASE \E action \in {"on", "off"}, arg \in Phase \cup {"all"} :
             Become(p, [Resting EXCEPT !.pc = "writeConfig", !.cmd = "switch",
                          !.granted = ApplySwitch(Granted(config), action, arg)])
  <2>1. PICK action \in {"on", "off"}, arg \in Phase \cup {"all"} :
             Become(p, [Resting EXCEPT !.pc = "writeConfig", !.cmd = "switch",
                          !.granted = ApplySwitch(Granted(config), action, arg)])
    BY <1>1
  <2>2. ApplySwitch(Granted(config), action, arg) \subseteq Phase
    BY <1>0, <2>1 DEF ApplySwitch
  <2> DEFINE l == [Resting EXCEPT !.pc = "writeConfig", !.cmd = "switch",
                          !.granted = ApplySwitch(Granted(config), action, arg)]
  <2>3. l \in Local /\ Equipped(l) /\ Covered(l, config, runtime) /\ l.read = Resting.read
    BY <2>2, RestingFits DEF Resting, Local, Place, Equipped, AgentCommand, Covered
  <2> QED BY <1>0, <2>1, <2>3, RestingFits, QuietStep
<1>2. CASE Become(p, [Resting EXCEPT !.pc = "writeRuntime", !.cmd = "switch",
                                     !.granted = Granted(config)])
  <2> DEFINE l == [Resting EXCEPT !.pc = "writeRuntime", !.cmd = "switch",
                                  !.granted = Granted(config)]
  <2>1. l \in Local /\ Equipped(l) /\ Covered(l, config, runtime) /\ l.read = Resting.read
    BY <1>0, RestingFits DEF Resting, Local, Place, Equipped, AgentCommand, Covered
  <2> QED BY <1>0, <1>2, <2>1, RestingFits, QuietStep
<1> QED BY <1>1, <1>2 DEF SwitchStart

LEMMA SwitchWritesConfig ==
    ASSUME Inv, NEW p \in Proc, SwitchConfig(p)
    PROVE  Inv'
<1> DEFINE o == Overtaken(local)[p]
           l == [o EXCEPT !.pc = "writeRuntime", !.overtaken = FALSE]
<1>1. /\ local[p] \in Local /\ Equipped(local[p]) /\ local[p].pc = "writeConfig"
      /\ local[p].granted \in SUBSET Phase /\ config \in Config
      /\ Backed(local[p].read, fails)
  BY DEF Inv, TypeOK, AllEquipped, AllBacked, SwitchConfig, Local
<1>2. config' \in Config /\ Granted(config') \subseteq local[p].granted
  BY <1>1, WrittenFits DEF SwitchConfig
<1>3. /\ o \in Local /\ Equipped(o) /\ o.read = local[p].read
      /\ o.granted = local[p].granted /\ o.cmd = local[p].cmd
  <2>1. o \in Local /\ Equipped(o) /\ o.read = local[p].read
    BY OvertakenFits
  <2>2. o = [local[p] EXCEPT !.overtaken = @ \/ local[p].pc # "idle"]
    BY DEF Overtaken
  <2> QED BY <1>1, <2>1, <2>2 DEF Local
<1>4. local[p].cmd = "switch"
  BY <1>1 DEF Equipped
<1>5. local' = [Overtaken(local) EXCEPT ![p] = l]
  BY DEF SwitchConfig, Overtaken
<1> HIDE DEF o
<1>6. /\ l \in Local /\ l.pc = "writeRuntime" /\ l.cmd = o.cmd /\ l.from = o.from
      /\ l.to = o.to /\ l.read = o.read /\ l.granted = o.granted
  BY <1>3 DEF Local, Place
<1> HIDE DEF l
<1>7. Equipped(l)
  BY <1>3, <1>4, <1>6 DEF Equipped
<1>8. Covered(l, config', runtime')
  BY <1>2, <1>3, <1>6 DEF Covered
<1>9. fails' = fails /\ runtime' = runtime /\ Backed(runtime, fails)
  BY DEF SwitchConfig, Inv, AllBacked
<1>10. Backed(l.read, fails') /\ Backed(runtime', fails')
  BY <1>1, <1>3, <1>6, <1>9
<1>11. \A r \in Runtime : Backed(r, fails) => Backed(r, fails')
  BY <1>9
<1>12. local' \in [Proc -> Local] /\ (AllEquipped /\ AllBacked /\ AllCovered)'
  BY <1>5, <1>6, <1>7, <1>8, <1>10, <1>11, OthersOvertaken
<1> QED BY <1>2, <1>12 DEF Inv, TypeOK, SwitchConfig

LEMMA SwitchWritesRuntime ==
    ASSUME Inv, NEW p \in Proc, SwitchRuntime(p)
    PROVE  Inv'
<1>1. runtime' \in Runtime /\ Backed(runtime', fails')
  BY RuntimeTyped, DefaultFits DEF SwitchRuntime
<1>2. local' \in [Proc -> Local] /\ (AllEquipped /\ AllBacked /\ AllCovered)'
  BY <1>1, RestingFits, OthersOvertaken DEF SwitchRuntime
<1> QED BY <1>1, <1>2, BreakerAssumption DEF Inv, TypeOK, SwitchRuntime

LEMMA ConfigEdited ==
    ASSUME Inv, EditConfig
    PROVE  Inv'
<1>1. config' \in Config
  BY EditAssumption DEF EditConfig
<1>2. local' \in [Proc -> Local] /\ (AllEquipped /\ AllBacked /\ AllCovered)'
  BY AllOvertaken DEF EditConfig, Inv, AllBacked
<1> QED BY <1>1, <1>2 DEF Inv, TypeOK, EditConfig

LEMMA HumanMoves ==
    ASSUME Inv, HumanMove
    PROVE  Inv'
<1>1. cursor' \in Step
  BY DEF HumanMove
<1> QED BY <1>1 DEF Inv, TypeOK, AllEquipped, AllBacked, AllCovered, HumanMove

LEMMA RoundStarts ==
    ASSUME Inv, CycleNew
    PROVE  Inv'
<1>1. cursor' \in Step
  BY StepAssumption DEF CycleNew, Step
<1>2. runtime' \in Runtime /\ Backed(runtime', fails)
  BY RuntimeTyped, DefaultFits DEF CycleNew
<1>3. local' \in [Proc -> Local] /\ (AllEquipped /\ AllBacked /\ AllCovered)'
  BY <1>2, AllOvertaken DEF CycleNew
<1> QED BY <1>1, <1>2, <1>3 DEF Inv, TypeOK, CycleNew

LEMMA InvStep ==
    ASSUME Inv, [Next]_vars
    PROVE  Inv'
<1>1. CASE UNCHANGED vars
  BY <1>1 DEF vars, Inv, TypeOK, AllEquipped, AllBacked, AllCovered
<1>2. ASSUME NEW p \in Proc,
             \/ AgentStart(p) \/ LoadConfig(p) \/ LoadRuntime(p)
             \/ Verify(p) \/ GateFails(p) \/ GatePasses(p) \/ Move(p) \/ Clear(p)
             \/ SwitchStart(p) \/ SwitchConfig(p) \/ SwitchRuntime(p)
             \/ GiveUp(p)
      PROVE  Inv'
  <2>1. CASE Verify(p) \/ GiveUp(p)
    BY <2>1, GoesToRest DEF Verify, GiveUp
  <2> QED BY <1>2, <2>1, AgentStarts, ConfigLoads, RuntimeLoads, GateFailsOnce,
             GatePassesOnce, MovesOnce, ClearsOnce, SwitchStarts, SwitchWritesConfig,
             SwitchWritesRuntime
<1>3. CASE EditConfig \/ HumanMove \/ CycleNew
  BY <1>3, ConfigEdited, HumanMoves, RoundStarts
<1> QED BY <1>1, <1>2, <1>3 DEF Next

LEMMA InvAlways == Spec => []Inv
<1>1. Init => Inv
  BY InvInit
<1>2. Inv /\ [Next]_vars => Inv'
  BY InvStep
<1> QED BY <1>1, <1>2, PTL DEF Spec

----------------------------------------------------------------------------
(* Theorems *)

\* Auto mode is well typed; in particular no count passes the threshold.
THEOREM TypeCorrect == Spec => []TypeOK
<1>1. Inv => TypeOK
  BY DEF Inv
<1> QED BY <1>1, InvAlways, PTL

\* `ocn auto off` returns with no more granted than it was to leave, whatever
\* form the block in config.yaml has, unless the file was edited meanwhile.
THEOREM OffLeavesNothingMore == Spec => []OffMeansOff
<1>1. Inv => OffMeansOff
  BY DEF Inv, AllCovered, Covered, OffMeansOff
<1> QED BY <1>1, InvAlways, PTL

\* A tripped breaker has had its threshold of failures at the step it names,
\* however many agents fail at once and write over each other's counts.
THEOREM TripsAreEarned == Spec => []TripIsEarned
<1>1. Inv => TripIsEarned
  <2> SUFFICES ASSUME Inv, runtime.suspended PROVE fails[runtime.step] >= Threshold
    BY DEF TripIsEarned
  <2>1. runtime \in Runtime /\ Backed(runtime, fails) /\ fails \in [Step -> 0 .. Threshold]
    BY DEF Inv, TypeOK, AllBacked
  <2>2. runtime.count = Threshold /\ Threshold \in Nat \ {0}
    BY <2>1, BreakerAssumption DEF Backed
  <2>3. runtime.step \in Step /\ Threshold <= fails[runtime.step]
    BY <2>1, <2>2 DEF Backed, Runtime
  <2> QED BY <2>1, <2>2, <2>3
<1> QED BY <1>1, InvAlways, PTL

\* An agent whose command nothing has overtaken acts within the grant, and with
\* the breaker closed.
THEOREM AgentsActAsGranted == Spec => AgentActsGranted
<1>1. ASSUME Inv, NEW p \in Proc, ~local[p].overtaken, Move(p)
      PROVE  MoveIsGranted(local[p]) /\ ~runtime.suspended
  <2> DEFINE l == local[p]
  <2>1. /\ Equipped(l) /\ Covered(l, config, runtime) /\ l.pc = "move"
        /\ cursor = l.from /\ l.to # NoStep /\ cursor \in Step
    BY <1>1 DEF Inv, TypeOK, AllEquipped, AllCovered, Move
  <2>2. Permits(config, l) /\ ~runtime.suspended /\ l.cmd \in {"advance", "rewind"}
    BY <1>1, <2>1 DEF Covered, Equipped
  <2>3. CASE l.cmd = "advance"
    <3>1. l.to = cursor + 1
      BY <2>1, <2>3 DEF Equipped, NextStep
    <3>2. l.to > cursor /\ PhaseOf[l.to] \in Granted(config)
      BY <2>1, <2>2, <2>3, <3>1 DEF Permits, AdvanceGranted, Step
    <3> QED BY <2>2, <3>2 DEF MoveIsGranted
  <2>4. CASE l.cmd = "rewind"
    <3>1. l.to = BuildPlan /\ "phase2" \in Granted(config)
      BY <2>2, <2>4 DEF Permits, RewindGranted
    <3>2. ~(l.to > cursor)
      BY <2>1, <2>4 DEF Equipped, Step
    <3> QED BY <2>2, <3>1, <3>2 DEF MoveIsGranted
  <2> QED BY <2>2, <2>3, <2>4
<1>2. ASSUME Inv, NEW p \in Proc, ~local[p].overtaken, Verify(p)
      PROVE  "phase2" \in Granted(config) /\ ~runtime.suspended
  BY <1>2 DEF Inv, AllEquipped, AllCovered, Equipped, Covered, Permits, CheckGranted, Verify
<1>3. Inv /\ [Next]_vars =>
        [\A p \in Proc : ~local[p].overtaken =>
          /\ Move(p) => MoveIsGranted(local[p]) /\ ~runtime.suspended
          /\ Verify(p) => "phase2" \in Granted(config) /\ ~runtime.suspended]_vars
  BY <1>1, <1>2
<1> QED BY <1>3, InvAlways, PTL DEF Spec, AgentActsGranted

\* A suspension is lifted by a switch or a new round, and otherwise only by the
\* write of a command that it has overtaken.
THEOREM SuspensionsLast == Spec => SuspensionLasts
<1>1. ASSUME Inv, [Next]_vars, runtime.suspended, ~runtime'.suspended
      PROVE  \/ \E p \in Proc : SwitchRuntime(p)
             \/ CycleNew
             \/ \E p \in Proc : local[p].overtaken /\ (GateFails(p) \/ Clear(p))
  <2>1. runtime' # runtime
    BY <1>1
  <2>2. \A p \in Proc : GateFails(p) \/ Clear(p) => local[p].overtaken
    BY <1>1 DEF Inv, AllCovered, Covered, GateFails, Clear
  <2>3. ASSUME NEW p \in Proc,
               \/ AgentStart(p) \/ LoadConfig(p) \/ LoadRuntime(p) \/ Verify(p)
               \/ GatePasses(p) \/ Move(p) \/ SwitchStart(p) \/ SwitchConfig(p) \/ GiveUp(p)
        PROVE  FALSE
    BY <2>1, <2>3 DEF AgentStart, LoadConfig, LoadRuntime, Verify, GatePasses, Move,
                      SwitchStart, SwitchConfig, GiveUp, OnlyLocal
  <2>4. ~EditConfig /\ ~HumanMove /\ ~UNCHANGED vars
    BY <2>1 DEF EditConfig, HumanMove, vars
  <2> QED BY <1>1, <2>2, <2>3, <2>4 DEF Next
<1>2. Inv /\ [Next]_vars =>
        [runtime.suspended /\ ~runtime'.suspended =>
          \/ \E p \in Proc : SwitchRuntime(p)
          \/ CycleNew
          \/ \E p \in Proc : local[p].overtaken /\ (GateFails(p) \/ Clear(p))]_vars
  BY <1>1
<1> QED BY <1>2, InvAlways, PTL DEF Spec, SuspensionLasts
=============================================================================
