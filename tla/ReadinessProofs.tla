-------------------------- MODULE ReadinessProofs --------------------------
(***************************************************************************)
(* Proofs about the readiness gate at work, for every set of processes,     *)
(* every rulebook and its deadlines, every profile and every choice of      *)
(* commands.                                                                *)
(***************************************************************************)
EXTENDS Readiness, TLAPS

----------------------------------------------------------------------------
(* The inductive invariant *)

\* A verdict defers only what is due later; a waive is of a waivable rule.
Equipped(l) ==
    /\ l.pc = "verdict" => \A r \in Rule : l.verdicts[r] = "DEFERRED" => l.at < Due[r]
    /\ l.pc \in {"grant", "write"} => l.rule \in Waivable

\* The trail accounts for what a gate of this round is about to judge with, and
\* for what any gate is about to freeze.  As long as there is no snapshot there
\* has been nothing to freeze.
Traced(l, f, k) ==
    /\ l.pc = "commit" => l.commands \in k
    /\ l.pc \in {"waivers", "judge"} /\ ~l.stale =>
          l.commands \in k /\ (f = NoSnapshot => l.commands = Unset)
    /\ l.pc = "baseline" /\ ~l.overtaken => f = NoSnapshot
    /\ l.pc \in {"audit", "commit"} /\ ~l.stale => f # NoSnapshot

\* A waive that nothing has overtaken writes back what is in the file.
Fresh(l, w) == l.pc = "write" /\ ~l.overtaken => l.waivers = w

Fits(l, f, k, w) == Equipped(l) /\ Traced(l, f, k) /\ Fresh(l, w)

AllFit == \A p \in Proc : Fits(local[p], frozen, known, waivers)

Trail ==
    /\ Unset \in known
    /\ frozen # NoSnapshot => frozen \in known
    /\ frozen = NoSnapshot => judged \subseteq {Unset}
    /\ judged \subseteq known

Inv == TypeOK /\ AllFit /\ Trail /\ NothingSlips

----------------------------------------------------------------------------
(* Memories *)

LEMMA RestingFits ==
    ASSUME NEW f, NEW k, NEW w
    PROVE  Resting \in Local /\ Fits(Resting, f, k, w)
BY StepAssumption, CommandsAssumption
   DEF Resting, Local, Place, Step, NoStep, NoLedger, Ledger, Verdict,
       Fits, Equipped, Traced, Fresh

\* Two memories that differ at most in having been overtaken.
Same(l, o) ==
    /\ o.pc = l.pc /\ o.at = l.at /\ o.rule = l.rule /\ o.commands = l.commands
    /\ o.waivers = l.waivers /\ o.verdicts = l.verdicts /\ o.stale = l.stale

LEMMA OvertakenKeeps ==
    ASSUME TypeOK, NEW places, NEW q \in Proc
    PROVE  LET o == Overtaken(places)[q]
           IN  /\ o \in Local
               /\ Same(local[q], o)
               /\ ~o.overtaken => ~local[q].overtaken /\ local[q].pc \notin places
<1> DEFINE l == local[q]
           o == [l EXCEPT !.overtaken = @ \/ l.pc \in places]
<1>1. l \in Local
  BY DEF TypeOK
<1>2. Overtaken(places)[q] = o
  BY DEF Overtaken
<1> HIDE DEF l
<1>3. o \in Local
  BY <1>1 DEF Local
<1>4. Same(l, o)
  BY <1>1 DEF Local, Same
<1>5. ~o.overtaken => ~l.overtaken /\ l.pc \notin places
  BY <1>1 DEF Local
<1> QED BY <1>2, <1>3, <1>4, <1>5 DEF l

LEMMA SameFits ==
    ASSUME NEW l, NEW o, NEW f, NEW k, NEW w, Same(l, o), Fits(l, f, k, w),
           ~o.overtaken => ~l.overtaken
    PROVE  Fits(o, f, k, w)
BY DEF Same, Fits, Equipped, Traced, Fresh

LEMMA Going ==
    ASSUME NEW l \in Local, NEW place \in Place
    PROVE  LET n == [l EXCEPT !.pc = place]
           IN  /\ n \in Local
               /\ n.pc = place /\ n.at = l.at /\ n.rule = l.rule /\ n.commands = l.commands
               /\ n.waivers = l.waivers /\ n.verdicts = l.verdicts
               /\ n.stale = l.stale /\ n.overtaken = l.overtaken
BY DEF Local

\* One process goes on; the others find files they can go on with.
LEMMA OneCommand ==
    ASSUME Inv, NEW p \in Proc, NEW l \in Local, local' = [local EXCEPT ![p] = l],
           Fits(l, frozen', known', waivers'),
           \A q \in Proc : Fits(local[q], frozen, known, waivers) =>
                           Fits(local[q], frozen', known', waivers')
    PROVE  local' \in [Proc -> Local] /\ AllFit'
<1>1. local' \in [Proc -> Local]
  BY DEF Inv, TypeOK
<1>2. \A q \in Proc : local'[q] = IF q = p THEN l ELSE local[q]
  BY DEF Inv, TypeOK
<1>3. AllFit'
  BY <1>2 DEF Inv, AllFit
<1> QED BY <1>1, <1>3

LEMMA OthersOvertaken ==
    ASSUME Inv, NEW p \in Proc, NEW l \in Local, NEW places,
           local' = [Overtaken(places) EXCEPT ![p] = l],
           Fits(l, frozen', known', waivers'),
           \A q \in Proc : q # p => Fits(Overtaken(places)[q], frozen', known', waivers')
    PROVE  local' \in [Proc -> Local] /\ AllFit'
<1>1. \A q \in Proc : local'[q] = IF q = p THEN l ELSE Overtaken(places)[q]
  BY DEF Overtaken
<1>2. \A q \in Proc : local'[q] \in Local
  BY <1>1, OvertakenKeeps DEF Inv
<1>3. local' = [q \in Proc |-> local'[q]]
  BY DEF Overtaken
<1>4. AllFit'
  BY <1>1 DEF AllFit
<1> QED BY <1>2, <1>3, <1>4

\* A step of one command that leaves the files alone.
LEMMA QuietStep ==
    ASSUME Inv, NEW p \in Proc, NEW l \in Local, Fits(l, frozen, known, waivers),
           Become(p, l), OnlyLocal
    PROVE  Inv'
<1>1. local' \in [Proc -> Local] /\ AllFit'
  BY OneCommand DEF OnlyLocal, Become
<1> QED BY <1>1 DEF Inv, TypeOK, Trail, NothingSlips, OnlyLocal

LEMMA Memory ==
    ASSUME Inv, NEW p \in Proc
    PROVE  local[p] \in Local /\ Fits(local[p], frozen, known, waivers)
BY DEF Inv, TypeOK, AllFit

LEMMA InvInit == Init => Inv
<1> SUFFICES ASSUME Init PROVE Inv
  OBVIOUS
<1>1. local \in [Proc -> Local] /\ AllFit
  BY RestingFits DEF Init, AllFit
<1>2. cursor \in Step /\ NothingSlips
  BY StepAssumption, RuleAssumption DEF Init, Step, NothingSlips
<1> QED BY <1>1, <1>2, CommandsAssumption DEF Init, Inv, TypeOK, Trail

----------------------------------------------------------------------------
(* The gate *)

LEMMA GateStarts ==
    ASSUME Inv, NEW p \in Proc, GateStart(p)
    PROVE  Inv'
<1> DEFINE l == [Resting EXCEPT !.pc = "start", !.at = cursor]
<1>1. l \in Local
  BY CommandsAssumption DEF Inv, TypeOK, Resting, Local, Place, NoLedger, Ledger, Verdict
<1>2. Fits(l, frozen, known, waivers)
  BY DEF Resting, Fits, Equipped, Traced, Fresh
<1> QED BY <1>1, <1>2, QuietStep DEF GateStart

LEMMA CommandsRead ==
    ASSUME Inv, NEW p \in Proc, ReadProjectCommands(p)
    PROVE  Inv'
<1> DEFINE l == [local[p] EXCEPT !.pc = "drift", !.commands = commands]
<1>1. l \in Local /\ l.pc = "drift"
  BY Memory DEF Inv, TypeOK, Local, Place
<1>2. Become(p, l) /\ OnlyLocal
  BY DEF ReadProjectCommands
<1> HIDE DEF l
<1>3. Fits(l, frozen, known, waivers)
  BY <1>1 DEF Fits, Equipped, Traced, Fresh
<1> QED BY <1>1, <1>2, <1>3, QuietStep

LEMMA DriftChecked ==
    ASSUME Inv, NEW p \in Proc, CheckConfigDrift(p)
    PROVE  Inv'
<1> DEFINE read == local[p].commands
           place == IF frozen = read \/ (frozen = NoSnapshot /\ read = Unset)
                    THEN "waivers"
                    ELSE IF frozen = NoSnapshot THEN "baseline" ELSE "audit"
           l == [local[p] EXCEPT !.pc = place]
<1>1. local[p] \in Local /\ read \in Commands
  BY Memory DEF Local
<1>2. place \in Place
  BY DEF Place
<1>3. Become(p, l) /\ OnlyLocal
  BY DEF CheckConfigDrift
<1>4. l \in Local /\ l.pc = place /\ l.commands = read /\ l.rule = local[p].rule
  BY <1>1, <1>2, Going
<1>5. Traced(l, frozen, known)
  <2>1. CASE place = "waivers"
    BY <1>1, <1>4, <2>1, CommandsAssumption DEF Traced, Inv, Trail
  <2>2. CASE place = "baseline"
    BY <1>4, <2>2 DEF Traced
  <2>3. CASE place = "audit"
    BY <1>4, <2>3 DEF Traced
  <2> QED BY <2>1, <2>2, <2>3
<1>6. Equipped(l) /\ Fresh(l, waivers)
  BY <1>4 DEF Equipped, Fresh
<1> HIDE DEF l, place
<1> QED BY <1>3, <1>4, <1>5, <1>6, QuietStep DEF Fits

LEMMA BaselineWritten ==
    ASSUME Inv, NEW p \in Proc, WriteBaseline(p)
    PROVE  Inv'
<1> DEFINE l == [local[p] EXCEPT !.pc = "waivers"]
<1>1. /\ local[p] \in Local /\ Fits(local[p], frozen, known, waivers)
      /\ local[p].commands \in Commands /\ local[p].pc = "baseline"
  BY Memory DEF Local, WriteBaseline
<1>2. l \in Local /\ l.pc = "waivers" /\ l.commands = local[p].commands
  BY <1>1, Going DEF Place
<1>3. frozen' = local[p].commands /\ frozen' # NoSnapshot
  BY <1>1, CommandsAssumption DEF WriteBaseline
<1>4. judged \subseteq {Unset} \/ local[p].overtaken
  BY <1>1 DEF Fits, Traced, Inv, Trail
<1>5. known' = known \cup {local[p].commands}
  BY <1>4 DEF WriteBaseline
<1>6. local' = [Overtaken({"baseline"}) EXCEPT ![p] = l]
  BY DEF WriteBaseline
<1> HIDE DEF l
<1>7. Fits(l, frozen', known', waivers')
  BY <1>2, <1>3, <1>5 DEF Fits, Equipped, Traced, Fresh
<1>8. ASSUME NEW q \in Proc, q # p
      PROVE  Fits(Overtaken({"baseline"})[q], frozen', known', waivers')
  <2> DEFINE o == Overtaken({"baseline"})[q]
  <2>1. /\ Same(local[q], o)
        /\ ~o.overtaken => ~local[q].overtaken /\ local[q].pc # "baseline"
    BY OvertakenKeeps DEF Inv
  <2>2. Fits(o, frozen, known, waivers)
    BY <2>1, Memory, SameFits
  <2>3. ~(o.pc = "baseline" /\ ~o.overtaken)
    BY <2>1 DEF Same
  <2> HIDE DEF o
  <2>4. Fits(o, frozen', known', waivers')
    BY <1>3, <1>5, <2>2, <2>3 DEF Fits, Equipped, Traced, Fresh, WriteBaseline
  <2> QED BY <2>4 DEF o
<1>9. local' \in [Proc -> Local] /\ AllFit'
  BY <1>2, <1>6, <1>7, <1>8, OthersOvertaken
<1>10. Trail'
  BY <1>3, <1>5 DEF Inv, Trail, WriteBaseline
<1> QED BY <1>1, <1>3, <1>5, <1>9, <1>10 DEF Inv, TypeOK, NothingSlips, WriteBaseline
LEMMA DriftAudited ==
    ASSUME Inv, NEW p \in Proc, AuditDrift(p)
    PROVE  Inv'
<1> DEFINE l == [local[p] EXCEPT !.pc = "commit"]
<1>1. /\ local[p] \in Local /\ Fits(local[p], frozen, known, waivers)
      /\ local[p].commands \in Commands /\ local[p].pc = "audit"
  BY Memory DEF Local, AuditDrift
<1>2. l \in Local /\ l.pc = "commit" /\ l.commands = local[p].commands /\ l.stale = local[p].stale
  BY <1>1, Going DEF Place
<1>3. local' = [local EXCEPT ![p] = l]
  BY DEF AuditDrift, Become
<1> HIDE DEF l
<1>4. Fits(l, frozen', known', waivers')
  BY <1>1, <1>2 DEF Fits, Equipped, Traced, Fresh, AuditDrift
<1>5. \A q \in Proc : Fits(local[q], frozen, known, waivers) =>
                      Fits(local[q], frozen', known', waivers')
  BY DEF Fits, Traced, AuditDrift
<1>6. local' \in [Proc -> Local] /\ AllFit'
  BY <1>2, <1>3, <1>4, <1>5, OneCommand
<1> QED BY <1>1, <1>6 DEF Inv, TypeOK, Trail, NothingSlips, AuditDrift

LEMMA SnapshotCommitted ==
    ASSUME Inv, NEW p \in Proc, CommitSnapshot(p)
    PROVE  Inv'
<1> DEFINE l == [local[p] EXCEPT !.pc = "waivers"]
<1>1. /\ local[p] \in Local /\ Fits(local[p], frozen, known, waivers)
      /\ local[p].commands \in Commands /\ local[p].pc = "commit"
  BY Memory DEF Local, CommitSnapshot
<1>2. /\ l \in Local /\ l.pc = "waivers" /\ l.commands = local[p].commands
      /\ l.stale = local[p].stale
  BY <1>1, Going DEF Place
<1>3. /\ frozen' \in {frozen, local[p].commands} /\ local[p].commands # NoSnapshot
      /\ local[p].commands \in known
  BY <1>1, CommandsAssumption DEF CommitSnapshot, Fits, Traced
<1>4. local' = [Overtaken({"baseline"}) EXCEPT ![p] = l]
  BY DEF CommitSnapshot
<1> HIDE DEF l
<1>5. known' = known /\ waivers' = waivers /\ judged' = judged
  BY DEF CommitSnapshot
<1>6. Fits(l, frozen', known', waivers')
  BY <1>1, <1>2, <1>3, <1>5 DEF Fits, Equipped, Traced, Fresh
<1>7. ASSUME NEW q \in Proc, q # p
      PROVE  Fits(Overtaken({"baseline"})[q], frozen', known', waivers')
  <2> DEFINE o == Overtaken({"baseline"})[q]
  <2>1. /\ Same(local[q], o)
        /\ ~o.overtaken => ~local[q].overtaken /\ local[q].pc # "baseline"
    BY OvertakenKeeps DEF Inv
  <2>2. Fits(o, frozen, known, waivers)
    BY <2>1, Memory, SameFits
  <2>3. ~(o.pc = "baseline" /\ ~o.overtaken)
    BY <2>1 DEF Same
  <2> HIDE DEF o
  <2>4. Fits(o, frozen', known', waivers')
    BY <1>3, <1>5, <2>2, <2>3 DEF Fits, Equipped, Traced, Fresh
  <2> QED BY <2>4 DEF o
<1>8. local' \in [Proc -> Local] /\ AllFit'
  BY <1>2, <1>4, <1>6, <1>7, OthersOvertaken
<1>9. Trail'
  BY <1>3, <1>5 DEF Inv, Trail
<1> QED BY <1>1, <1>3, <1>8, <1>9 DEF Inv, TypeOK, NothingSlips, CommitSnapshot

LEMMA WaiversRead ==
    ASSUME Inv, NEW p \in Proc, ReadWaivers(p)
    PROVE  Inv'
<1>1. PICK read \in {waivers, {}} :
          Become(p, [local[p] EXCEPT !.pc = "judge", !.waivers = read])
  BY DEF ReadWaivers
<1> DEFINE l == [local[p] EXCEPT !.pc = "judge", !.waivers = read]
<1>2. /\ local[p] \in Local /\ Fits(local[p], frozen, known, waivers)
      /\ local[p].pc = "waivers" /\ OnlyLocal
  BY Memory DEF ReadWaivers
<1>3. read \in SUBSET Waiver
  BY <1>1 DEF Inv, TypeOK
<1>4. /\ l \in Local /\ l.pc = "judge" /\ l.commands = local[p].commands
      /\ l.stale = local[p].stale
  BY <1>2, <1>3 DEF Local, Place
<1>5. Become(p, l)
  BY <1>1
<1> HIDE DEF l
<1>6. Fits(l, frozen, known, waivers)
  BY <1>2, <1>4 DEF Fits, Equipped, Traced, Fresh
<1> QED BY <1>2, <1>4, <1>5, <1>6, QuietStep

LEMMA RulesJudged ==
    ASSUME Inv, NEW p \in Proc, Evaluate(p)
    PROVE  Inv'
<1> DEFINE m == local[p]
<1>1. /\ m \in Local /\ Fits(m, frozen, known, waivers) /\ m.pc = "judge"
      /\ m.commands \in Commands
  BY Memory DEF Evaluate, Local
<1>2. PICK verdicts \in Ledger :
         /\ \A r \in Rule :
               verdicts[r] \in IF Deferred(r, m.at) THEN {"DEFERRED"}
                               ELSE {"PASS"} \cup ApplyWaiver(r, m.at, m.waivers)
         /\ Become(p, [m EXCEPT !.pc = "verdict", !.waivers = {},
                                !.commands = Unset, !.verdicts = verdicts])
  BY DEF Evaluate
<1> DEFINE l == [m EXCEPT !.pc = "verdict", !.waivers = {},
                          !.commands = Unset, !.verdicts = verdicts]
<1>3. l \in Local /\ l.pc = "verdict" /\ l.at = m.at /\ l.verdicts = verdicts
  BY <1>1, <1>2, CommandsAssumption DEF Local, Place
<1>4. local' = [local EXCEPT ![p] = l]
  BY <1>2 DEF Become
<1> HIDE DEF l, m
<1>5. \A r \in Rule : l.verdicts[r] = "DEFERRED" => l.at < Due[r]
  BY <1>2, <1>3 DEF Deferred, ApplyWaiver
<1>6. Fits(l, frozen, known, waivers)
  BY <1>3, <1>5 DEF Fits, Equipped, Traced, Fresh
<1>7. /\ UNCHANGED <<cursor, commands, frozen, waivers, known, met>>
      /\ judged' = IF m.stale THEN judged ELSE judged \cup {m.commands}
  BY DEF Evaluate, m
<1>8. local' \in [Proc -> Local] /\ AllFit'
  BY <1>3, <1>4, <1>6, <1>7, OneCommand
<1>9. Trail'
  BY <1>1, <1>7 DEF Inv, Trail, Fits, Traced
<1>10. judged' \subseteq Commands
  BY <1>1, <1>7 DEF Inv, TypeOK
<1> QED BY <1>7, <1>8, <1>9, <1>10 DEF Inv, TypeOK, NothingSlips

LEMMA RestsAfter ==
    ASSUME Inv, NEW p \in Proc, Become(p, Resting),
           UNCHANGED <<commands, frozen, waivers, known, judged>>,
           cursor' \in Step, met' \subseteq Rule, NothingSlips'
    PROVE  Inv'
<1>1. local' \in [Proc -> Local] /\ AllFit'
  BY RestingFits, OneCommand DEF Become
<1> QED BY <1>1 DEF Inv, TypeOK, Trail

LEMMA GateReturns ==
    ASSUME Inv, NEW p \in Proc, GateEnds(p)
    PROVE  Inv'
<1>0. /\ UNCHANGED <<commands, frozen, waivers, known, judged>> /\ Become(p, Resting)
      /\ cursor \in Step /\ met \subseteq Rule /\ NothingSlips
  BY DEF GateEnds, Inv, TypeOK
<1>1. CASE UNCHANGED <<cursor, met>>
  BY <1>0, <1>1, RestsAfter DEF NothingSlips
<1>2. CASE /\ cursor = local[p].at /\ cursor < LastStep
           /\ cursor' = cursor + 1
           /\ met' = met \cup {r \in Rule : local[p].verdicts[r] # "DEFERRED"}
  <2>1. cursor' \in Step /\ met' \subseteq Rule
    BY <1>0, <1>2, StepAssumption DEF Step
  <2>2. \A r \in Rule : local[p].verdicts[r] = "DEFERRED" => cursor < Due[r]
    BY <1>2, Memory DEF GateEnds, Fits, Equipped
  <2>3. ASSUME NEW r \in Rule, Due[r] < cursor' PROVE r \in met'
    <3>1. Due[r] \in Nat /\ cursor \in Nat /\ Due[r] < cursor + 1
      BY <1>0, <1>2, <2>3, StepAssumption, RuleAssumption DEF Step
    <3>2. ~(cursor < Due[r])
      BY <3>1
    <3> QED BY <1>2, <2>2, <3>2
  <2>4. NothingSlips'
    BY <2>3 DEF NothingSlips
  <2> QED BY <1>0, <2>1, <2>4, RestsAfter
<1> QED BY <1>1, <1>2 DEF GateEnds

----------------------------------------------------------------------------
(* Waives, edits, rewinds and rounds *)

LEMMA WaiveStarts ==
    ASSUME Inv, NEW p \in Proc, WaiveStart(p)
    PROVE  Inv'
<1>1. PICK r \in Waivable :
          Become(p, [Resting EXCEPT !.pc = "grant", !.at = cursor, !.rule = r])
  BY DEF WaiveStart
<1> DEFINE l == [Resting EXCEPT !.pc = "grant", !.at = cursor, !.rule = r]
<1>2. l \in Local
  BY <1>1, CommandsAssumption, RuleAssumption
     DEF Inv, TypeOK, Resting, Local, Place, NoLedger, Ledger, Verdict
<1>3. Fits(l, frozen, known, waivers)
  BY <1>1 DEF Resting, Fits, Equipped, Traced, Fresh
<1> QED BY <1>1, <1>2, <1>3, QuietStep DEF WaiveStart

LEMMA WaiveReads ==
    ASSUME Inv, NEW p \in Proc, WaiveRead(p)
    PROVE  Inv'
<1>1. PICK read \in {waivers, {}} :
          Become(p, [local[p] EXCEPT !.pc = "write", !.waivers = read,
                                     !.overtaken = read # waivers])
  BY DEF WaiveRead
<1> DEFINE l == [local[p] EXCEPT !.pc = "write", !.waivers = read,
                                 !.overtaken = read # waivers]
<1>2. /\ local[p] \in Local /\ Fits(local[p], frozen, known, waivers)
      /\ local[p].pc = "grant" /\ OnlyLocal
  BY Memory DEF WaiveRead
<1>3. read \in SUBSET Waiver
  BY <1>1 DEF Inv, TypeOK
<1>4. /\ l \in Local /\ l.pc = "write" /\ l.rule = local[p].rule /\ l.waivers = read
      /\ l.overtaken <=> read # waivers
  BY <1>2, <1>3 DEF Local, Place
<1>5. Become(p, l)
  BY <1>1
<1> HIDE DEF l
<1>6. Equipped(l) /\ Traced(l, frozen, known)
  BY <1>2, <1>4 DEF Fits, Equipped, Traced
<1>7. Fresh(l, waivers)
  BY <1>4 DEF Fresh
<1> QED BY <1>2, <1>4, <1>5, <1>6, <1>7, QuietStep DEF Fits

\* Whoever overtakes a waive leaves the trail of the gates as it is.
LEMMA WaiversChange ==
    ASSUME Inv, NEW q \in Proc
    PROVE  Fits(Overtaken({"write"})[q], frozen, known, waivers')
<1> DEFINE o == Overtaken({"write"})[q]
<1>1. /\ Same(local[q], o)
      /\ ~o.overtaken => ~local[q].overtaken /\ local[q].pc # "write"
  BY OvertakenKeeps DEF Inv
<1>2. Fits(o, frozen, known, waivers)
  BY <1>1, Memory, SameFits
<1>3. ~(o.pc = "write" /\ ~o.overtaken)
  BY <1>1 DEF Same
<1> HIDE DEF o
<1>4. Fits(o, frozen, known, waivers')
  BY <1>2, <1>3 DEF Fits, Fresh
<1> QED BY <1>4 DEF o

LEMMA WaiveWrites ==
    ASSUME Inv, NEW p \in Proc, WaiveWrite(p)
    PROVE  Inv'
<1>1. /\ local[p] \in Local /\ Fits(local[p], frozen, known, waivers)
      /\ local[p].pc = "write"
  BY Memory DEF WaiveWrite
<1>2. waivers' \subseteq Waiver
  BY <1>1, RuleAssumption DEF WaiveWrite, Fits, Equipped, Local, Waiver, State, Step
<1>3. \A q \in Proc : Fits(Overtaken({"write"})[q], frozen', known', waivers')
  BY WaiversChange DEF WaiveWrite
<1>4. local' \in [Proc -> Local] /\ AllFit'
  BY <1>3, RestingFits, OthersOvertaken DEF WaiveWrite
<1> QED BY <1>2, <1>4 DEF Inv, TypeOK, Trail, NothingSlips, WaiveWrite

LEMMA AllOvertaken ==
    ASSUME Inv, NEW places, local' = Overtaken(places),
           \A q \in Proc : Fits(Overtaken(places)[q], frozen', known', waivers')
    PROVE  local' \in [Proc -> Local] /\ AllFit'
<1>1. \A q \in Proc : local'[q] \in Local
  BY OvertakenKeeps DEF Inv
<1>2. local' = [q \in Proc |-> local'[q]]
  BY DEF Overtaken
<1> QED BY <1>1, <1>2 DEF AllFit

LEMMA WaiversEdited ==
    ASSUME Inv, EditWaivers
    PROVE  Inv'
<1>1. waivers' \subseteq Waiver
  BY DEF EditWaivers, Inv, TypeOK
<1>2. \A q \in Proc : Fits(Overtaken({"write"})[q], frozen', known', waivers')
  BY WaiversChange DEF EditWaivers
<1>3. local' \in [Proc -> Local] /\ AllFit'
  BY <1>2, AllOvertaken DEF EditWaivers
<1> QED BY <1>1, <1>3 DEF Inv, TypeOK, Trail, NothingSlips, EditWaivers

LEMMA Rewinds ==
    ASSUME Inv, Rewind
    PROVE  Inv'
<1>1. PICK to \in 1 .. (cursor - 1) :
          /\ cursor' = to
          /\ met' = {r \in met : Due[r] < to}
  BY DEF Rewind
<1>2. to \in Step /\ to < cursor /\ cursor \in Nat
  BY <1>1, StepAssumption DEF Inv, TypeOK, Step
<1>3. NothingSlips'
  <2>1. ASSUME NEW r \in Rule, Due[r] < to PROVE r \in met'
    <3>1. Due[r] \in Nat /\ to \in Nat
      BY <1>2, RuleAssumption, StepAssumption DEF Step
    <3>2. Due[r] < cursor
      BY <1>2, <2>1, <3>1
    <3> QED BY <1>1, <2>1, <3>2 DEF Inv, NothingSlips
  <2> QED BY <1>1, <2>1 DEF NothingSlips
<1>4. UNCHANGED <<commands, frozen, waivers, known, judged, local>>
  BY DEF Rewind
<1> QED BY <1>1, <1>2, <1>3, <1>4 DEF Inv, TypeOK, AllFit, Trail

LEMMA RoundStarts ==
    ASSUME Inv, CycleNew
    PROVE  Inv'
<1> DEFINE new == [q \in Proc |-> [Overtaken({"baseline", "write"})[q] EXCEPT
                                      !.stale = local[q].pc # "idle"]]
<1>1. ASSUME NEW q \in Proc
      PROVE  new[q] \in Local /\ Fits(new[q], frozen', known', waivers')
  <2> DEFINE o == Overtaken({"baseline", "write"})[q]
             n == [o EXCEPT !.stale = local[q].pc # "idle"]
  <2>1. /\ o \in Local /\ Same(local[q], o)
        /\ ~o.overtaken => local[q].pc \notin {"baseline", "write"}
    BY OvertakenKeeps DEF Inv
  <2>2. Fits(local[q], frozen, known, waivers)
    BY Memory
  <2>3. new[q] = n
    OBVIOUS
  <2>4. local[q].pc = "commit" => local[q].commands \in known'
    BY DEF CycleNew
  <2> HIDE DEF o, new
  <2>5. /\ n \in Local /\ n.pc = o.pc /\ n.at = o.at /\ n.rule = o.rule
        /\ n.commands = o.commands /\ n.verdicts = o.verdicts
        /\ n.overtaken = o.overtaken /\ (n.stale <=> local[q].pc # "idle")
    BY <2>1 DEF Local
  <2> HIDE DEF n
  <2>6. Equipped(n)
    BY <2>1, <2>2, <2>5 DEF Fits, Equipped, Same
  <2>7. Traced(n, frozen', known')
    BY <2>1, <2>4, <2>5 DEF Traced, Same, CycleNew
  <2>8. Fresh(n, waivers')
    BY <2>1, <2>5 DEF Fresh, Same
  <2> QED BY <2>3, <2>5, <2>6, <2>7, <2>8 DEF Fits
<1>2. local' = new
  BY DEF CycleNew
<1> HIDE DEF new
<1>3. local' \in [Proc -> Local]
  <2>1. new = [q \in Proc |-> new[q]]
    BY DEF new
  <2> QED BY <1>1, <1>2, <2>1
<1>4. AllFit'
  BY <1>1, <1>2 DEF AllFit
<1>5. known' \subseteq Commands
  BY CommandsAssumption, Memory DEF CycleNew, Local
<1>6. cursor' \in Step /\ NothingSlips'
  BY StepAssumption, RuleAssumption DEF CycleNew, NothingSlips, Step
<1> QED BY <1>3, <1>4, <1>5, <1>6 DEF Inv, TypeOK, Trail, CycleNew

LEMMA InvStep ==
    ASSUME Inv, [Next]_vars
    PROVE  Inv'
<1>1. CASE UNCHANGED vars
  BY <1>1 DEF vars, Inv, TypeOK, AllFit, Trail, NothingSlips
<1>2. ASSUME NEW p \in Proc,
             \/ GateStart(p) \/ ReadProjectCommands(p) \/ CheckConfigDrift(p)
             \/ WriteBaseline(p) \/ AuditDrift(p) \/ CommitSnapshot(p)
             \/ ReadWaivers(p) \/ Evaluate(p) \/ GateEnds(p)
             \/ WaiveStart(p) \/ WaiveRead(p) \/ WaiveWrite(p)
             \/ GiveUp(p)
      PROVE  Inv'
  <2>1. CASE GiveUp(p)
    BY <2>1, RestingFits, QuietStep DEF GiveUp
  <2> QED BY <1>2, <2>1, GateStarts, CommandsRead, DriftChecked, BaselineWritten,
             DriftAudited, SnapshotCommitted, WaiversRead, RulesJudged, GateReturns,
             WaiveStarts, WaiveReads, WaiveWrites
<1>3. CASE EditConfig
  BY <1>3 DEF EditConfig, Inv, TypeOK, AllFit, Trail, NothingSlips
<1>4. CASE EditWaivers \/ Rewind \/ CycleNew
  BY <1>4, WaiversEdited, Rewinds, RoundStarts
<1> QED BY <1>1, <1>2, <1>3, <1>4 DEF Next

LEMMA InvAlways == Spec => []Inv
<1>1. Init => Inv
  BY InvInit
<1>2. Inv /\ [Next]_vars => Inv'
  BY InvStep
<1> QED BY <1>1, <1>2, PTL DEF Spec

----------------------------------------------------------------------------
(* Theorems *)

\* The gate at work is well typed: the cursor never leaves the profile, and the
\* snapshot is one of the commands that were in config.yaml.
THEOREM TypeCorrect == Spec => []TypeOK
<1>1. Inv => TypeOK
  BY DEF Inv
<1> QED BY <1>1, InvAlways, PTL

\* No gate judges with commands that the round's trail does not account for,
\* wherever gates die and however they interleave with edits and new rounds.
THEOREM RefereeIsAudited == Spec => []RefereeAudited
<1>1. Inv => RefereeAudited
  BY DEF Inv, Trail, RefereeAudited
<1> QED BY <1>1, InvAlways, PTL

\* A rule that is due before the cursor's step has been met.
THEOREM NothingSlipsPast == Spec => []NothingSlips
<1>1. Inv => NothingSlips
  BY DEF Inv
<1> QED BY <1>1, InvAlways, PTL

\* A waiver is lost to its rule's next waive, to an edit, to the end of the
\* round, or to a waive that had not read it.
THEOREM WaiversAreKept == Spec => GrantsKept
<1>1. ASSUME Inv, [Next]_vars, NEW w \in waivers \ waivers'
      PROVE  \/ EditWaivers \/ CycleNew
             \/ \E p \in Proc :
                   WaiveWrite(p) /\ (w.rule = local[p].rule \/ local[p].overtaken)
  <2>1. waivers' # waivers
    BY <1>1
  <2>2. ASSUME NEW p \in Proc, WaiveWrite(p)
        PROVE  w.rule = local[p].rule \/ local[p].overtaken
    <3>1. ~local[p].overtaken => local[p].waivers = waivers
      BY <1>1, <2>2, Memory DEF Fits, Fresh, WaiveWrite
    <3>2. w \notin {v \in local[p].waivers : v.rule # local[p].rule}
      BY <1>1, <2>2 DEF WaiveWrite
    <3> QED BY <1>1, <3>1, <3>2
  <2>3. ASSUME NEW p \in Proc,
               \/ GateStart(p) \/ ReadProjectCommands(p) \/ CheckConfigDrift(p)
               \/ WriteBaseline(p) \/ AuditDrift(p) \/ CommitSnapshot(p)
               \/ ReadWaivers(p) \/ Evaluate(p) \/ GateEnds(p)
               \/ WaiveStart(p) \/ WaiveRead(p) \/ GiveUp(p)
        PROVE  FALSE
    BY <2>1, <2>3 DEF GateStart, ReadProjectCommands, CheckConfigDrift, WriteBaseline,
                      AuditDrift, CommitSnapshot, ReadWaivers, Evaluate, GateEnds,
                      WaiveStart, WaiveRead, GiveUp, OnlyLocal
  <2>4. ~EditConfig /\ ~Rewind /\ ~UNCHANGED vars
    BY <2>1 DEF EditConfig, Rewind, vars
  <2> QED BY <1>1, <2>2, <2>3, <2>4 DEF Next
<1>2. Inv /\ [Next]_vars =>
        [\A w \in waivers \ waivers' :
          \/ EditWaivers \/ CycleNew
          \/ \E p \in Proc :
                WaiveWrite(p) /\ (w.rule = local[p].rule \/ local[p].overtaken)]_vars
  BY <1>1
<1> QED BY <1>2, InvAlways, PTL DEF Spec, GrantsKept
=============================================================================
