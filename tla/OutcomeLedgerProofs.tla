------------------------- MODULE OutcomeLedgerProofs -------------------------
(***************************************************************************)
(* Theorems about OutcomeLedger, for every set of processes, criteria,      *)
(* commands and documents and a log of any length.  The invariant behind    *)
(* them follows a measurement on its way: what its process has read stays   *)
(* true inside the lock, the event it appends continues the chain, and the  *)
(* ledger it renames over differs from the one on disk by that event alone. *)
(***************************************************************************)
EXTENDS OutcomeLedger, FiniteSetTheorems, TLAPS

\* Whoever stands at a place inside the lock holds it.
HolderInside == \A p \in Proc : local[p].pc \in Inside => holder = p

\* A check has a criterion of the document it has read, a SHIP gate a ledger that
\* is ready, and what is reconciled has no contract that has drifted.
Coherent(l) ==
    /\ l.pc \in {"reconcile", "compare", "probe", "audit", "write"} =>
          l.target \in DOMAIN l.specs
    /\ l.pc \in {"shipReconcile", "shipVerdict"} =>
          l.read # NoLedger /\ \A ac \in Frozen(l.read) : ReadyToShip(l.read[ac])
    /\ l.pc \in Reconciling => ~Drifted(l.again, l.specs)

WellFormed == TypeOK /\ HolderInside /\ \A p \in Proc : Coherent(local[p])

\* Inside the lock a check goes by the ledger that is on disk.
ReadIsLedger ==
    \A p \in Proc : local[p].pc \in {"audit", "write"} =>
        /\ ledger # NoLedger
        /\ local[p].read = ledger
        /\ local[p].target \in Frozen(ledger)

\* Before it appends its event it knows the head of the chain.
HeadIsRead ==
    \A p \in Proc : local[p].pc = "audit" =>
        /\ local[p].prev \in Measured \cup {0}
        /\ \A i \in Measured : i <= local[p].prev

\* After it, the last measurement in the log is the one that it will write.
EventIsLast ==
    \A p \in Proc : local[p].pc = "write" =>
        \A id \in Measured : (\A j \in Measured : j <= id) =>
            /\ log[id].ac = local[p].target
            /\ log[id].seq = Len(local[p].read[local[p].target].history)
            /\ log[id].command = local[p].specs[local[p].target]

\* The places at which a gate goes by a ledger that it has read without the lock.
Keeping == {"freeze", "shipReconcile", "shipVerdict"}

\* No copy of the ledger holds a measurement either that the log does not have.
CopiesVouched ==
    \A p \in Proc :
        /\ local[p].pc \in Keeping => CorroboratedLedger(local[p].read)
        /\ local[p].pc \in Reconciling => CorroboratedLedger(local[p].again)

Vouching ==
    /\ ReadIsLedger
    /\ HeadIsRead
    /\ EventIsLast
    /\ ChainUnbroken
    /\ LogNotBehind
    /\ CopiesVouched

----------------------------------------------------------------------------
(* Typing *)

LEMMA SpecsFunctions ==
    ASSUME NEW specs \in Specs
    PROVE  DOMAIN specs \in SUBSET Criterion /\ specs \in [DOMAIN specs -> Command]
  BY DEF Specs

LEMMA NoSpecsType == NoSpecs \in Specs
  <1>1. NoSpecs \in [{} -> Command]
    BY DEF NoSpecs
  <1> QED  BY <1>1 DEF Specs

LEMMA RestingType == Resting \in Local /\ Coherent(Resting)
  BY NoSpecsType DEF Resting, Local, Place, Reading, Coherent, Reconciling

\* What a ledger is made of.
LEMMA LedgerEntries ==
    ASSUME NEW led \in Ledger, NEW ac \in Frozen(led)
    PROVE  /\ led # NoLedger
           /\ ac \in Criterion
           /\ led[ac] \in Entry
           /\ led[ac].contract \in Command
           /\ led[ac].history \in Seq(Measurement)
           /\ led[ac].waived \in BOOLEAN
  BY OutcomeAssumption DEF Ledger, Frozen, Entry

\* What reconcileFrozenContracts returns is a ledger of the given criteria.
LEMMA FrozenLedgerType ==
    ASSUME NEW specs \in Specs, NEW prev \in Ledger \cup {NoLedger}
    PROVE  /\ Freeze(specs, prev) \in Ledger
           /\ Frozen(Freeze(specs, prev)) = DOMAIN specs
  <1>1. DOMAIN specs \in SUBSET Criterion /\ specs \in [DOMAIN specs -> Command]
    BY SpecsFunctions
  <1>2. ASSUME NEW ac \in DOMAIN specs
        PROVE  Freeze(specs, prev)[ac] \in Entry
    <2> DEFINE kept == /\ prev # NoLedger
                       /\ ac \in Frozen(prev)
                       /\ prev[ac].contract = specs[ac]
    <2>1. Freeze(specs, prev)[ac] =
             [contract |-> specs[ac],
              history  |-> IF kept THEN prev[ac].history ELSE << >>,
              waived   |-> kept /\ prev[ac].waived]
      BY <1>1 DEF Freeze
    <2>2. kept => prev[ac].history \in Seq(Measurement) /\ prev[ac].waived \in BOOLEAN
      BY LedgerEntries
    <2>3. (IF kept THEN prev[ac].history ELSE << >>) \in Seq(Measurement)
      BY <2>2
    <2>4. (kept /\ prev[ac].waived) \in BOOLEAN
      OBVIOUS
    <2>5. specs[ac] \in Command
      BY <1>1
    <2> HIDE DEF kept
    <2> QED  BY <2>1, <2>3, <2>4, <2>5 DEF Entry
  <1>3. \A ac \in Criterion \ DOMAIN specs : Freeze(specs, prev)[ac] = NoEntry
    BY DEF Freeze
  <1>4. Freeze(specs, prev) = [ac \in Criterion |-> Freeze(specs, prev)[ac]]
    BY DEF Freeze
  <1> HIDE DEF Freeze
  <1>5. \A ac \in Criterion : Freeze(specs, prev)[ac] \in Entry \cup {NoEntry}
    BY <1>2, <1>3
  <1>6. Freeze(specs, prev) \in Ledger
    BY <1>4, <1>5 DEF Ledger
  <1>7. \A ac \in Criterion : ac \in DOMAIN specs <=> Freeze(specs, prev)[ac] # NoEntry
    BY <1>2, <1>3, OutcomeAssumption
  <1> QED  BY <1>1, <1>6, <1>7 DEF Frozen

LEMMA EmptyLedgerType == EmptyLedger \in Ledger /\ Frozen(EmptyLedger) = {}
  BY DEF EmptyLedger, Ledger, Frozen

\* A waiver changes nothing but the waiver.
LEMMA WaivedLedgerType ==
    ASSUME NEW led \in Ledger, NEW ac \in Frozen(led)
    PROVE  /\ [led EXCEPT ![ac].waived = TRUE] \in Ledger
           /\ Frozen([led EXCEPT ![ac].waived = TRUE]) = Frozen(led)
           /\ \A x \in Frozen(led) :
                /\ [led EXCEPT ![ac].waived = TRUE][x].contract = led[x].contract
                /\ [led EXCEPT ![ac].waived = TRUE][x].history = led[x].history
  <1> DEFINE new == [led EXCEPT ![ac].waived = TRUE]
  <1>1. /\ led \in [Criterion -> Entry \cup {NoEntry}]
        /\ ac \in Criterion
        /\ led[ac] \in Entry
    BY LedgerEntries DEF Ledger
  <1>2. new[ac] = [led[ac] EXCEPT !.waived = TRUE]
    BY <1>1
  <1>3. /\ new[ac] \in Entry
        /\ new[ac].contract = led[ac].contract
        /\ new[ac].history = led[ac].history
    BY <1>1, <1>2 DEF Entry
  <1>4. \A x \in Criterion : x # ac => new[x] = led[x]
    BY <1>1
  <1>5. new \in [Criterion -> Entry \cup {NoEntry}]
    <2>1. new = [x \in Criterion |-> new[x]]
      BY <1>1
    <2> HIDE DEF new
    <2> QED  BY <1>1, <1>3, <1>4, <2>1
  <1> HIDE DEF new
  <1>6. \A x \in Criterion : x \in Frozen(new) <=> x \in Frozen(led)
    BY <1>1, <1>3, <1>4, OutcomeAssumption DEF Frozen
  <1>7. Frozen(new) = Frozen(led)
    BY <1>6 DEF Frozen
  <1>8. \A x \in Frozen(led) : new[x].contract = led[x].contract /\ new[x].history = led[x].history
    BY <1>3, <1>4 DEF Frozen
  <1> QED  BY <1>5, <1>7, <1>8 DEF new, Ledger

\* A measurement is added at the end of one history, and nothing else changes.
LEMMA MeasuredLedgerType ==
    ASSUME NEW led \in Ledger, NEW ac \in Frozen(led), NEW m \in Measurement
    PROVE  LET new == [led EXCEPT ![ac].history = Append(@, m)]
           IN  /\ new \in Ledger
               /\ Frozen(new) = Frozen(led)
               /\ \A x \in Frozen(led) :
                    /\ new[x].contract = led[x].contract
                    /\ x # ac => new[x].history = led[x].history
               /\ new[ac].history = Append(led[ac].history, m)
  <1> DEFINE new == [led EXCEPT ![ac].history = Append(@, m)]
  <1>1. /\ led \in [Criterion -> Entry \cup {NoEntry}]
        /\ ac \in Criterion
        /\ led[ac] \in Entry
        /\ led[ac].history \in Seq(Measurement)
    BY LedgerEntries DEF Ledger
  <1>2. new[ac] = [led[ac] EXCEPT !.history = Append(led[ac].history, m)]
    BY <1>1
  <1>3. Append(led[ac].history, m) \in Seq(Measurement)
    BY <1>1
  <1>4. /\ new[ac] \in Entry
        /\ new[ac].contract = led[ac].contract
        /\ new[ac].history = Append(led[ac].history, m)
    BY <1>1, <1>2, <1>3 DEF Entry
  <1>5. \A x \in Criterion : x # ac => new[x] = led[x]
    BY <1>1
  <1>6. new \in [Criterion -> Entry \cup {NoEntry}]
    <2>1. new = [x \in Criterion |-> new[x]]
      BY <1>1
    <2> HIDE DEF new
    <2> QED  BY <1>1, <1>4, <1>5, <2>1
  <1> HIDE DEF new
  <1>7. \A x \in Criterion : x \in Frozen(new) <=> x \in Frozen(led)
    BY <1>1, <1>4, <1>5, OutcomeAssumption DEF Frozen
  <1>8. Frozen(new) = Frozen(led)
    BY <1>7 DEF Frozen
  <1>9. \A x \in Frozen(led) : /\ new[x].contract = led[x].contract
                               /\ x # ac => new[x].history = led[x].history
    BY <1>4, <1>5 DEF Frozen
  <1> QED  BY <1>4, <1>6, <1>8, <1>9 DEF new, Ledger

----------------------------------------------------------------------------
(* The log grows at its end. *)

LEMMA EventKinds ==
    ASSUME NEW e \in Event
    PROVE  /\ e.type = "cycle_started" \/ e.type = "outcome_measured"
           /\ e.type = "outcome_measured" =>
                /\ e.ac \in Criterion /\ e.seq \in Nat /\ e.verdict \in Verdict
                /\ e.command \in Command /\ e.prev \in Nat
  BY DEF Event

LEMMA MeasuredEvents ==
    ASSUME log \in Seq(Event)
    PROVE  /\ Measured \subseteq 1..Len(log)
           /\ Measured \subseteq Nat \ {0}
           /\ \A i \in Measured : log[i].verdict \in Verdict /\ log[i].command \in Command
           /\ \A i \in Measured : log[i].ac \in Criterion /\ log[i].prev \in Nat
  <1>1. /\ Len(log) \in Nat /\ DOMAIN log = 1..Len(log)
        /\ \A i \in DOMAIN log : log[i] \in Event
    OBVIOUS
  <1>2. Measured \subseteq 1..Len(log) /\ \A i \in Measured : log[i] \in Event
    BY <1>1 DEF Measured
  <1>3. \A i \in Measured : log[i].type = "outcome_measured"
    BY DEF Measured
  <1>4. 1..Len(log) \subseteq Nat \ {0}
    BY <1>1
  <1> QED  BY <1>2, <1>3, <1>4, EventKinds

LEMMA LogGrows ==
    ASSUME log \in Seq(Event), NEW e \in Event, log' = Append(log, e)
    PROVE  /\ log' \in Seq(Event)
           /\ Len(log) \in Nat
           /\ Len(log) + 1 \notin Measured
           /\ \A i \in Measured : i < Len(log) + 1
           /\ Measured \subseteq Nat \ {0}
           /\ \A i \in Measured : log'[i] = log[i]
           /\ log'[Len(log) + 1] = e
           /\ e.type = "outcome_measured" => Measured' = Measured \cup {Len(log) + 1}
           /\ e.type # "outcome_measured" => Measured' = Measured
  <1>1. /\ Len(log) \in Nat /\ DOMAIN log = 1..Len(log)
        /\ log' \in Seq(Event)
        /\ DOMAIN log' = 1..(Len(log) + 1)
        /\ \A i \in DOMAIN log : log'[i] = log[i]
        /\ log'[Len(log) + 1] = e
    OBVIOUS
  <1>2. Measured \subseteq 1..Len(log)
    BY MeasuredEvents
  <1>3. \A i : i \in Measured' <=> i \in 1..(Len(log) + 1) /\ log'[i].type = "outcome_measured"
    BY <1>1 DEF Measured
  <1>4. \A i : i \in Measured <=> i \in 1..Len(log) /\ log[i].type = "outcome_measured"
    BY <1>1 DEF Measured
  <1>5. \A i \in 1..(Len(log) + 1) : i \in 1..Len(log) \/ i = Len(log) + 1
    BY <1>1
  <1>6. /\ Len(log) + 1 \notin 1..Len(log)
        /\ Len(log) + 1 \in 1..(Len(log) + 1)
        /\ 1..Len(log) \subseteq 1..(Len(log) + 1)
        /\ \A i \in 1..Len(log) : i < Len(log) + 1 /\ i \in Nat \ {0}
    BY <1>1
  <1>7. \A i : i \in Measured' <=>
            i \in Measured \/ (i = Len(log) + 1 /\ e.type = "outcome_measured")
    BY <1>1, <1>3, <1>4, <1>5, <1>6
  <1> QED  BY <1>1, <1>2, <1>6, <1>7

\* An event of a check is well formed.
LEMMA EventOfType ==
    ASSUME NEW l \in Local, NEW v \in Verdict,
           l.read \in Ledger, l.target \in Frozen(l.read), l.target \in DOMAIN l.specs
    PROVE  /\ EventOf(l, v) \in Event
           /\ EventOf(l, v).type = "outcome_measured"
  <1>1. l.read[l.target].history \in Seq(Measurement) /\ l.target \in Criterion
    BY LedgerEntries
  <1>2. Len(l.read[l.target].history) \in Nat
    BY <1>1
  <1>3. l.specs[l.target] \in Command
    BY SpecsFunctions DEF Local
  <1>4. l.prev \in Nat
    BY DEF Local
  <1> QED  BY <1>1, <1>2, <1>3, <1>4 DEF EventOf, Event

----------------------------------------------------------------------------
(* Every step keeps the state well formed. *)

LEMMA OneLocal ==
    ASSUME WellFormed, NEW p \in Proc, NEW l \in Local, Coherent(l),
           local' = [local EXCEPT ![p] = l]
    PROVE  /\ local' \in [Proc -> Local]
           /\ \A q \in Proc : Coherent(local[q])'
           /\ local'[p] = l
           /\ \A q \in Proc \ {p} : local'[q] = local[q]
  BY DEF WellFormed, TypeOK, Coherent

LEMMA OnePlace ==
    ASSUME WellFormed, NEW p \in Proc, NEW where \in Place, Goto(p, where),
           where \in {"audit", "write"} => local[p].target \in DOMAIN local[p].specs,
           where \in Inside \cup {"started"}
    PROVE  /\ local' \in [Proc -> Local]
           /\ \A q \in Proc : Coherent(local[q])'
           /\ local'[p] = [local[p] EXCEPT !.pc = where]
           /\ local'[p].pc = where
           /\ \A q \in Proc \ {p} : local'[q] = local[q]
  <1> DEFINE l == [local[p] EXCEPT !.pc = where]
  <1>1. local[p] \in Local /\ local \in [Proc -> Local]
    BY DEF WellFormed, TypeOK
  <1>2. l \in Local /\ Coherent(l) /\ l.pc = where
    BY <1>1 DEF Local, Coherent, Inside, Reconciling
  <1>3. local' = [local EXCEPT ![p] = l]
    BY <1>1 DEF Goto
  <1> QED  BY <1>2, <1>3, OneLocal

\* The lock: only its holder, or a process that takes it while it is free, goes
\* to a place inside; and whoever was inside is the one that held it.
LEMMA LockStep ==
    ASSUME WellFormed, NEW p \in Proc,
           \A q \in Proc \ {p} : local'[q] = local[q],
           \/ holder' = holder /\ (local'[p].pc \in Inside => local[p].pc \in Inside)
           \/ holder = Nobody /\ holder' = p
           \/ holder' = Nobody /\ local'[p].pc \notin Inside /\ local[p].pc \in Inside
           \/ holder' = (IF holder = p THEN Nobody ELSE holder) /\ local'[p].pc \notin Inside
    PROVE  HolderInside'
  BY OutcomeAssumption DEF WellFormed, HolderInside

\* Nobody else is inside with the holder, or when the lock is free.
LEMMA Alone ==
    ASSUME WellFormed, NEW p \in Proc, holder = Nobody \/ local[p].pc \in Inside
    PROVE  \A q \in Proc \ {p} : local[q].pc \notin Inside
  BY OutcomeAssumption DEF WellFormed, HolderInside

LEMMA WellFormedInit == Init => WellFormed
  <1> SUFFICES ASSUME Init PROVE WellFormed
    OBVIOUS
  <1>1. docs \in Specs /\ holder \in Proc \cup {Nobody} /\ log \in Seq(Event)
    BY OutcomeAssumption DEF Init
  <1>2. \A p \in Proc : local[p] = Resting
    BY DEF Init
  <1>3. Resting.pc \notin Inside
    BY DEF Resting, Inside
  <1> QED
    BY <1>1, <1>2, <1>3, RestingType DEF Init, WellFormed, TypeOK, HolderInside

\* The parts of the state that a command takes its memory from.
LEMMA Typed ==
    ASSUME WellFormed, NEW p \in Proc
    PROVE  /\ docs \in Specs
           /\ DOMAIN docs \in SUBSET Criterion
           /\ ResolvedSpecs \in Specs
           /\ ledger \in Ledger \cup {NoLedger}
           /\ local \in [Proc -> Local]
           /\ local[p] \in Local
           /\ local[p].specs \in Specs
           /\ local[p].read \in Ledger \cup {NoLedger}
           /\ local[p].again \in Ledger \cup {NoLedger}
           /\ Coherent(local[p])
           /\ log \in Seq(Event)
  BY NoSpecsType, SpecsFunctions DEF WellFormed, TypeOK, ResolvedSpecs, Local

LEMMA GateKeepsForm ==
    ASSUME WellFormed, NEW p \in Proc, GateProject(p) \/ GateCarry(p) \/ GateFreeze(p)
    PROVE  WellFormed'
  <1> USE Typed
  <1>1. CASE GateProject(p)
    <2>1. PICK l \in {Resting, [Resting EXCEPT !.pc = "carry", !.specs = docs]} : Begin(p, l)
      BY <1>1 DEF GateProject
    <2>2. l \in Local /\ Coherent(l) /\ l.pc \notin Inside
      BY RestingType DEF Resting, Local, Place, Reading, Coherent, Inside, Reconciling
    <2>3. projection' \in Specs \cup {NoProjection}
      BY <1>1 DEF GateProject
    <2>4. /\ local' \in [Proc -> Local] /\ \A q \in Proc : Coherent(local[q])'
          /\ local'[p] = l /\ \A q \in Proc \ {p} : local'[q] = local[q]
      BY <2>1, <2>2, OneLocal DEF Begin
    <2>5. HolderInside'
      BY <1>1, <2>2, <2>4, LockStep DEF GateProject
    <2> QED  BY <1>1, <2>3, <2>4, <2>5 DEF GateProject, WellFormed, TypeOK
  <1>2. CASE GateCarry(p)
    <2> DEFINE l == [local[p] EXCEPT !.pc = "freeze", !.read = ledger]
    <2>1. l \in Local /\ Coherent(l) /\ l.pc \notin Inside
      BY DEF Local, Place, Reading, Coherent, Inside, Reconciling
    <2>2. /\ local' \in [Proc -> Local] /\ \A q \in Proc : Coherent(local[q])'
          /\ local'[p] = l /\ \A q \in Proc \ {p} : local'[q] = local[q]
      BY <1>2, <2>1, OneLocal DEF GateCarry, Begin
    <2>3. HolderInside'
      BY <1>2, <2>1, <2>2, LockStep DEF GateCarry, Files
    <2> QED  BY <1>2, <2>2, <2>3 DEF GateCarry, Files, WellFormed, TypeOK
  <1>3. CASE GateFreeze(p)
    <2>1. ledger' \in Ledger
      BY <1>3, FrozenLedgerType DEF GateFreeze
    <2>2. /\ local' \in [Proc -> Local] /\ \A q \in Proc : Coherent(local[q])'
          /\ local'[p] = Resting /\ \A q \in Proc \ {p} : local'[q] = local[q]
      BY <1>3, RestingType, OneLocal DEF GateFreeze, Return
    <2>3. HolderInside'
      BY <1>3, <2>2, LockStep DEF GateFreeze, Locked, Resting, Inside
    <2>4. stale' \in BOOLEAN
      BY <1>3 DEF GateFreeze, WellFormed, TypeOK
    <2> QED  BY <1>3, <2>1, <2>2, <2>3, <2>4 DEF GateFreeze, Locked, WellFormed, TypeOK
  <1> QED  BY <1>1, <1>2, <1>3

LEMMA CheckKeepsForm ==
    ASSUME WellFormed, ReadIsLedger, NEW p \in Proc,
           CheckStart(p) \/ CheckReread(p) \/ CheckReconcile(p) \/ LockAndRead(p)
             \/ CommitAudit(p) \/ WriteMeasurement(p)
    PROVE  WellFormed'
  <1> USE Typed
  <1>1. CASE CheckStart(p)
    <2>1. PICK ac \in DOMAIN ResolvedSpecs \cap Frozen(ledger) :
             Begin(p, [Resting EXCEPT !.pc = "reconcile", !.specs = ResolvedSpecs,
                                      !.target = ac])
      BY <1>1 DEF CheckStart
    <2> DEFINE l == [Resting EXCEPT !.pc = "reconcile", !.specs = ResolvedSpecs,
                                    !.target = ac]
    <2>2. ac \in Criterion
      BY DEF Frozen
    <2>3. l \in Local /\ Coherent(l) /\ l.pc \notin Inside
      BY <2>2 DEF Resting, Local, Place, Reading, Coherent, Inside, Reconciling
    <2>4. /\ local' \in [Proc -> Local] /\ \A q \in Proc : Coherent(local[q])'
          /\ local'[p] = l /\ \A q \in Proc \ {p} : local'[q] = local[q]
      BY <2>1, <2>3, OneLocal DEF Begin
    <2>5. HolderInside'
      BY <1>1, <2>3, <2>4, LockStep DEF CheckStart, Files
    <2> QED  BY <1>1, <2>4, <2>5 DEF CheckStart, Files, WellFormed, TypeOK
  <1>2. CASE CheckReread(p) \/ CheckReconcile(p)
    <2>1. PICK l : Begin(p, l) /\ l \in Local /\ Coherent(l) /\ l.pc \notin Inside
      <3> DEFINE comparing == [local[p] EXCEPT !.pc = "compare", !.again = ledger]
                 probing   == [local[p] EXCEPT !.pc = "probe", !.again = NoLedger]
      <3>1. CASE CheckReread(p)
        <4>1. comparing \in Local /\ Coherent(comparing) /\ comparing.pc \notin Inside
          BY <3>1 DEF CheckReread, Local, Place, Reading, Coherent, Inside, Reconciling
        <4> QED  BY <3>1, <4>1 DEF CheckReread
      <3>2. CASE CheckReconcile(p)
        <4>1. probing \in Local /\ Coherent(probing) /\ probing.pc \notin Inside
          BY <3>2 DEF CheckReconcile, Local, Place, Reading, Coherent, Inside, Reconciling
        <4> QED  BY <3>2, <4>1 DEF CheckReconcile
      <3> QED  BY <1>2, <3>1, <3>2
    <2>2. /\ local' \in [Proc -> Local] /\ \A q \in Proc : Coherent(local[q])'
          /\ local'[p] = l /\ \A q \in Proc \ {p} : local'[q] = local[q]
      BY <2>1, OneLocal DEF Begin
    <2>3. HolderInside'
      BY <1>2, <2>1, <2>2, LockStep DEF CheckReread, CheckReconcile, Files
    <2> QED  BY <1>2, <2>2, <2>3 DEF CheckReread, CheckReconcile, Files, WellFormed, TypeOK
  <1>3. CASE LockAndRead(p)
    <2>1. PICK head \in 0..Len(log) :
             Begin(p, [local[p] EXCEPT !.pc = "audit", !.read = ledger, !.prev = head])
      BY <1>3 DEF LockAndRead
    <2> DEFINE l == [local[p] EXCEPT !.pc = "audit", !.read = ledger, !.prev = head]
    <2>2. head \in Nat
      BY <2>1
    <2>3. l \in Local /\ Coherent(l)
      BY <1>3, <2>2 DEF LockAndRead, Local, Place, Reading, Inside, Coherent, Reconciling
    <2>4. /\ local' \in [Proc -> Local] /\ \A q \in Proc : Coherent(local[q])'
          /\ local'[p] = l /\ \A q \in Proc \ {p} : local'[q] = local[q]
      BY <2>1, <2>3, OneLocal DEF Begin
    <2>5. HolderInside'
      BY <1>3, <2>4, LockStep DEF LockAndRead, Lock
    <2> QED  BY <1>3, <2>4, <2>5 DEF LockAndRead, Lock, WellFormed, TypeOK
  <1>4. CASE CommitAudit(p)
    <2>1. PICK v \in Result : log' = Append(log, EventOf(local[p], v))
      BY <1>4 DEF CommitAudit
    <2>2. /\ v \in Verdict
          /\ local[p].read \in Ledger
          /\ local[p].target \in Frozen(local[p].read)
          /\ local[p].target \in DOMAIN local[p].specs
      BY <1>4, OutcomeAssumption DEF CommitAudit, ReadIsLedger, Coherent
    <2>3. log' \in Seq(Event)
      BY <2>1, <2>2, EventOfType
    <2>4. /\ local' \in [Proc -> Local] /\ \A q \in Proc : Coherent(local[q])'
          /\ local'[p].pc = "write" /\ \A q \in Proc \ {p} : local'[q] = local[q]
      BY <1>4, <2>2, OnePlace DEF CommitAudit, Place, Inside
    <2>5. HolderInside'
      BY <1>4, <2>4, LockStep DEF CommitAudit, Inside
    <2> QED  BY <1>4, <2>3, <2>4, <2>5 DEF CommitAudit, WellFormed, TypeOK
  <1>5. CASE WriteMeasurement(p)
    <2>1. PICK id \in Measured :
             /\ \A j \in Measured : j <= id
             /\ ledger' = [local[p].read EXCEPT ![local[p].target].history =
                              Append(@, MeasurementOf(local[p], id))]
             /\ stale' = (stale \/ local[p].read[local[p].target].contract
                                      # local[p].specs[local[p].target])
      BY <1>5 DEF WriteMeasurement
    <2>2. /\ local[p].read \in Ledger
          /\ local[p].target \in Frozen(local[p].read)
      BY <1>5 DEF WriteMeasurement, ReadIsLedger
    <2>3. MeasurementOf(local[p], id) \in Measurement
      <3>1. Len(local[p].read[local[p].target].history) \in Nat
        BY <2>2, LedgerEntries
      <3>2. local[p].specs[local[p].target] \in Command
        BY <1>5, SpecsFunctions DEF WriteMeasurement, Coherent
      <3>3. id \in Nat /\ log[id].verdict \in Verdict
        BY MeasuredEvents
      <3> QED  BY <3>1, <3>2, <3>3 DEF MeasurementOf, Measurement
    <2>4. ledger' \in Ledger
      BY <2>1, <2>2, <2>3, MeasuredLedgerType
    <2>5. /\ local' \in [Proc -> Local] /\ \A q \in Proc : Coherent(local[q])'
          /\ local'[p] = Resting /\ \A q \in Proc \ {p} : local'[q] = local[q]
      BY <1>5, RestingType, OneLocal DEF WriteMeasurement, Return
    <2>6. HolderInside'
      <3>1. local[p].pc \in Inside /\ holder' = Nobody
        BY <1>5 DEF WriteMeasurement, Unlock, Inside
      <3>2. Resting.pc \notin Inside
        BY DEF Resting, Inside
      <3> QED  BY <2>5, <3>1, <3>2, LockStep
    <2>7. stale' \in BOOLEAN
      BY <2>1 DEF WellFormed, TypeOK
    <2> QED  BY <1>5, <2>4, <2>5, <2>6, <2>7 DEF WriteMeasurement, Unlock, WellFormed, TypeOK
  <1> QED  BY <1>1, <1>2, <1>3, <1>4, <1>5

LEMMA ShipKeepsForm ==
    ASSUME WellFormed, NEW p \in Proc,
           ShipSpecs(p) \/ ShipLedger(p) \/ ShipReread(p) \/ ShipPass(p)
    PROVE  WellFormed'
  <1> USE Typed
  <1>1. PICK l : Begin(p, l) /\ l \in Local /\ Coherent(l) /\ l.pc \notin Inside
    <2>1. CASE ShipSpecs(p)
      <3> DEFINE l == [Resting EXCEPT !.pc = "shipLedger", !.specs = docs]
      <3>1. l \in Local /\ Coherent(l) /\ l.pc \notin Inside
        BY RestingType DEF Resting, Local, Place, Reading, Coherent, Inside, Reconciling
      <3> QED  BY <2>1, <3>1 DEF ShipSpecs
    <2>2. CASE ShipLedger(p)
      <3> DEFINE l == [local[p] EXCEPT !.pc = "shipReconcile", !.read = ledger]
      <3>1. l \in Local /\ Coherent(l) /\ l.pc \notin Inside
        BY <2>2 DEF ShipLedger, Local, Place, Reading, Coherent, Inside, Reconciling
      <3> QED  BY <2>2, <3>1 DEF ShipLedger
    <2>3. CASE ShipReread(p)
      <3> DEFINE l == [local[p] EXCEPT !.pc = "shipVerdict", !.again = ledger]
      <3>1. l \in Local /\ Coherent(l) /\ l.pc \notin Inside
        BY <2>3 DEF ShipReread, Local, Place, Reading, Coherent, Inside, Reconciling
      <3> QED  BY <2>3, <3>1 DEF ShipReread
    <2>4. CASE ShipPass(p)
      <3>1. Begin(p, Resting)
        BY <2>4 DEF ShipPass, Return, Begin
      <3>2. Resting.pc \notin Inside
        BY DEF Resting, Inside
      <3> QED  BY <3>1, <3>2, RestingType
    <2> QED  BY <2>1, <2>2, <2>3, <2>4
  <1>2. /\ local' \in [Proc -> Local] /\ \A q \in Proc : Coherent(local[q])'
        /\ local'[p] = l /\ \A q \in Proc \ {p} : local'[q] = local[q]
    BY <1>1, OneLocal DEF Begin
  <1>3. UNCHANGED Files
    BY DEF ShipSpecs, ShipLedger, ShipReread, ShipPass
  <1>4. HolderInside'
    BY <1>1, <1>2, <1>3, LockStep DEF Files
  <1> QED  BY <1>2, <1>3, <1>4 DEF Files, WellFormed, TypeOK

LEMMA CycleKeepsForm ==
    ASSUME WellFormed, NEW p \in Proc,
           ArchiveSpecs(p) \/ ArchiveLedger(p) \/ CycleStarted(p) \/ CycleFailed(p)
    PROVE  WellFormed'
  <1> USE Typed
  <1> DEFINE started == [type |-> "cycle_started"]
  <1>1. started \in Event
    BY DEF Event
  <1>2. CASE ArchiveSpecs(p)
    <2>1. /\ local' \in [Proc -> Local] /\ \A q \in Proc : Coherent(local[q])'
          /\ \A q \in Proc \ {p} : local'[q] = local[q]
      BY <1>2, OnePlace DEF ArchiveSpecs, Place, Inside
    <2>2. HolderInside'
      BY <1>2, <2>1, LockStep DEF ArchiveSpecs, Lock
    <2> QED  BY <1>2, <2>1, <2>2 DEF ArchiveSpecs, Lock, WellFormed, TypeOK
  <1>3. CASE ArchiveLedger(p)
    <2>1. /\ local' \in [Proc -> Local] /\ \A q \in Proc : Coherent(local[q])'
          /\ local'[p].pc = "started" /\ \A q \in Proc \ {p} : local'[q] = local[q]
      BY <1>3, OnePlace DEF ArchiveLedger, Place, Inside
    <2>2. HolderInside'
      BY <1>3, <2>1, LockStep DEF ArchiveLedger, Unlock, Inside
    <2> QED  BY <1>3, <2>1, <2>2 DEF ArchiveLedger, Unlock, WellFormed, TypeOK
  <1>4. CASE CycleStarted(p)
    <2>1. log' \in Seq(Event)
      BY <1>1, <1>4 DEF CycleStarted
    <2>2. /\ local' \in [Proc -> Local] /\ \A q \in Proc : Coherent(local[q])'
          /\ local'[p] = Resting /\ \A q \in Proc \ {p} : local'[q] = local[q]
      BY <1>4, RestingType, OneLocal DEF CycleStarted, Return
    <2>3. HolderInside'
      BY <1>4, <2>2, LockStep DEF CycleStarted, Resting, Inside
    <2> QED  BY <1>4, <2>1, <2>2, <2>3 DEF CycleStarted, WellFormed, TypeOK
  <1>5. CASE CycleFailed(p)
    <2>1. log' \in Seq(Event)
      BY <1>1, <1>5 DEF CycleFailed
    <2>2. /\ local' \in [Proc -> Local] /\ \A q \in Proc : Coherent(local[q])'
          /\ local'[p] = Resting /\ \A q \in Proc \ {p} : local'[q] = local[q]
      BY <1>5, RestingType, OneLocal DEF CycleFailed, Return
    <2>3. HolderInside'
      BY <1>5, <2>2, LockStep DEF CycleFailed, Resting, Inside
    <2> QED  BY <1>5, <2>1, <2>2, <2>3 DEF CycleFailed, WellFormed, TypeOK
  <1> QED  BY <1>2, <1>3, <1>4, <1>5

LEMMA RestKeepsForm ==
    ASSUME WellFormed, NEW p \in Proc,
           WaiveCriterion(p) \/ WaiveProject(p) \/ Seed(p) \/ MovePin(p) \/ GiveUp(p)
    PROVE  WellFormed'
  <1> USE Typed
  <1>1. CASE WaiveCriterion(p)
    <2>0. PICK ac \in Frozen(ledger) : ledger' = [ledger EXCEPT ![ac].waived = TRUE]
      BY <1>1 DEF WaiveCriterion
    <2>1. ledger' \in Ledger
      <3>1. ledger \in Ledger
        BY <1>1 DEF WaiveCriterion
      <3> QED  BY <2>0, <3>1, WaivedLedgerType
    <2> QED  BY <1>1, <2>1 DEF WaiveCriterion, Locked, WellFormed, TypeOK, HolderInside, Coherent
  <1>2. CASE WaiveProject(p)
    <2>1. ledger' \in Ledger
      BY <1>2, EmptyLedgerType DEF WaiveProject
    <2> QED  BY <1>2, <2>1 DEF WaiveProject, Locked, WellFormed, TypeOK, HolderInside, Coherent
  <1>3. CASE Seed(p)
    <2>1. ledger' \in Ledger \cup {NoLedger}
      BY <1>3, FrozenLedgerType DEF Seed
    <2>2. /\ local' \in [Proc -> Local] /\ \A q \in Proc : Coherent(local[q])'
          /\ \A q \in Proc \ {p} : local'[q] = local[q]
      BY <1>3, OnePlace DEF Seed, Place, Inside
    <2>3. HolderInside'
      BY <1>3, <2>2, LockStep DEF Seed, Lock
    <2> QED  BY <1>3, <2>1, <2>2, <2>3 DEF Seed, Lock, WellFormed, TypeOK
  <1>4. CASE MovePin(p)
    <2>1. /\ local' \in [Proc -> Local] /\ \A q \in Proc : Coherent(local[q])'
          /\ local'[p] = Resting /\ \A q \in Proc \ {p} : local'[q] = local[q]
      BY <1>4, RestingType, OneLocal DEF MovePin, Return
    <2>2. HolderInside'
      BY <1>4, <2>1, LockStep DEF MovePin, Unlock, Resting, Inside
    <2> QED  BY <1>4, <2>1, <2>2 DEF MovePin, Unlock, WellFormed, TypeOK
  <1>5. CASE GiveUp(p)
    <2>1. /\ local' \in [Proc -> Local] /\ \A q \in Proc : Coherent(local[q])'
          /\ local'[p] = Resting /\ \A q \in Proc \ {p} : local'[q] = local[q]
      BY <1>5, RestingType, OneLocal DEF GiveUp, Return
    <2>2. HolderInside'
      BY <1>5, <2>1, LockStep DEF GiveUp, Resting, Inside
    <2> QED  BY <1>5, <2>1, <2>2 DEF GiveUp, WellFormed, TypeOK
  <1> QED  BY <1>1, <1>2, <1>3, <1>4, <1>5

LEMMA WellFormedStep ==
    ASSUME WellFormed, ReadIsLedger, [Next]_vars
    PROVE  WellFormed'
  <1>1. CASE EditDocs
    <2>1. docs' \in Specs
      BY <1>1, OutcomeAssumption DEF EditDocs
    <2> QED  BY <1>1, <2>1 DEF EditDocs, WellFormed, TypeOK, HolderInside, Coherent
  <1>2. CASE UNCHANGED vars
    BY <1>2 DEF vars, WellFormed, TypeOK, HolderInside, Coherent
  <1>3. CASE Next /\ ~EditDocs
    BY <1>3, GateKeepsForm, CheckKeepsForm, ShipKeepsForm, CycleKeepsForm, RestKeepsForm
       DEF Next
  <1> QED  BY <1>1, <1>2, <1>3

----------------------------------------------------------------------------
(* Steps that leave the log as it is *)

\* A copy stays as true as it was, if nobody reads anew.
LEMMA CopiesStay ==
    ASSUME CopiesVouched, UNCHANGED log,
           \A q \in Proc : local'[q].pc \in Keeping \cup Reconciling => local'[q] = local[q]
    PROVE  CopiesVouched'
  <1>1. Measured' = Measured
    BY DEF Measured
  <1>2. ASSUME NEW led, CorroboratedLedger(led)
        PROVE  CorroboratedLedger(led)'
    BY <1>1, <1>2 DEF CorroboratedLedger, Corroborated, FieldsMatch, Frozen
  <1>3. ASSUME NEW q \in Proc, local'[q].pc \in Keeping
        PROVE  CorroboratedLedger(local[q].read)'
    <2>1. PICK led : led = local[q].read
      OBVIOUS
    <2>2. local'[q] = local[q] /\ CorroboratedLedger(led)
      BY <1>3, <2>1 DEF CopiesVouched
    <2>3. CorroboratedLedger(led)'
      BY <1>2, <2>2
    <2> QED  BY <2>1, <2>2, <2>3
  <1>4. ASSUME NEW q \in Proc, local'[q].pc \in Reconciling
        PROVE  CorroboratedLedger(local[q].again)'
    <2>1. PICK led : led = local[q].again
      OBVIOUS
    <2>2. local'[q] = local[q] /\ CorroboratedLedger(led)
      BY <1>4, <2>1 DEF CopiesVouched
    <2>3. CorroboratedLedger(led)'
      BY <1>2, <2>2
    <2> QED  BY <2>1, <2>2, <2>3
  <1> QED  BY <1>3, <1>4 DEF CopiesVouched

\* A ledger says nothing new if its measurements are those of another one.
LEMMA SameMeasurements ==
    ASSUME ReadIsLedger, HeadIsRead, EventIsLast, ChainUnbroken, CopiesVouched,
           UNCHANGED log,
           NEW p \in Proc,
           \A q \in Proc \ {p} : local'[q] = local[q],
           ledger' # ledger => \A q \in Proc \ {p} : local[q].pc \notin {"audit", "write"},
           local'[p].pc \in {"idle", "carry", "reconcile", "probe", "archiveLedger",
                             "started", "pin", "shipLedger"},
           CorroboratedLedger(ledger')
    PROVE  Vouching'
  <1>1. Measured' = Measured
    BY DEF Measured
  <1>2. Chain' = Chain
    BY <1>1 DEF Chain, Linked
  <1>3. ReadIsLedger'
    BY DEF ReadIsLedger, Frozen
  <1>4. HeadIsRead' /\ EventIsLast'
    BY <1>1 DEF HeadIsRead, EventIsLast
  <1>5. LogNotBehind'
    BY <1>1 DEF LogNotBehind, CorroboratedLedger, Corroborated, FieldsMatch
  <1>6. CopiesVouched'
    <2>1. local'[p].pc \notin Keeping \cup Reconciling
      BY DEF Keeping, Reconciling
    <2> QED  BY <2>1, CopiesStay
  <1> QED  BY <1>1, <1>2, <1>3, <1>4, <1>5, <1>6 DEF Vouching, ChainUnbroken

\* What a gate or a reconciliation copies is the ledger, which is vouched for.
LEMMA CopyVouches ==
    ASSUME Vouching, UNCHANGED <<ledger, log>>,
           NEW p \in Proc,
           \A q \in Proc \ {p} : local'[q] = local[q],
           local'[p].pc \notin {"audit", "write"},
           local'[p].pc \in Keeping =>
              \/ local'[p].read = ledger
              \/ local[p].pc \in Keeping /\ local'[p].read = local[p].read,
           local'[p].pc \in Reconciling => local'[p].again = ledger
    PROVE  Vouching'
  <1> USE DEF Vouching
  <1>1. Measured' = Measured
    BY DEF Measured
  <1>2. Chain' = Chain
    BY <1>1 DEF Chain, Linked
  <1>3. ReadIsLedger'
    BY DEF ReadIsLedger, Frozen
  <1>4. HeadIsRead' /\ EventIsLast'
    BY <1>1 DEF HeadIsRead, EventIsLast
  <1>5. ASSUME NEW led, CorroboratedLedger(led)
        PROVE  CorroboratedLedger(led)'
    BY <1>1, <1>5 DEF CorroboratedLedger, Corroborated, FieldsMatch, Frozen
  <1>6. LogNotBehind'
    BY <1>1 DEF LogNotBehind, CorroboratedLedger, Corroborated, FieldsMatch
  <1>7. CopiesVouched'
    <2>1. ASSUME NEW q \in Proc, local'[q].pc \in Keeping
          PROVE  CorroboratedLedger(local'[q].read)
      BY <2>1 DEF CopiesVouched, LogNotBehind
    <2>2. ASSUME NEW q \in Proc, local'[q].pc \in Reconciling
          PROVE  CorroboratedLedger(local'[q].again)
      BY <2>2 DEF CopiesVouched, LogNotBehind
    <2>3. ASSUME NEW q \in Proc, local'[q].pc \in Keeping
          PROVE  CorroboratedLedger(local[q].read)'
      <3>1. PICK led : led = local'[q].read
        OBVIOUS
      <3>2. CorroboratedLedger(led)'
        BY <1>5, <2>1, <2>3, <3>1
      <3> QED  BY <3>1, <3>2
    <2>4. ASSUME NEW q \in Proc, local'[q].pc \in Reconciling
          PROVE  CorroboratedLedger(local[q].again)'
      <3>1. PICK led : led = local'[q].again
        OBVIOUS
      <3>2. CorroboratedLedger(led)'
        BY <1>5, <2>2, <2>4, <3>1
      <3> QED  BY <3>1, <3>2
    <2> QED  BY <2>3, <2>4 DEF CopiesVouched
  <1> QED  BY <1>1, <1>2, <1>3, <1>4, <1>6, <1>7 DEF ChainUnbroken

\* Freezing invents no measurement.
LEMMA FreezeVouched ==
    ASSUME NEW specs \in Specs, NEW prev \in Ledger \cup {NoLedger}, CorroboratedLedger(prev)
    PROVE  CorroboratedLedger(Freeze(specs, prev))
  <1> DEFINE new == Freeze(specs, prev)
  <1>1. new \in Ledger /\ Frozen(new) = DOMAIN specs /\ DOMAIN specs \subseteq Criterion
    BY FrozenLedgerType, SpecsFunctions
  <1>2. ASSUME NEW ac \in DOMAIN specs, NEW i \in DOMAIN new[ac].history
        PROVE  Corroborated(ac, new[ac].history[i])
    <2>1. CASE prev # NoLedger /\ ac \in Frozen(prev) /\ prev[ac].contract = specs[ac]
      <3>1. new[ac].history = prev[ac].history
        BY <1>1, <2>1 DEF Freeze
      <3> QED  BY <1>2, <2>1, <3>1 DEF CorroboratedLedger
    <2>2. CASE ~(prev # NoLedger /\ ac \in Frozen(prev) /\ prev[ac].contract = specs[ac])
      <3>1. new[ac].history = << >>
        BY <1>1, <2>2 DEF Freeze
      <3> QED  BY <1>2, <3>1
    <2> QED  BY <2>1, <2>2
  <1> HIDE DEF new
  <1>3. CorroboratedLedger(new)
    BY <1>1, <1>2 DEF CorroboratedLedger
  <1> QED  BY <1>3 DEF new

LEMMA GateVouches ==
    ASSUME WellFormed, Vouching, NEW p \in Proc,
           GateProject(p) \/ GateCarry(p) \/ GateFreeze(p)
    PROVE  Vouching'
  <1> USE Typed DEF Vouching
  <1>1. CASE GateProject(p)
    <2> DEFINE carrying == [Resting EXCEPT !.pc = "carry", !.specs = docs]
    <2>1. PICK l : Begin(p, l) /\ (l = Resting \/ l = carrying)
      BY <1>1 DEF GateProject
    <2>2. l.pc \in {"idle", "carry"}
      <3>1. Resting.pc = "idle" /\ carrying.pc = "carry"
        BY DEF Resting
      <3> QED  BY <2>1, <3>1
    <2>3. local'[p] = l /\ \A q \in Proc \ {p} : local'[q] = local[q]
      BY <2>1 DEF Begin
    <2> QED  BY <1>1, <2>2, <2>3, SameMeasurements DEF GateProject, LogNotBehind
  <1>2. CASE GateCarry(p)
    <2>1. /\ local'[p].pc = "freeze" /\ local'[p].read = ledger
          /\ \A q \in Proc \ {p} : local'[q] = local[q]
      BY <1>2 DEF GateCarry, Begin, Local
    <2>2. UNCHANGED <<ledger, log>>
      BY <1>2 DEF GateCarry, Files
    <2> QED  BY <2>1, <2>2, CopyVouches DEF Reconciling
  <1>3. CASE GateFreeze(p)
    <2>1. /\ local'[p].pc = "idle" /\ \A q \in Proc \ {p} : local'[q] = local[q]
      BY <1>3 DEF GateFreeze, Return, Resting
    <2>2. CorroboratedLedger(ledger')
      BY <1>3, FreezeVouched DEF GateFreeze, CopiesVouched, Keeping
    <2>3. \A q \in Proc \ {p} : local[q].pc \notin {"audit", "write"}
      BY <1>3, Alone DEF GateFreeze, Locked, Inside
    <2> QED  BY <1>3, <2>1, <2>2, <2>3, SameMeasurements DEF GateFreeze
  <1> QED  BY <1>1, <1>2, <1>3

LEMMA RestVouches ==
    ASSUME WellFormed, Vouching, NEW p \in Proc,
           WaiveCriterion(p) \/ WaiveProject(p) \/ Seed(p) \/ MovePin(p) \/ GiveUp(p)
             \/ ArchiveSpecs(p) \/ ArchiveLedger(p)
    PROVE  Vouching'
  <1> USE Typed DEF Vouching
  <1>1. CASE WaiveCriterion(p)
    <2>1. PICK ac \in Frozen(ledger) : ledger' = [ledger EXCEPT ![ac].waived = TRUE]
      BY <1>1 DEF WaiveCriterion
    <2>2. ledger \in Ledger
      BY <1>1 DEF WaiveCriterion
    <2> DEFINE new == [ledger EXCEPT ![ac].waived = TRUE]
    <2>3. /\ Frozen(new) = Frozen(ledger)
          /\ \A x \in Frozen(ledger) : new[x].history = ledger[x].history
      BY ONLY <2>2, WaivedLedgerType
    <2>4. ledger' = new
      BY <2>1
    <2> HIDE DEF new
    <2>5. /\ Frozen(ledger') = Frozen(ledger)
          /\ \A x \in Frozen(ledger) : ledger'[x].history = ledger[x].history
      BY <2>3, <2>4
    <2>6. CorroboratedLedger(ledger')
      BY <2>2, <2>5, OutcomeAssumption DEF LogNotBehind, CorroboratedLedger
    <2>7. \A q \in Proc : local[q].pc \notin {"audit", "write"}
      BY <1>1, Alone DEF WaiveCriterion, Locked, Inside
    <2> QED  BY <1>1, <2>6, <2>7, SameMeasurements DEF WaiveCriterion
  <1>2. CASE WaiveProject(p)
    <2>1. CorroboratedLedger(EmptyLedger)
      BY EmptyLedgerType DEF CorroboratedLedger
    <2>2. CorroboratedLedger(ledger')
      BY <1>2, <2>1 DEF WaiveProject, LogNotBehind
    <2>3. \A q \in Proc : local[q].pc \notin {"audit", "write"}
      BY <1>2, Alone DEF WaiveProject, Locked, Inside
    <2> QED  BY <1>2, <2>2, <2>3, SameMeasurements DEF WaiveProject
  <1>3. CASE Seed(p)
    <2>1. local'[p].pc = "pin" /\ \A q \in Proc \ {p} : local'[q] = local[q]
      BY <1>3 DEF Seed, Goto, Local
    <2>2. CorroboratedLedger(NoLedger)
      BY DEF CorroboratedLedger
    <2>3. CorroboratedLedger(ledger')
      BY <1>3, <2>2, FreezeVouched DEF Seed, LogNotBehind
    <2>4. \A q \in Proc \ {p} : local[q].pc \notin {"audit", "write"}
      BY <1>3, Alone DEF Seed, Lock, Inside
    <2> QED  BY <1>3, <2>1, <2>3, <2>4, SameMeasurements DEF Seed
  <1>4. CASE MovePin(p) \/ GiveUp(p)
    <2>1. local'[p].pc = "idle" /\ \A q \in Proc \ {p} : local'[q] = local[q]
      BY <1>4 DEF MovePin, GiveUp, Return, Resting
    <2> QED  BY <1>4, <2>1, SameMeasurements DEF MovePin, GiveUp, LogNotBehind
  <1>5. CASE ArchiveSpecs(p)
    <2>1. local'[p].pc = "archiveLedger" /\ \A q \in Proc \ {p} : local'[q] = local[q]
      BY <1>5 DEF ArchiveSpecs, Goto, Local
    <2> QED  BY <1>5, <2>1, SameMeasurements DEF ArchiveSpecs, LogNotBehind
  <1>6. CASE ArchiveLedger(p)
    <2>1. local'[p].pc = "started" /\ \A q \in Proc \ {p} : local'[q] = local[q]
      BY <1>6 DEF ArchiveLedger, Goto, Local
    <2>2. CorroboratedLedger(ledger')
      BY <1>6 DEF ArchiveLedger, CorroboratedLedger
    <2>3. \A q \in Proc \ {p} : local[q].pc \notin {"audit", "write"}
      BY <1>6, Alone DEF ArchiveLedger, Inside
    <2> QED  BY <1>6, <2>1, <2>2, <2>3, SameMeasurements DEF ArchiveLedger
  <1> QED  BY <1>1, <1>2, <1>3, <1>4, <1>5, <1>6

----------------------------------------------------------------------------
(* Steps that append to the log or to a history *)

\* What the log has of a measurement it keeps.
LEMMA LogKeeps ==
    ASSUME log \in Seq(Event), NEW e \in Event, log' = Append(log, e),
           LogNotBehind, CopiesVouched, UNCHANGED ledger,
           \A q \in Proc : local'[q].pc \in Keeping \cup Reconciling => local[q] = local'[q]
    PROVE  LogNotBehind' /\ CopiesVouched'
  <1>1. \A i \in Measured : i \in Measured' /\ log'[i] = log[i]
    BY LogGrows
  <1>2. ASSUME NEW ac, NEW m, Corroborated(ac, m)
        PROVE  Corroborated(ac, m)'
    BY <1>1, <1>2 DEF Corroborated, FieldsMatch
  <1>3. ASSUME NEW led, CorroboratedLedger(led)
        PROVE  CorroboratedLedger(led)'
    BY <1>2, <1>3 DEF CorroboratedLedger, Frozen
  <1>4. LogNotBehind'
    <2>1. PICK led : led = ledger
      OBVIOUS
    <2>2. CorroboratedLedger(led)'
      BY <1>3, <2>1 DEF LogNotBehind
    <2> QED  BY <2>1, <2>2 DEF LogNotBehind
  <1>5. CopiesVouched'
    <2>1. ASSUME NEW q \in Proc, local'[q].pc \in Keeping
          PROVE  CorroboratedLedger(local[q].read)'
      <3>1. PICK led : led = local[q].read
        OBVIOUS
      <3>2. local'[q] = local[q] /\ CorroboratedLedger(led)
        BY <2>1, <3>1 DEF CopiesVouched
      <3>3. CorroboratedLedger(led)'
        BY <1>3, <3>2
      <3> QED  BY <3>1, <3>2, <3>3
    <2>2. ASSUME NEW q \in Proc, local'[q].pc \in Reconciling
          PROVE  CorroboratedLedger(local[q].again)'
      <3>1. PICK led : led = local[q].again
        OBVIOUS
      <3>2. local'[q] = local[q] /\ CorroboratedLedger(led)
        BY <2>2, <3>1 DEF CopiesVouched
      <3>3. CorroboratedLedger(led)'
        BY <1>3, <3>2
      <3> QED  BY <3>1, <3>2, <3>3
    <2> QED  BY <2>1, <2>2 DEF CopiesVouched
  <1> QED  BY <1>4, <1>5

\* A cycle_started event is no measurement.
LEMMA CycleEventVouches ==
    ASSUME WellFormed, Vouching, NEW p \in Proc, CycleStarted(p) \/ CycleFailed(p)
    PROVE  Vouching'
  <1> USE Typed DEF Vouching
  <1> DEFINE e == [type |-> "cycle_started"]
  <1>1. e \in Event /\ e.type # "outcome_measured"
    BY DEF Event
  <1>2. log' = Append(log, e) /\ UNCHANGED ledger
    BY DEF CycleStarted, CycleFailed
  <1>3. local'[p] = Resting /\ \A q \in Proc \ {p} : local'[q] = local[q]
    BY DEF CycleStarted, CycleFailed, Return
  <1> HIDE DEF e
  <1>4. Measured' = Measured /\ \A i \in Measured : log'[i] = log[i]
    BY <1>1, <1>2, LogGrows
  <1>5. Resting.pc = "idle"
    BY DEF Resting
  <1>6. LogNotBehind' /\ CopiesVouched'
    BY <1>1, <1>2, <1>3, <1>5, LogKeeps DEF Keeping, Reconciling
  <1>7. ReadIsLedger'
    BY <1>2, <1>3, <1>5 DEF ReadIsLedger, Frozen
  <1>8. HeadIsRead' /\ EventIsLast'
    BY <1>3, <1>4, <1>5 DEF HeadIsRead, EventIsLast
  <1>9. ChainUnbroken'
    BY <1>4 DEF ChainUnbroken, Chain, Linked
  <1> QED  BY <1>6, <1>7, <1>8, <1>9

\* Inside the lock the head of the chain is the last measurement in the log.
LEMMA ReadingVouches ==
    ASSUME WellFormed, Vouching, NEW p \in Proc,
           CheckStart(p) \/ CheckReread(p) \/ CheckReconcile(p) \/ LockAndRead(p)
    PROVE  Vouching'
  <1> USE Typed DEF Vouching
  <1>1. CASE CheckStart(p)
    <2>1. PICK ac \in DOMAIN ResolvedSpecs \cap Frozen(ledger) :
             Begin(p, [Resting EXCEPT !.pc = "reconcile", !.specs = ResolvedSpecs,
                                      !.target = ac])
      BY <1>1 DEF CheckStart
    <2>2. local'[p].pc = "reconcile" /\ \A q \in Proc \ {p} : local'[q] = local[q]
      BY <2>1 DEF Begin, Resting
    <2> QED  BY <1>1, <2>2, SameMeasurements DEF CheckStart, Files, LogNotBehind
  <1>2. CASE CheckReconcile(p)
    <2>1. local'[p].pc = "probe" /\ \A q \in Proc \ {p} : local'[q] = local[q]
      BY <1>2 DEF CheckReconcile, Begin, Local
    <2> QED  BY <1>2, <2>1, SameMeasurements DEF CheckReconcile, Files, LogNotBehind
  <1>3. CASE LockAndRead(p)
    <2>1. PICK head \in 0..Len(log) :
             /\ IsHead(head)
             /\ Begin(p, [local[p] EXCEPT !.pc = "audit", !.read = ledger, !.prev = head])
      BY <1>3 DEF LockAndRead
    <2>2. /\ local'[p].pc = "audit" /\ local'[p].read = ledger /\ local'[p].prev = head
          /\ local'[p].target = local[p].target
          /\ \A q \in Proc \ {p} : local'[q] = local[q]
      BY <2>1 DEF Begin, Local
    <2>3. Measured' = Measured /\ UNCHANGED <<ledger, log>>
      BY <1>3 DEF LockAndRead, Measured
    <2>4. ReadIsLedger'
      BY <1>3, <2>2, <2>3 DEF LockAndRead, ReadIsLedger, Frozen
    <2>5. HeadIsRead' /\ EventIsLast'
      <3>1. \A i : i \in Chain <=> i \in Measured
        BY DEF ChainUnbroken, Chain
      <3> QED  BY <2>1, <2>2, <2>3, <3>1 DEF HeadIsRead, EventIsLast, IsHead
    <2>6. ChainUnbroken'
      BY <2>3 DEF ChainUnbroken, Chain, Linked
    <2>7. LogNotBehind'
      BY <2>3 DEF LogNotBehind, CorroboratedLedger, Corroborated, FieldsMatch
    <2>8. CopiesVouched'
      <3>1. local'[p].pc \notin Keeping \cup Reconciling
        BY <2>2 DEF Keeping, Reconciling
      <3> QED  BY <2>2, <2>3, <3>1, CopiesStay
    <2> QED  BY <2>4, <2>5, <2>6, <2>7, <2>8
  <1>4. CASE CheckReread(p)
    <2>1. /\ local'[p].pc = "compare" /\ local'[p].again = ledger
          /\ \A q \in Proc \ {p} : local'[q] = local[q]
      BY <1>4 DEF CheckReread, Begin, Local
    <2>2. UNCHANGED <<ledger, log>>
      BY <1>4 DEF CheckReread, Files
    <2> QED  BY <2>1, <2>2, CopyVouches DEF Keeping
  <1> QED  BY <1>1, <1>2, <1>3, <1>4

LEMMA ShipVouches ==
    ASSUME WellFormed, Vouching, NEW p \in Proc,
           ShipSpecs(p) \/ ShipLedger(p) \/ ShipReread(p) \/ ShipPass(p)
    PROVE  Vouching'
  <1> USE Typed DEF Vouching
  <1>1. UNCHANGED Files
    BY DEF ShipSpecs, ShipLedger, ShipReread, ShipPass
  <1>2. CASE ShipSpecs(p) \/ ShipPass(p)
    <2>1. local'[p].pc \in {"shipLedger", "idle"} /\ \A q \in Proc \ {p} : local'[q] = local[q]
      <3>1. CASE ShipSpecs(p)
        BY <3>1 DEF ShipSpecs, Begin, Resting
      <3>2. CASE ShipPass(p)
        BY <3>2 DEF ShipPass, Return, Resting
      <3> QED  BY <1>2, <3>1, <3>2
    <2> QED  BY <1>1, <2>1, SameMeasurements DEF Files, LogNotBehind
  <1>3. CASE ShipLedger(p)
    <2>1. /\ local'[p].pc = "shipReconcile" /\ local'[p].read = ledger
          /\ \A q \in Proc \ {p} : local'[q] = local[q]
      BY <1>3 DEF ShipLedger, Begin, Local
    <2> QED  BY <1>1, <2>1, CopyVouches DEF Files, Reconciling
  <1>4. CASE ShipReread(p)
    <2>1. /\ local[p].pc = "shipReconcile" /\ local'[p].pc = "shipVerdict"
          /\ local'[p].read = local[p].read /\ local'[p].again = ledger
          /\ \A q \in Proc \ {p} : local'[q] = local[q]
      BY <1>4 DEF ShipReread, Begin, Local
    <2> QED  BY <1>1, <2>1, CopyVouches DEF Files, Keeping
  <1> QED  BY <1>2, <1>3, <1>4

\* The event of a check continues the chain from its head.
LEMMA CommitVouches ==
    ASSUME WellFormed, Vouching, NEW p \in Proc, CommitAudit(p)
    PROVE  Vouching'
  <1>1. PICK v \in Result : log' = Append(log, EventOf(local[p], v))
    BY DEF CommitAudit
  <1> DEFINE e == EventOf(local[p], v)
  <1>0. PICK n : n = Len(log) + 1
    OBVIOUS
  <1>2. /\ v \in Verdict
        /\ local[p].pc = "audit"
        /\ local[p].read \in Ledger
        /\ local[p].target \in Frozen(local[p].read)
        /\ local[p].target \in DOMAIN local[p].specs
    BY <1>1, Typed, OutcomeAssumption DEF CommitAudit, Vouching, ReadIsLedger, Coherent
  <1>3. e \in Event /\ e.type = "outcome_measured"
    BY <1>2, Typed, EventOfType
  <1>4. /\ e.ac = local[p].target
        /\ e.seq = Len(local[p].read[local[p].target].history)
        /\ e.command = local[p].specs[local[p].target]
        /\ e.prev = local[p].prev
    BY DEF EventOf
  <1>5. /\ local'[p].pc = "write" /\ UNCHANGED ledger
        /\ local'[p].read = local[p].read /\ local'[p].target = local[p].target
        /\ local'[p].specs = local[p].specs
        /\ \A q \in Proc \ {p} : local'[q] = local[q]
    BY Typed DEF CommitAudit, Goto, Local
  <1> HIDE DEF e
  <1>6. /\ n \notin Measured /\ \A i \in Measured : i < n
        /\ \A i \in Measured : log'[i] = log[i]
        /\ log'[n] = e
        /\ Measured' = Measured \cup {n}
        /\ n \in Nat /\ 0 < n
        /\ \A i \in Measured : i \in Nat
    BY <1>0, <1>1, <1>3, Typed, LogGrows DEF e
  <1>7. LogNotBehind' /\ CopiesVouched'
    BY <1>1, <1>3, <1>5, Typed, LogKeeps DEF e, Vouching, Keeping, Reconciling
  <1>8. ReadIsLedger'
    BY <1>2, <1>5 DEF Vouching, ReadIsLedger, Frozen
  <1>9. \A q \in Proc \ {p} : local[q].pc \notin {"audit", "write"}
    BY <1>2, Alone DEF Inside
  <1>10. HeadIsRead'
    BY <1>5, <1>9 DEF HeadIsRead
  <1>11. EventIsLast'
    <2>1. ASSUME NEW id \in Measured', \A j \in Measured' : j <= id
          PROVE  id = n
      BY <1>6, <2>1
    <2> QED  BY <1>4, <1>5, <1>6, <1>9, <2>1 DEF EventIsLast
  <1>12. ChainUnbroken'
    <2>1. \A i \in Measured : Linked(i)
      BY <1>6 DEF Vouching, ChainUnbroken, Chain
    <2>2. ASSUME NEW i \in Measured PROVE Linked(i)'
      <3>1. log'[i] = log[i] /\ i \in Nat /\ i < n
        BY <1>6
      <3>2. \A j \in Measured' : j < i => j \in Measured
        BY <1>6, <3>1
      <3> QED  BY <1>6, <2>1, <3>1, <3>2 DEF Linked
    <2>3. Linked(n)'
      <3>1. /\ local[p].prev \in Measured \cup {0}
            /\ \A j \in Measured : j <= local[p].prev
        BY <1>2 DEF Vouching, HeadIsRead
      <3>2. log'[n].prev = local[p].prev
        BY <1>4, <1>6
      <3>3. \A j \in Measured' : j < n => j \in Measured
        BY <1>6
      <3>4. local[p].prev \in Nat /\ local[p].prev < n
        BY <1>6, <3>1
      <3> QED  BY <1>6, <3>1, <3>2, <3>3, <3>4 DEF Linked
    <2> QED  BY <1>6, <2>2, <2>3 DEF ChainUnbroken, Chain
  <1> QED  BY <1>7, <1>8, <1>10, <1>11, <1>12 DEF Vouching

\* What a check renames over is the ledger with its measurement added.
LEMMA WrittenLedger ==
    ASSUME WellFormed, ReadIsLedger, NEW p \in Proc, WriteMeasurement(p)
    PROVE  \E ac \in Frozen(ledger), id \in Measured, m \in Measurement :
             /\ ledger \in Ledger
             /\ ac = local[p].target
             /\ \A j \in Measured : j <= id
             /\ m = MeasurementOf(local[p], id)
             /\ stale' = (stale \/ ledger[ac].contract # m.command)
             /\ ledger' \in Ledger
             /\ Frozen(ledger') = Frozen(ledger)
             /\ \A x \in Frozen(ledger) :
                  /\ ledger'[x].contract = ledger[x].contract
                  /\ x # ac => ledger'[x].history = ledger[x].history
             /\ ledger'[ac].history = Append(ledger[ac].history, m)
  <1> DEFINE ac == local[p].target
  <1>1. /\ ledger \in Ledger /\ local[p].read = ledger /\ ac \in Frozen(ledger)
        /\ ac \in DOMAIN local[p].specs
    BY Typed DEF WriteMeasurement, ReadIsLedger, Coherent
  <1>2. PICK id \in Measured :
           /\ \A j \in Measured : j <= id
           /\ ledger' = [ledger EXCEPT ![ac].history = Append(@, MeasurementOf(local[p], id))]
           /\ stale' = (stale \/ ledger[ac].contract # local[p].specs[ac])
    BY <1>1 DEF WriteMeasurement
  <1> DEFINE m == MeasurementOf(local[p], id)
  <1>3. m \in Measurement /\ m.command = local[p].specs[ac]
    <2>1. Len(ledger[ac].history) \in Nat
      BY <1>1, LedgerEntries
    <2>2. local[p].specs[ac] \in Command
      BY <1>1, Typed, SpecsFunctions
    <2>3. id \in Nat /\ log[id].verdict \in Verdict
      BY Typed, MeasuredEvents
    <2> QED  BY <1>1, <2>1, <2>2, <2>3 DEF MeasurementOf, Measurement
  <1> DEFINE new == [ledger EXCEPT ![ac].history = Append(@, m)]
  <1>4. ledger' = new
    BY <1>2
  <1> HIDE DEF m
  <1>5. /\ new \in Ledger
        /\ Frozen(new) = Frozen(ledger)
        /\ \A x \in Frozen(ledger) :
             /\ new[x].contract = ledger[x].contract
             /\ x # ac => new[x].history = ledger[x].history
        /\ new[ac].history = Append(ledger[ac].history, m)
    BY <1>1, <1>3, MeasuredLedgerType
  <1> HIDE DEF new
  <1>6. stale' = (stale \/ ledger[ac].contract # m.command)
    BY <1>2, <1>3
  <1>7. /\ ledger' \in Ledger
        /\ Frozen(ledger') = Frozen(ledger)
        /\ \A x \in Frozen(ledger) :
             /\ ledger'[x].contract = ledger[x].contract
             /\ x # ac => ledger'[x].history = ledger[x].history
        /\ ledger'[ac].history = Append(ledger[ac].history, m)
    BY <1>4, <1>5
  <1>8. m = MeasurementOf(local[p], id)
    BY DEF m
  <1> HIDE DEF ac
  <1> QED  BY <1>1, <1>2, <1>3, <1>6, <1>7, <1>8 DEF ac

LEMMA LastAppended ==
    ASSUME NEW S, NEW s \in Seq(S), NEW m, NEW i \in DOMAIN Append(s, m), i \notin DOMAIN s
    PROVE  Append(s, m)[i] = m
  <1>1. DOMAIN s = 1..Len(s) /\ DOMAIN Append(s, m) = 1..(Len(s) + 1) /\ Len(s) \in Nat
    OBVIOUS
  <1>2. i = Len(s) + 1
    BY <1>1
  <1> QED  BY <1>1, <1>2

LEMMA WriteVouches ==
    ASSUME WellFormed, Vouching, NEW p \in Proc, WriteMeasurement(p)
    PROVE  Vouching'
  <1>1. PICK ac \in Frozen(ledger), id \in Measured, m \in Measurement :
             /\ ledger \in Ledger
             /\ ac = local[p].target
             /\ \A j \in Measured : j <= id
             /\ m = MeasurementOf(local[p], id)
             /\ ledger' \in Ledger
             /\ Frozen(ledger') = Frozen(ledger)
             /\ \A x \in Frozen(ledger) : x # ac => ledger'[x].history = ledger[x].history
             /\ ledger'[ac].history = Append(ledger[ac].history, m)
    BY WrittenLedger DEF Vouching
  <1>2. /\ local[p].pc = "write"
        /\ local'[p] = Resting /\ \A q \in Proc \ {p} : local'[q] = local[q]
        /\ UNCHANGED log
    BY Typed DEF WriteMeasurement, Return
  <1>3. Resting.pc = "idle"
    BY DEF Resting
  <1>4. \A q \in Proc \ {p} : local[q].pc \notin {"audit", "write"}
    BY <1>2, Alone DEF Inside
  <1>5. /\ local[p].read = ledger
        /\ log[id].ac = ac
        /\ log[id].seq = Len(ledger[ac].history)
        /\ log[id].command = local[p].specs[ac]
    BY <1>1, <1>2 DEF Vouching, ReadIsLedger, EventIsLast
  <1>6. Corroborated(ac, m)
    <2>1. /\ m.id = id
          /\ m.seq = Len(ledger[ac].history)
          /\ m.verdict = log[id].verdict
          /\ m.command = local[p].specs[ac]
      BY <1>1, <1>5 DEF MeasurementOf
    <2> QED  BY <1>1, <1>5, <2>1 DEF Corroborated, FieldsMatch
  <1>7. CorroboratedLedger(ledger')
    <2>1. ASSUME NEW x \in Frozen(ledger), NEW i \in DOMAIN ledger'[x].history
          PROVE  Corroborated(x, ledger'[x].history[i])
      <3>1. CASE x # ac
        <4>1. ledger'[x].history = ledger[x].history
          BY <1>1, <3>1
        <4>2. ledger # NoLedger
          BY <1>1, OutcomeAssumption
        <4> QED  BY <2>1, <4>1, <4>2 DEF Vouching, LogNotBehind, CorroboratedLedger
      <3>2. CASE x = ac
        <4>1. ledger[ac].history \in Seq(Measurement) /\ ledger # NoLedger
          BY <1>1, LedgerEntries
        <4>2. CASE i \in DOMAIN ledger[ac].history
          <5>1. ledger'[ac].history[i] = ledger[ac].history[i]
            BY <1>1, <4>1, <4>2
          <5> QED
            BY <3>2, <4>1, <4>2, <5>1 DEF Vouching, LogNotBehind, CorroboratedLedger
        <4>3. CASE i \notin DOMAIN ledger[ac].history
          <5>1. ledger'[ac].history[i] = m
            BY <1>1, <2>1, <3>2, <4>1, <4>3, LastAppended
          <5> QED  BY <1>6, <3>2, <5>1
        <4> QED  BY <4>2, <4>3
      <3> QED  BY <3>1, <3>2
    <2> QED  BY <1>1, <2>1 DEF CorroboratedLedger
  <1> QED
    BY <1>2, <1>3, <1>4, <1>7, SameMeasurements DEF Vouching

LEMMA VouchingInit == Init => Vouching
  <1> SUFFICES ASSUME Init PROVE Vouching
    OBVIOUS
  <1>1. \A p \in Proc : local[p].pc = "idle"
    BY DEF Init, Resting
  <1>2. Measured = {} /\ ledger = NoLedger
    BY DEF Init, Measured
  <1> QED
    BY <1>1, <1>2 DEF Vouching, ReadIsLedger, HeadIsRead, EventIsLast, ChainUnbroken,
       LogNotBehind, CopiesVouched, CorroboratedLedger, Keeping, Reconciling

LEMMA VouchingStep ==
    ASSUME WellFormed, Vouching, [Next]_vars
    PROVE  Vouching'
  <1>1. CASE EditDocs \/ UNCHANGED vars
    <2>1. UNCHANGED <<ledger, log, local>>
      BY <1>1 DEF EditDocs, vars
    <2>2. Measured' = Measured
      BY <2>1 DEF Measured
    <2>3. ReadIsLedger' /\ HeadIsRead' /\ EventIsLast'
      BY <2>1, <2>2 DEF Vouching, ReadIsLedger, HeadIsRead, EventIsLast, Frozen
    <2>4. ChainUnbroken'
      BY <2>1, <2>2 DEF Vouching, ChainUnbroken, Chain, Linked
    <2>5. LogNotBehind'
      BY <2>1, <2>2 DEF Vouching, LogNotBehind, CorroboratedLedger, Corroborated, FieldsMatch
    <2>6. CopiesVouched'
      BY <2>1, CopiesStay DEF Vouching
    <2> QED  BY <2>3, <2>4, <2>5, <2>6 DEF Vouching
  <1>2. CASE Next /\ ~EditDocs
    BY <1>2, GateVouches, ReadingVouches, CommitVouches, WriteVouches, ShipVouches,
       CycleEventVouches, RestVouches DEF Next
  <1> QED  BY <1>1, <1>2

LEMMA Vouched == Spec => [](WellFormed /\ Vouching)
  <1>1. Init => WellFormed /\ Vouching
    BY WellFormedInit, VouchingInit
  <1>2. WellFormed /\ Vouching /\ [Next]_vars => (WellFormed /\ Vouching)'
    BY WellFormedStep, VouchingStep DEF Vouching
  <1> QED  BY <1>1, <1>2, PTL DEF Spec

\* Every variable keeps to its type, whatever the interleaving of the commands.
THEOREM TypeCorrect == Spec => []TypeOK
  <1>1. WellFormed => TypeOK
    BY DEF WellFormed
  <1> QED  BY <1>1, Vouched, PTL

\* The audit-first write of `ocn outcome check` leaves no measurement in the
\* ledger that the log does not have with the same criterion, number, verdict and
\* command, wherever a process dies and however checks, gates and rounds race.
THEOREM LogIsNeverBehind == Spec => []LogNotBehind
  <1>1. Vouching => LogNotBehind
    BY DEF Vouching
  <1> QED  BY <1>1, Vouched, PTL

\* The head of the chain is read inside the store lock: measurements of any
\* number of processes form one chain, in the order of the log.
THEOREM ChainNeverForks == Spec => []ChainUnbroken
  <1>1. Vouching => ChainUnbroken
    BY DEF Vouching
  <1> QED  BY <1>1, Vouched, PTL

----------------------------------------------------------------------------
(* The referee, and what a step may do to a history *)

\* While nothing stale has been written, what gates hold is refereed too.
Refereeing ==
    ~stale =>
        /\ Refereed(ledger)
        /\ \A p \in Proc : local[p].pc \in Keeping => Refereed(local[p].read)

LEMMA FreezeReferees ==
    ASSUME NEW specs \in Specs, NEW prev \in Ledger \cup {NoLedger}, Refereed(prev)
    PROVE  Refereed(Freeze(specs, prev))
  <1> DEFINE new == Freeze(specs, prev)
  <1>1. new \in Ledger /\ Frozen(new) = DOMAIN specs /\ DOMAIN specs \subseteq Criterion
    BY FrozenLedgerType, SpecsFunctions
  <1>2. ASSUME NEW ac \in DOMAIN specs, NEW i \in DOMAIN new[ac].history
        PROVE  new[ac].history[i].command = new[ac].contract
    <2>0. new[ac].contract = specs[ac]
      BY <1>1 DEF Freeze
    <2>1. CASE prev # NoLedger /\ ac \in Frozen(prev) /\ prev[ac].contract = specs[ac]
      <3>1. new[ac].history = prev[ac].history
        BY <1>1, <2>1 DEF Freeze
      <3> QED  BY <1>2, <2>0, <2>1, <3>1 DEF Refereed
    <2>2. CASE ~(prev # NoLedger /\ ac \in Frozen(prev) /\ prev[ac].contract = specs[ac])
      <3>1. new[ac].history = << >>
        BY <1>1, <2>2 DEF Freeze
      <3> QED  BY <1>2, <3>1
    <2> QED  BY <2>1, <2>2
  <1> HIDE DEF new
  <1>3. Refereed(new)
    BY <1>1, <1>2 DEF Refereed
  <1> QED  BY <1>3 DEF new

\* Freezing keeps the history of every command that stays the same.
LEMMA FreezeKeeps ==
    ASSUME NEW specs \in Specs, NEW prev \in Ledger,
           NEW ac \in Frozen(prev) \cap Frozen(Freeze(specs, prev)),
           Freeze(specs, prev)[ac].contract = prev[ac].contract
    PROVE  Freeze(specs, prev)[ac].history = prev[ac].history
  <1>1. ac \in DOMAIN specs /\ DOMAIN specs \subseteq Criterion /\ prev # NoLedger
    BY FrozenLedgerType, SpecsFunctions, OutcomeAssumption
  <1>2. Freeze(specs, prev)[ac].contract = specs[ac]
    BY <1>1 DEF Freeze
  <1> QED  BY <1>1, <1>2 DEF Freeze

\* The steps that write a ledger of measurements, all others keep the histories.
LEMMA OtherSteps ==
    ASSUME WellFormed, Next,
           \A p \in Proc : ~GateFreeze(p) /\ ~WriteMeasurement(p)
    PROVE  /\ stale' = stale
           /\ \/ ledger' = ledger
              \/ ledger' \in {EmptyLedger, NoLedger}
              \/ ledger' = Freeze(docs, NoLedger) /\ ledger = NoLedger
              \/ /\ ledger \in Ledger
                 /\ Frozen(ledger') = Frozen(ledger)
                 /\ \A x \in Frozen(ledger) :
                      /\ ledger'[x].contract = ledger[x].contract
                      /\ ledger'[x].history = ledger[x].history
  <1>1. CASE \E p \in Proc : WaiveCriterion(p)
    <2>1. PICK p \in Proc : WaiveCriterion(p)
      BY <1>1
    <2>2. PICK ac \in Frozen(ledger) : ledger' = [ledger EXCEPT ![ac].waived = TRUE]
      BY <2>1 DEF WaiveCriterion
    <2>3. ledger \in Ledger /\ stale' = stale
      BY <2>1, Typed DEF WaiveCriterion
    <2> DEFINE new == [ledger EXCEPT ![ac].waived = TRUE]
    <2>4. /\ Frozen(new) = Frozen(ledger)
          /\ \A x \in Frozen(ledger) : /\ new[x].contract = ledger[x].contract
                                       /\ new[x].history = ledger[x].history
      BY <2>3, WaivedLedgerType
    <2>5. ledger' = new
      BY <2>2
    <2> HIDE DEF new
    <2> QED  BY <2>3, <2>4, <2>5
  <1>2. CASE EditDocs
    BY <1>2 DEF EditDocs
  <1>3. ASSUME NEW p \in Proc,
               \/ GateProject(p) \/ GateCarry(p)
               \/ CheckStart(p) \/ CheckReread(p) \/ CheckReconcile(p)
               \/ ShipSpecs(p) \/ ShipLedger(p) \/ ShipReread(p) \/ ShipPass(p)
               \/ LockAndRead(p) \/ CommitAudit(p) \/ WaiveProject(p) \/ ArchiveSpecs(p)
               \/ ArchiveLedger(p) \/ CycleStarted(p) \/ CycleFailed(p) \/ Seed(p)
               \/ MovePin(p) \/ GiveUp(p)
        PROVE  /\ stale' = stale
               /\ \/ ledger' = ledger
                  \/ ledger' \in {EmptyLedger, NoLedger}
                  \/ ledger' = Freeze(docs, NoLedger) /\ ledger = NoLedger
    BY <1>3 DEF GateProject, GateCarry, CheckStart, CheckReread, CheckReconcile, ShipSpecs,
       ShipLedger, ShipReread, ShipPass, LockAndRead, CommitAudit,
       WaiveProject, ArchiveSpecs, ArchiveLedger, CycleStarted, CycleFailed, Seed, MovePin,
       GiveUp, Files
  <1> QED  BY <1>1, <1>2, <1>3 DEF Next

\* A gate holds what it held, or the ledger that it has just read.
LEMMA CopiesRead ==
    ASSUME WellFormed, [Next]_vars, NEW q \in Proc, local'[q].pc \in Keeping
    PROVE  \/ local[q].pc \in Keeping /\ local'[q].read = local[q].read
           \/ local'[q].read = ledger /\ UNCHANGED <<ledger, stale>>
  <1>1. CASE UNCHANGED vars \/ EditDocs
    BY <1>1 DEF vars, EditDocs
  <1>2. ASSUME NEW p \in Proc, GateCarry(p) \/ ShipLedger(p)
        PROVE  \/ local'[q] = local[q]
               \/ local'[q].read = ledger /\ UNCHANGED <<ledger, stale>>
    <2>1. CASE p = q
      BY <1>2, <2>1, Typed DEF GateCarry, ShipLedger, Begin, Files, Local
    <2>2. CASE p # q
      BY <1>2, <2>2, Typed DEF GateCarry, ShipLedger, Begin
    <2> QED  BY <2>1, <2>2
  <1>3. CASE \E p \in Proc : WaiveCriterion(p) \/ WaiveProject(p)
    BY <1>3 DEF WaiveCriterion, WaiveProject
  <1>4. ASSUME NEW p \in Proc,
               CommitAudit(p) \/ ArchiveSpecs(p) \/ ArchiveLedger(p) \/ Seed(p)
        PROVE  local'[q] = local[q]
    <2>1. PICK where \in {"write", "archiveLedger", "started", "pin"} : Goto(p, where)
      BY <1>4 DEF CommitAudit, ArchiveSpecs, ArchiveLedger, Seed
    <2>2. local'[p].pc = where
      BY <2>1, Typed DEF Goto, Local
    <2>3. q # p
      BY <2>2 DEF Keeping
    <2> QED  BY <2>1, <2>3, Typed DEF Goto
  <1>5. ASSUME NEW p \in Proc,
               \/ GateFreeze(p) \/ WriteMeasurement(p) \/ CycleStarted(p) \/ CycleFailed(p)
               \/ MovePin(p) \/ ShipPass(p) \/ GiveUp(p)
        PROVE  local'[q] = local[q]
    <2>1. Return(p)
      BY <1>5 DEF GateFreeze, WriteMeasurement, CycleStarted, CycleFailed, MovePin, ShipPass,
         GiveUp
    <2>2. Resting.pc = "idle"
      BY DEF Resting
    <2> QED  BY <2>1, <2>2, Typed DEF Return, Keeping
  <1>6. ASSUME NEW p \in Proc,
               \/ GateProject(p) \/ CheckStart(p) \/ CheckReread(p) \/ CheckReconcile(p)
               \/ LockAndRead(p) \/ ShipSpecs(p)
        PROVE  local'[q] = local[q]
    <2>1. local'[p].pc \notin Keeping
      <3>1. CASE GateProject(p)
        BY <3>1, Typed DEF GateProject, Begin, Resting, Keeping
      <3>2. CASE CheckStart(p)
        BY <3>2, Typed DEF CheckStart, Begin, Resting, Keeping
      <3>3. CASE ShipSpecs(p)
        BY <3>3, Typed DEF ShipSpecs, Begin, Resting, Keeping
      <3>4. CASE CheckReread(p)
        BY <3>4, Typed DEF CheckReread, Begin, Local, Keeping
      <3>5. CASE CheckReconcile(p)
        BY <3>5, Typed DEF CheckReconcile, Begin, Local, Keeping
      <3>6. CASE LockAndRead(p)
        BY <3>6, Typed DEF LockAndRead, Begin, Local, Keeping
      <3> QED  BY <1>6, <3>1, <3>2, <3>3, <3>4, <3>5, <3>6
    <2>2. PICK l : Begin(p, l)
      BY <1>6 DEF GateProject, CheckStart, CheckReread, CheckReconcile, LockAndRead, ShipSpecs
    <2> QED  BY <2>1, <2>2, Typed DEF Begin
  <1>7. ASSUME NEW p \in Proc, ShipReread(p)
        PROVE  \/ local'[q] = local[q]
               \/ local[q].pc \in Keeping /\ local'[q].read = local[q].read
    <2>1. CASE p = q
      BY <1>7, <2>1, Typed DEF ShipReread, Begin, Local, Keeping
    <2>2. CASE p # q
      BY <1>7, <2>2, Typed DEF ShipReread, Begin
    <2> QED  BY <2>1, <2>2
  <1> QED  BY <1>1, <1>2, <1>3, <1>4, <1>5, <1>6, <1>7 DEF Next

LEMMA RefereeingInit == Init => Refereeing
  BY DEF Init, Refereeing, Refereed, Resting, Keeping

LEMMA RefereeingStep ==
    ASSUME WellFormed, Vouching, Refereeing, [Next]_vars
    PROVE  Refereeing'
  <1> SUFFICES ASSUME ~stale'
               PROVE  /\ Refereed(ledger')
                      /\ \A p \in Proc : local'[p].pc \in Keeping => Refereed(local'[p].read)
    BY DEF Refereeing, Refereed, Frozen
  <1>1. CASE UNCHANGED vars
    BY <1>1 DEF vars, Refereeing
  <1>2. CASE \E p \in Proc : GateFreeze(p)
    <2>1. PICK p \in Proc : GateFreeze(p)
      BY <1>2
    <2>2. ~stale /\ local[p].read = ledger /\ local[p].pc = "freeze"
      BY <2>1 DEF GateFreeze
    <2>3. Refereed(ledger')
      BY <2>1, <2>2, Typed, FreezeReferees DEF GateFreeze, Refereeing
    <2> QED  BY <2>2, <2>3, CopiesRead DEF Refereeing
  <1>3. CASE \E p \in Proc : WriteMeasurement(p)
    <2>1. PICK p \in Proc : WriteMeasurement(p)
      BY <1>3
    <2>2. PICK ac \in Frozen(ledger), m \in Measurement :
             /\ ledger \in Ledger
             /\ stale' = (stale \/ ledger[ac].contract # m.command)
             /\ ledger' \in Ledger
             /\ Frozen(ledger') = Frozen(ledger)
             /\ \A x \in Frozen(ledger) :
                  /\ ledger'[x].contract = ledger[x].contract
                  /\ x # ac => ledger'[x].history = ledger[x].history
             /\ ledger'[ac].history = Append(ledger[ac].history, m)
      BY <2>1, WrittenLedger DEF Vouching
    <2>3. ~stale /\ ledger[ac].contract = m.command
      BY <2>2
    <2>4. ASSUME NEW x \in Frozen(ledger), NEW i \in DOMAIN ledger'[x].history
          PROVE  ledger'[x].history[i].command = ledger[x].contract
      <3>1. CASE x = ac /\ i \notin DOMAIN ledger[x].history
        <4>1. ledger[ac].history \in Seq(Measurement)
          BY <2>2, LedgerEntries
        <4>2. ledger'[ac].history[i] = m
          BY <2>2, <2>4, <3>1, <4>1, LastAppended
        <4> QED  BY <2>3, <3>1, <4>2
      <3>2. CASE ~(x = ac /\ i \notin DOMAIN ledger[x].history)
        <4>1. ledger[x].history \in Seq(Measurement) /\ ledger # NoLedger
          BY <2>2, LedgerEntries
        <4>2. i \in DOMAIN ledger[x].history
          BY <2>2, <2>4, <3>2
        <4>3. ledger'[x].history[i] = ledger[x].history[i]
          BY <2>2, <4>1, <4>2
        <4> QED  BY <2>3, <4>1, <4>2, <4>3 DEF Refereeing, Refereed
      <3> QED  BY <3>1, <3>2
    <2>5. Refereed(ledger')
      BY <2>2, <2>4 DEF Refereed
    <2> QED  BY <2>3, <2>5, CopiesRead DEF Refereeing
  <1>4. CASE Next /\ \A p \in Proc : ~GateFreeze(p) /\ ~WriteMeasurement(p)
    <2>1. ~stale
      BY <1>4, OtherSteps
    <2>2. Refereed(ledger')
      <3>1. Refereed(EmptyLedger) /\ Refereed(NoLedger)
        BY EmptyLedgerType DEF Refereed
      <3>2. Refereed(Freeze(docs, NoLedger))
        BY <3>1, FreezeReferees DEF WellFormed, TypeOK
      <3>3. Refereed(ledger)
        BY <2>1 DEF Refereeing
      <3>4. CASE /\ ledger \in Ledger
                 /\ Frozen(ledger') = Frozen(ledger)
                 /\ \A x \in Frozen(ledger) :
                      /\ ledger'[x].contract = ledger[x].contract
                      /\ ledger'[x].history = ledger[x].history
        BY <3>3, <3>4, OutcomeAssumption DEF Refereed
      <3> QED  BY <1>4, <3>1, <3>2, <3>3, <3>4, OtherSteps
    <2> QED  BY <2>1, <2>2, CopiesRead DEF Refereeing
  <1> QED  BY <1>1, <1>2, <1>3, <1>4

LEMMA Refereeable == Spec => [](WellFormed /\ Vouching /\ Refereeing)
  <1>1. Init => Refereeing
    BY RefereeingInit
  <1>2. WellFormed /\ Vouching /\ Refereeing /\ [Next]_vars => Refereeing'
    BY RefereeingStep
  <1> QED  BY <1>1, <1>2, Vouched, PTL DEF Spec

\* Until a gate or a check writes from what no longer holds, every measurement of
\* a criterion was made by the command that is frozen for it.
THEOREM RefereeIsTheContract == Spec => []RefereeUnlessStale
  <1>1. Refereeing => RefereeUnlessStale
    BY DEF Refereeing, RefereeUnlessStale
  <1> QED  BY <1>1, Refereeable, PTL

LEMMA HistoryStep ==
    ASSUME WellFormed, Vouching, [Next]_vars, ~stale'
    PROVE  HistoryKept
  <1> SUFFICES ASSUME ledger # NoLedger, ledger' # NoLedger,
                      NEW ac \in Frozen(ledger) \cap Frozen(ledger'),
                      ledger'[ac].contract = ledger[ac].contract
               PROVE  /\ Len(ledger[ac].history) <= Len(ledger'[ac].history)
                      /\ \A i \in DOMAIN ledger[ac].history :
                            ledger'[ac].history[i] = ledger[ac].history[i]
    BY DEF HistoryKept, Frozen
  <1>1. ledger \in Ledger /\ ledger[ac].history \in Seq(Measurement)
    BY LedgerEntries DEF WellFormed, TypeOK
  <1>2. Len(ledger[ac].history) \in Nat
    BY <1>1
  <1>3. CASE ledger'[ac].history = ledger[ac].history
    BY <1>2, <1>3
  <1>4. CASE UNCHANGED vars
    BY <1>3, <1>4 DEF vars
  <1>5. CASE \E p \in Proc : GateFreeze(p)
    <2>1. PICK p \in Proc : GateFreeze(p)
      BY <1>5
    <2>2. ledger' = Freeze(local[p].specs, ledger) /\ local[p].specs \in Specs
      BY <2>1, Typed DEF GateFreeze
    <2>3. ledger'[ac].history = ledger[ac].history
      BY <1>1, <2>2, FreezeKeeps
    <2> QED  BY <1>3, <2>3
  <1>6. CASE \E p \in Proc : WriteMeasurement(p)
    <2>1. PICK x \in Frozen(ledger), m \in Measurement :
             /\ \A y \in Frozen(ledger) : y # x => ledger'[y].history = ledger[y].history
             /\ ledger'[x].history = Append(ledger[x].history, m)
      BY <1>6, WrittenLedger DEF Vouching
    <2>2. CASE ac # x
      BY <1>3, <2>1, <2>2
    <2>3. CASE ac = x
      BY <1>1, <1>2, <2>1, <2>3
    <2> QED  BY <2>2, <2>3
  <1>7. CASE Next /\ \A p \in Proc : ~GateFreeze(p) /\ ~WriteMeasurement(p)
    <2>1. Frozen(EmptyLedger) = {}
      BY EmptyLedgerType
    <2> QED  BY <1>3, <1>7, <2>1, OtherSteps
  <1> QED  BY <1>4, <1>5, <1>6, <1>7

\* No step takes a measurement off a criterion whose command stays the same, save
\* for the writes that `stale` stands for.
THEOREM HistoryIsAppendOnly == Spec => HistoryAppendOnlyUnlessStale
  <1>1. WellFormed /\ Vouching /\ [Next]_vars => stale' \/ HistoryKept
    BY HistoryStep
  <1>2. WellFormed /\ Vouching /\ [Next]_vars => [stale' \/ HistoryKept]_vars
    BY <1>1
  <1> QED  BY <1>2, Vouched, PTL DEF Spec, HistoryAppendOnlyUnlessStale

\* A SHIP gate that passes, whatever is written between its readings, vouches for
\* each criterion of docs/03 in the first of its two readings of the ledger: it is
\* waived, or was last measured with the verdict MEASURED_PASS, which the log has too.
\* The command is that of docs/03, if nothing stale was written and the criterion has
\* the same contract in both readings.
THEOREM ShipIsBacked == Spec => []ShipBacked
  <1>1. ASSUME WellFormed, Vouching, Refereeing PROVE ShipBacked
    <2> SUFFICES ASSUME NEW p \in Proc, ShipGatePasses(local[p]),
                        NEW ac \in Frozen(local[p].read) \cap DOMAIN local[p].specs,
                        ~local[p].read[ac].waived
                 PROVE  LET h    == local[p].read[ac].history
                            last == h[Len(h)]
                        IN  /\ h # << >>
                            /\ last.id \in Measured
                            /\ log[last.id].verdict = "MEASURED_PASS"
                            /\ ~stale /\ SameContract(local[p], ac) =>
                                 log[last.id].command = local[p].specs[ac]
      BY DEF ShipBacked
    <2> DEFINE l    == local[p]
               h    == l.read[ac].history
               last == h[Len(h)]
    <2>1. l.pc = "shipVerdict" /\ l.pc \in Keeping \cap Reconciling
      BY DEF ShipGatePasses, Keeping, Reconciling
    <2>2. /\ l.read \in Ledger /\ l.read # NoLedger /\ ReadyToShip(l.read[ac])
          /\ ~Drifted(l.again, l.specs)
      BY <1>1, <2>1, Typed DEF Coherent
    <2>3. h \in Seq(Measurement)
      BY <2>2, LedgerEntries
    <2>4. h # << >> /\ last.verdict = "MEASURED_PASS"
      BY <2>2 DEF ReadyToShip
    <2>5. Len(h) \in DOMAIN h
      BY <2>3, <2>4
    <2>6. Corroborated(ac, last)
      BY <1>1, <2>1, <2>2, <2>5 DEF Vouching, CopiesVouched, CorroboratedLedger
    <2>7. SameContract(l, ac) => l.read[ac].contract = l.specs[ac]
      BY <2>2 DEF SameContract, Drifted
    <2>8. ~stale => last.command = l.read[ac].contract
      BY <1>1, <2>1, <2>2, <2>5 DEF Refereeing, Refereed
    <2> QED  BY <2>4, <2>6, <2>7, <2>8 DEF Corroborated, FieldsMatch
  <1> QED  BY <1>1, Refereeable, PTL

----------------------------------------------------------------------------
(* Alarms *)

\* Rounds are numbers, and two events with no cycle_started between them are of
\* one round.
LEMMA RoundsSeparate ==
  ASSUME TypeOK, NEW i \in Measured, NEW k \in Measured, ~(Round(k) <= Round(i))
  PROVE  \E j \in Started : i < j /\ j < k
  <1> DEFINE before(n) == {j \in Started : j < n}
  <1>1. DOMAIN log = 1..Len(log) /\ Len(log) \in Nat
    BY DEF TypeOK
  <1>2. IsFiniteSet(1..Len(log))
    BY <1>1, FS_Interval
  <1>3. \A n : before(n) \in SUBSET (1..Len(log))
    BY <1>1 DEF Started
  <1>4. IsFiniteSet(before(i)) /\ IsFiniteSet(before(k))
    BY <1>2, <1>3, FS_Subset
  <1>5. ~(before(k) \subseteq before(i))
    <2>1. ASSUME before(k) \subseteq before(i) PROVE FALSE
      <3>1. Cardinality(before(k)) <= Cardinality(before(i))
        BY <1>4, <2>1, FS_Subset
      <3> QED BY <3>1 DEF Round
    <2> QED BY <2>1
  <1>6. PICK j \in Started : j < k /\ ~(j < i)
    BY <1>5
  <1>7. j # i
    BY DEF Started, Measured
  <1> QED BY <1>1, <1>6, <1>7 DEF Started, Measured

\* `ocn outcome` takes for tampering nothing but measurements that a cycle_started
\* event stands between: neither a crash nor a race of checks and gates alarms it, not
\* even between its readings of the ledger and of the log.
THEOREM AlarmsAreAboutRounds == Spec => []AlarmOnlyAcrossRounds
  <1>1. ASSUME WellFormed, Vouching, NEW led, CorroboratedLedger(led), Alarm(led)
        PROVE  RoundInBetween(led)
    <2>1. Chain = Measured
      BY <1>1 DEF Vouching, ChainUnbroken, Chain
    <2>2. PICK ac \in Frozen(led) : \E i \in DOMAIN led[ac].history :
            LET m == led[ac].history[i]
            IN  m.id \in CurrentRound => ~FieldsMatch(m)
      BY <1>1, <2>1 DEF Alarm
    <2>3. PICK i \in DOMAIN led[ac].history :
            LET m == led[ac].history[i]
            IN  m.id \in CurrentRound => ~FieldsMatch(m)
      BY <2>2
    <2> DEFINE m == led[ac].history[i]
    <2>4. led # NoLedger
      BY <1>1 DEF Alarm
    <2>5. m.id \in Measured /\ FieldsMatch(m)
      BY <1>1, <2>4 DEF CorroboratedLedger, Corroborated
    <2>6. PICK k \in Measured : ~(Round(k) <= Round(m.id))
      BY <2>1, <2>3, <2>5 DEF CurrentRound
    <2>7. PICK j \in Started : m.id < j /\ j < k
      BY <1>1, <2>5, <2>6, RoundsSeparate DEF WellFormed
    <2> QED BY <2>4, <2>7 DEF RoundInBetween
  <1>2. ASSUME WellFormed, Vouching PROVE AlarmOnlyAcrossRounds
    <2>1. CorroboratedLedger(ledger)
      BY <1>2 DEF Vouching, LogNotBehind
    <2>2. \A p \in Proc : local[p].pc \in Reconciling => CorroboratedLedger(local[p].again)
      BY <1>2 DEF Vouching, CopiesVouched
    <2> QED  BY <1>1, <1>2, <2>1, <2>2 DEF AlarmOnlyAcrossRounds
  <1>3. WellFormed /\ Vouching => AlarmOnlyAcrossRounds
    BY <1>2
  <1> QED BY <1>3, Vouched, PTL
==============================================================================
