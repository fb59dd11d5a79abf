---------------------------- MODULE OutcomeLedger ----------------------------
(***************************************************************************)
(* The outcome backbone (src/core/outcome): the outcome criteria of         *)
(* docs/03, their contracts and measurements in                             *)
(* `.ocoding/outcome-ledger.json`, the chained `outcome_measured` events of *)
(* the audit log against which the ledger is reconciled, and the commands   *)
(* that touch them: the acceptance gate, `ocn outcome check`, `ocn outcome  *)
(* waive`, `ocn sop upgrade`, `ocn cycle new` and the gate of the SHIP step.*)
(*                                                                          *)
(* The ledger is written under `.ocoding/.lock`, taken here as StoreLock    *)
(* proves it: one holder, and a dead holder's lock can be had.  What the    *)
(* commands read before they take it, and the audit events they append      *)
(* after they release it, are where they interleave.                        *)
(*                                                                          *)
(* Rewinds and advances may bring the cursor to the acceptance or the SHIP  *)
(* step between any two steps here, so the cursor has no variable.  Every   *)
(* criterion is due at SHIP.  Of the gates that only read, the SHIP gate is  *)
(* here, reading by reading; the SPEC and REFLECT gates and the guard of an *)
(* advance have no action.                                                  *)
(***************************************************************************)
EXTENDS Naturals, Sequences, FiniteSets

CONSTANTS
    Proc,          \* the ocn processes
    Criterion,     \* the ids of outcome criteria
    Command,       \* the measure commands; equal hash, same command
    Document,      \* what the outcome criteria of docs/03 may be edited to
    Result,        \* bound: the verdicts a probe may come to
    NoLedger,      \* outcome-ledger.json is absent
    NoEntry,       \* ... or has nothing on a criterion
    NoProjection,  \* acceptance-specs.json is absent
    NoCriterion,
    Nobody,
    MaxMeasured,   \* bound: outcome_measured events in the audit log
    MaxStarted,    \* bound: cycle_started events
    MaxReading     \* bound: SHIP gates, and checks before their probe, at once

Verdict == {"NO_EVIDENCE", "MEASURED_PASS", "MEASURED_FAIL"}

\* The criteria of a document with their measure commands.
Specs == UNION {[ids -> Command] : ids \in SUBSET Criterion}

\* A measurement is known by the place its event has in the log, as its ULID is
\* by that event.
Measurement == [id : Nat, seq : Nat, verdict : Verdict, command : Command]

Entry == [contract : Command, history : Seq(Measurement), waived : BOOLEAN]

\* The waiver of the whole project, noOutcomeWaiver, is read by no command here.
Ledger == [Criterion -> Entry \cup {NoEntry}]

\* The criteria a ledger has entries for.
Frozen(led) == {ac \in Criterion : led[ac] # NoEntry}

\* The events reconciliation looks at; prev is the event whose hash is in
\* prevEventHash, 0 for none.
Event ==
    [type : {"cycle_started"}]
    \cup
    [type : {"outcome_measured"}, ac : Criterion, seq : Nat, verdict : Verdict,
     command : Command, prev : Nat]

ASSUME OutcomeAssumption ==
    /\ Document \subseteq Specs
    /\ Result \subseteq Verdict
    /\ NoLedger \notin Ledger
    /\ NoEntry \notin Entry
    /\ NoProjection \notin Specs
    /\ NoCriterion \notin Criterion
    /\ Nobody \notin Proc
    /\ MaxMeasured \in Nat
    /\ MaxStarted \in Nat
    /\ MaxReading \in Nat

VARIABLES
    docs,        \* the outcome criteria that docs/03 declares
    capable,     \* is the project pinned to SOP 0.9.0 or later?
    projection,  \* acceptance-specs.json: the section it has the hash of, if it
                 \* is of version 1, which leaves the outcome criteria out; one
                 \* of version 2 has those of docs/03, as if there were none
    ledger,      \* outcome-ledger.json
    log,         \* the audit log
    holder,      \* who holds the store lock
    stale,       \* history: was something written from what no longer held?
    local        \* what each process keeps in memory during a command

vars == <<docs, capable, projection, ledger, log, holder, stale, local>>

\* The places inside the lock, and all places.
Inside == {"audit", "write", "archiveLedger", "pin"}

\* The places at which a command is about to reconcile the ledger with the log.
Reconciling == {"compare", "shipVerdict"}

\* The places of a check and of a SHIP gate while they only read.
Reading == Reconciling \cup {"reconcile", "shipLedger", "shipReconcile"}

Place == Inside \cup Reading \cup {"idle", "carry", "freeze", "probe", "started"}

Local ==
    [pc     : Place,
     specs  : Specs,                       \* the criteria as read
     read   : Ledger \cup {NoLedger},      \* the ledger as read
     again  : Ledger \cup {NoLedger},      \* ... and as read by the reconciliation
     target : Criterion \cup {NoCriterion},
     prev   : Nat]                         \* the head of the chain as read

NoSpecs == [ac \in {} |-> {}]

Resting == [pc |-> "idle", specs |-> NoSpecs, read |-> NoLedger, again |-> NoLedger,
            target |-> NoCriterion, prev |-> 0]

TypeOK ==
    /\ docs \in Specs
    /\ capable \in BOOLEAN
    /\ projection \in Specs \cup {NoProjection}
    /\ ledger \in Ledger \cup {NoLedger}
    /\ log \in Seq(Event)
    /\ holder \in Proc \cup {Nobody}
    /\ stale \in BOOLEAN
    /\ local \in [Proc -> Local]

Init ==
    /\ docs \in Document
    /\ capable \in BOOLEAN
    /\ projection = NoProjection
    /\ ledger = NoLedger
    /\ log = << >>
    /\ holder = Nobody
    /\ stale = FALSE
    /\ local = [p \in Proc |-> Resting]

----------------------------------------------------------------------------
(* The audit log *)

Started == {i \in DOMAIN log : log[i].type = "cycle_started"}

Measured == {i \in DOMAIN log : log[i].type = "outcome_measured"}

\* prevEventHash names the measurement just before.
Linked(i) ==
    /\ log[i].prev = 0 \/ log[i].prev \in Measured
    /\ log[i].prev < i
    /\ \A j \in Measured : j < i => j <= log[i].prev

\* readChainedOutcomeEvents reads on up to the first event that is not linked.
Chain == {i \in Measured : \A j \in Measured : j <= i => Linked(j)}

\* lastOutcomeEventHash
IsHead(n) == n \in Chain \cup {0} /\ \A i \in Chain : i <= n

\* The number of cycle_started events before an event: its round.
Round(i) == Cardinality({j \in Started : j < i})

\* Mutated form: the round is the number of cycle_started events so far.
CurrentRoundOfLog ==
    {i \in Chain : Round(i) = Round(Len(log) + 1)}

\* The events of the highest round that has a measurement.
CurrentRound == {i \in Chain : \A j \in Chain : Round(j) <= Round(i)}

\* fieldsMatch: a measurement says what its event says.
FieldsMatch(m) ==
    m.verdict = log[m.id].verdict /\ m.command = log[m.id].command

\* reconcileLedgerWithAudit finds what looks like tampering: a chain that does
\* not read through to its end, a measurement that the current round of the log
\* does not have (ledger_ahead) or has otherwise (field_mismatch) ...
Alarm(led) ==
    /\ led # NoLedger
    /\ \/ Chain # Measured
       \/ LET current == CurrentRound
          IN  \E ac \in Frozen(led) : \E i \in DOMAIN led[ac].history :
                 LET m == led[ac].history[i]
                 IN  m.id \in current => ~FieldsMatch(m)

\* ... and contract_drift, a command that was edited after it was frozen.
Drifted(led, specs) ==
    led # NoLedger /\ \E ac \in Frozen(led) \cap DOMAIN specs : led[ac].contract # specs[ac]

----------------------------------------------------------------------------
(* Criteria and ledgers *)

\* resolveAcceptanceSpecs, its outcome criteria: the projection as long as the
\* section is what it was frozen from, the document once it has changed.
ResolvedSpecs ==
    IF projection = docs THEN NoSpecs ELSE docs

EmptyLedger == [ac \in Criterion |-> NoEntry]

\* Mutated form: the history of a criterion is carried by its id alone.
FreezeById(specs, prev) ==
    LET kept(ac) == prev # NoLedger /\ ac \in Frozen(prev)
    IN  [ac \in Criterion |->
            IF ac \notin DOMAIN specs THEN NoEntry
            ELSE [contract |-> specs[ac],
                  history  |-> IF kept(ac) THEN prev[ac].history ELSE << >>,
                  waived   |-> kept(ac) /\ prev[ac].waived]]

\* Mutated form: freezing starts every criterion unmeasured.
FreezeAfresh(specs, prev) ==
    [ac \in Criterion |->
        IF ac \notin DOMAIN specs THEN NoEntry
        ELSE [contract |-> specs[ac], history |-> << >>, waived |-> FALSE]]

\* reconcileFrozenContracts: history and waiver stay with an unchanged command.
Freeze(specs, prev) ==
    LET kept(ac) == /\ prev # NoLedger
                    /\ ac \in Frozen(prev)
                    /\ prev[ac].contract = specs[ac]
    IN  [ac \in Criterion |->
            IF ac \notin DOMAIN specs THEN NoEntry
            ELSE [contract |-> specs[ac],
                  history  |-> IF kept(ac) THEN prev[ac].history ELSE << >>,
                  waived   |-> kept(ac) /\ prev[ac].waived]]

\* Mutated form: a criterion that has been measured may ship, whatever came out.
ReadyToShipMeasured(entry) == entry.waived \/ entry.history # << >>

\* evaluateOutcomeGuard at SHIP, where a measured failure blocks as well.
ReadyToShip(entry) ==
    \/ entry.waived
    \/ /\ entry.history # << >>
       /\ entry.history[Len(entry.history)].verdict = "MEASURED_PASS"

----------------------------------------------------------------------------

\* The commands that only read so far; since none of them writes, one at a time shows
\* all that another process's writes can do to it.
Readers == {p \in Proc : local[p].pc \in Reading}

Begin(p, l) == local' = [local EXCEPT ![p] = l]

Goto(p, where) == local' = [local EXCEPT ![p].pc = where]

Return(p) == local' = [local EXCEPT ![p] = Resting]

\* Mutated form: the lock is not looked at.
LockIgnored(p) == holder' = p

\* withLock.  A command that does nothing in it but read and write the ledger
\* takes one step; in the others the last write releases it.
Lock(p) == holder = Nobody /\ holder' = p

Locked == holder = Nobody /\ UNCHANGED holder

Unlock == holder' = Nobody

\* A step that only reads changes none of these.
Files == <<docs, capable, projection, ledger, log, holder, stale>>

----------------------------------------------------------------------------
(* The acceptance gate *)

\* runGate and acceptanceStepOrNull read state.json and docs/03 and write the
\* projection, of version 2 if the pin knows of outcomes.  This is one step: what
\* is edited between the reading and the writing might as well be edited just
\* after.  A gate that an upgrade overtakes there is left out ...
GateProject(p) ==
    /\ local[p].pc = "idle"
    /\ LET outcomes == capable /\ DOMAIN docs # {}
       IN  /\ projection' = IF outcomes THEN NoProjection ELSE docs
           /\ Begin(p, IF outcomes
                       THEN [Resting EXCEPT !.pc = "carry", !.specs = docs]
                       ELSE Resting)
    /\ UNCHANGED <<docs, capable, ledger, log, holder, stale>>

\* ... read the ledger, before the lock ...
GateCarry(p) ==
    /\ local[p].pc = "carry"
    /\ Begin(p, [local[p] EXCEPT !.pc = "freeze", !.read = ledger])
    /\ UNCHANGED Files

\* ... and write the next one, inside it.
GateFreeze(p) ==
    /\ local[p].pc = "freeze"
    /\ Locked
    /\ ledger' = Freeze(local[p].specs, local[p].read)
    /\ stale' = (stale \/ ledger # local[p].read)
    /\ Return(p)
    /\ UNCHANGED <<docs, capable, projection, log>>

----------------------------------------------------------------------------
(* ocn outcome check *)

\* The criterion must be an outcome criterion that has been frozen.
CheckStart(p) ==
    /\ local[p].pc = "idle"
    /\ Cardinality(Readers) < MaxReading
    /\ ledger # NoLedger
    /\ \E ac \in DOMAIN ResolvedSpecs \cap Frozen(ledger) :
          Begin(p, [Resting EXCEPT !.pc = "reconcile", !.specs = ResolvedSpecs,
                                   !.target = ac])
    /\ UNCHANGED Files

\* The reconciliation reads the ledger anew.  A contract that has drifted ends
\* the command after the log is read, but what is read of the ledger decides it ...
CheckReread(p) ==
    /\ local[p].pc = "reconcile"
    /\ ~Drifted(ledger, local[p].specs)
    /\ Begin(p, [local[p] EXCEPT !.pc = "compare", !.again = ledger])
    /\ UNCHANGED Files

\* ... and then the log.  Another breach ends the command as well; else the probe
\* is run, for up to ten minutes.
CheckReconcile(p) ==
    /\ local[p].pc = "compare"
    /\ ~Alarm(local[p].again)
    /\ Begin(p, [local[p] EXCEPT !.pc = "probe", !.again = NoLedger])
    /\ UNCHANGED Files

\* appendMeasurement reads the ledger and the head of the chain inside the lock.
LockAndRead(p) ==
    /\ local[p].pc = "probe"
    /\ Lock(p)
    /\ ledger # NoLedger
    /\ local[p].target \in Frozen(ledger)
    /\ \E head \in 0..Len(log) :
          /\ IsHead(head)
          /\ Begin(p, [local[p] EXCEPT !.pc = "audit", !.read = ledger, !.prev = head])
    /\ UNCHANGED <<docs, capable, projection, ledger, log, stale>>

\* The event of a measurement that the probe came to a verdict in.
EventOf(l, verdict) ==
    [type |-> "outcome_measured", ac |-> l.target,
     seq |-> Len(l.read[l.target].history), verdict |-> verdict,
     command |-> l.specs[l.target], prev |-> l.prev]

\* Mutated form: a failing audit write is swallowed, as it is elsewhere.
CommitAuditSwallowed(p) ==
    /\ local[p].pc = "audit"
    /\ Cardinality(Measured) < MaxMeasured
    /\ \/ \E v \in Result : log' = Append(log, EventOf(local[p], v))
       \/ Measured # {} /\ UNCHANGED log
    /\ Goto(p, "write")
    /\ UNCHANGED <<docs, capable, projection, ledger, holder, stale>>

\* The event is appended and synced first ...
CommitAudit(p) ==
    /\ local[p].pc = "audit"
    /\ Cardinality(Measured) < MaxMeasured
    /\ \E v \in Result : log' = Append(log, EventOf(local[p], v))
    /\ Goto(p, "write")
    /\ UNCHANGED <<docs, capable, projection, ledger, holder, stale>>

\* The measurement as the ledger has it, of the event with this place.
MeasurementOf(l, id) ==
    [id |-> id, seq |-> Len(l.read[l.target].history),
     verdict |-> log[id].verdict, command |-> l.specs[l.target]]

\* ... and then the ledger is renamed over.  The event is the last measurement
\* in the log, though cycle_started events may have been appended since.
WriteMeasurement(p) ==
    /\ local[p].pc = "write"
    /\ LET l == local[p]
       IN  \E id \in Measured :
             /\ \A j \in Measured : j <= id
             /\ ledger' = [l.read EXCEPT ![l.target].history =
                              Append(@, MeasurementOf(l, id))]
             /\ stale' = (stale \/ l.read[l.target].contract # l.specs[l.target])
    /\ Unlock
    /\ Return(p)
    /\ UNCHANGED <<docs, capable, projection, log>>

----------------------------------------------------------------------------
(* ocn outcome waive *)

\* setOutcomeWaiver, for a criterion that has been frozen ...
WaiveCriterion(p) ==
    /\ local[p].pc = "idle"
    /\ Locked
    /\ ledger # NoLedger
    /\ \E ac \in Frozen(ledger) : ledger' = [ledger EXCEPT ![ac].waived = TRUE]
    /\ UNCHANGED <<docs, capable, projection, log, stale, local>>

\* ... and setNoOutcomeWaiver, for the project, which needs no ledger.
WaiveProject(p) ==
    /\ local[p].pc = "idle"
    /\ Locked
    /\ ledger' = IF ledger = NoLedger THEN EmptyLedger ELSE ledger
    /\ UNCHANGED <<docs, capable, projection, log, stale, local>>

----------------------------------------------------------------------------
(* ocn cycle new *)

\* archiveRoundUnlocked moves the projection, then the ledger, into the archive.
ArchiveSpecs(p) ==
    /\ local[p].pc = "idle"
    /\ Lock(p)
    /\ projection' = NoProjection
    /\ Goto(p, "archiveLedger")
    /\ UNCHANGED <<docs, capable, ledger, log, stale>>

ArchiveLedger(p) ==
    /\ local[p].pc = "archiveLedger"
    /\ ledger' = NoLedger
    /\ Unlock
    /\ Goto(p, "started")
    /\ UNCHANGED <<docs, capable, projection, log, stale>>

\* After the lock has been released a cycle_started event is appended.
CycleStarted(p) ==
    /\ local[p].pc = "started"
    /\ Cardinality(Started) < MaxStarted
    /\ log' = Append(log, [type |-> "cycle_started"])
    /\ Return(p)
    /\ UNCHANGED <<docs, capable, projection, ledger, holder, stale>>

\* The same event, with the result failed, when the lock cannot be had, the
\* cursor has moved before it was, or a file cannot be moved.
CycleFailed(p) ==
    /\ local[p].pc \in {"idle", "archiveLedger"}
    /\ Cardinality(Started) < MaxStarted
    /\ log' = Append(log, [type |-> "cycle_started"])
    /\ holder' = IF holder = p THEN Nobody ELSE holder
    /\ Return(p)
    /\ UNCHANGED <<docs, capable, projection, ledger, stale>>

----------------------------------------------------------------------------
(* ocn sop upgrade, from a version before 0.9.0 to one that has outcomes *)

\* seedOutcomeLedgerUnlocked: a ledger that is there is left as it is.
Seed(p) ==
    /\ local[p].pc = "idle"
    /\ Lock(p)
    /\ ~capable
    /\ ledger' = IF ledger = NoLedger /\ DOMAIN docs # {}
                 THEN Freeze(docs, NoLedger) ELSE ledger
    /\ Goto(p, "pin")
    /\ UNCHANGED <<docs, capable, projection, log, stale>>

MovePin(p) ==
    /\ local[p].pc = "pin"
    /\ capable' = TRUE
    /\ Unlock
    /\ Return(p)
    /\ UNCHANGED <<docs, projection, ledger, log, stale>>

----------------------------------------------------------------------------
(* The gate of the SHIP step, for a pin that knows of outcomes *)

\* docsOutcomeSpecs reads docs/03, not the projection ...
ShipSpecs(p) ==
    /\ local[p].pc = "idle"
    /\ Cardinality(Readers) < MaxReading
    /\ capable
    /\ Begin(p, [Resting EXCEPT !.pc = "shipLedger", !.specs = docs])
    /\ UNCHANGED Files

\* ... then the ledger is read; without one the gate passes or blocks at once.
\* Its entries are judged last, but on this reading, so it may be done here ...
ShipLedger(p) ==
    /\ local[p].pc = "shipLedger"
    /\ ledger # NoLedger
    /\ \A ac \in Frozen(ledger) : ReadyToShip(ledger[ac])
    /\ Begin(p, [local[p] EXCEPT !.pc = "shipReconcile", !.read = ledger])
    /\ UNCHANGED Files

\* ... the reconciliation reads it a second time, finding no breach if there is
\* none any more ...
ShipReread(p) ==
    /\ local[p].pc = "shipReconcile"
    /\ ~Drifted(ledger, local[p].specs)
    /\ Begin(p, [local[p] EXCEPT !.pc = "shipVerdict", !.again = ledger])
    /\ UNCHANGED Files

\* ... and reads the log, in which it must find what it read the second time.
ShipGatePasses(l) == l.pc = "shipVerdict" /\ ~Alarm(l.again)

ShipPass(p) ==
    /\ ShipGatePasses(local[p])
    /\ Return(p)
    /\ UNCHANGED Files

----------------------------------------------------------------------------

\* A refusal, a failing file operation or the death of the process, which
\* forgets everything and leaves no lock that lasts.
GiveUp(p) ==
    /\ local[p].pc # "idle"
    /\ holder' = IF holder = p THEN Nobody ELSE holder
    /\ Return(p)
    /\ UNCHANGED <<docs, capable, projection, ledger, log, stale>>

\* docs/03 is edited by people and agents at any time.
EditDocs ==
    /\ docs' \in Document
    /\ UNCHANGED <<capable, projection, ledger, log, holder, stale, local>>

Next ==
    \/ \E p \in Proc :
          \/ GateProject(p) \/ GateCarry(p) \/ GateFreeze(p)
          \/ CheckStart(p) \/ CheckReread(p) \/ CheckReconcile(p) \/ LockAndRead(p)
          \/ CommitAudit(p) \/ WriteMeasurement(p)
          \/ ShipSpecs(p) \/ ShipLedger(p) \/ ShipReread(p) \/ ShipPass(p)
          \/ WaiveCriterion(p) \/ WaiveProject(p)
          \/ ArchiveSpecs(p) \/ ArchiveLedger(p) \/ CycleStarted(p) \/ CycleFailed(p)
          \/ Seed(p) \/ MovePin(p)
          \/ GiveUp(p)
    \/ EditDocs

Spec == Init /\ [][Next]_vars

----------------------------------------------------------------------------
(* Properties *)

\* A measurement has its event in the log, with the same criterion, number,
\* verdict and command.
Corroborated(ac, m) ==
    /\ m.id \in Measured
    /\ log[m.id].ac = ac
    /\ log[m.id].seq = m.seq
    /\ FieldsMatch(m)

CorroboratedLedger(led) ==
    led # NoLedger =>
        \A ac \in Frozen(led) : \A i \in DOMAIN led[ac].history :
            Corroborated(ac, led[ac].history[i])

\* The log is never behind the ledger: no crash, race or failing write leaves a
\* measurement in the ledger that the log does not vouch for.
LogNotBehind == CorroboratedLedger(ledger)

\* Concurrent checks never fork the chain of measurements, nor does a crash
\* between the two writes break it.
ChainUnbroken == Measured \subseteq Chain

\* Some measurement of a ledger is followed in the log by a cycle_started event
\* and that by another measurement.
RoundInBetween(led) ==
    /\ led # NoLedger
    /\ \E ac \in Frozen(led) :
         \E i \in DOMAIN led[ac].history :
           \E k \in Measured : \E j \in Started :
              led[ac].history[i].id < j /\ j < k

\* Reconciliation takes crashes, concurrent checks and re-freezing for what they
\* are, also when they come between its reading of the ledger and that of the log;
\* it reports tampering only when measurements of the ledger straddle a
\* cycle_started event.
AlarmOnlyAcrossRounds ==
    LET reconciling == {p \in Proc : local[p].pc \in Reconciling}
    IN  \A led \in {ledger} \cup {local[p].again : p \in reconciling} :
          Alarm(led) => RoundInBetween(led)

\* No step takes a measurement off a criterion whose command stays the same.
HistoryKept ==
    ledger # NoLedger /\ ledger' # NoLedger =>
        \A ac \in Frozen(ledger) \cap Frozen(ledger') :
            ledger'[ac].contract = ledger[ac].contract =>
                LET h == ledger[ac].history
                    k == ledger'[ac].history
                IN  Len(h) <= Len(k) /\ \A i \in DOMAIN h : k[i] = h[i]

\* History is append-only within a round, save for a gate that writes from a
\* ledger that has changed since it read it.
HistoryAppendOnlyUnlessStale == [][stale' \/ HistoryKept]_vars

Refereed(led) ==
    led # NoLedger =>
        \A ac \in Frozen(led) : \A i \in DOMAIN led[ac].history :
            led[ac].history[i].command = led[ac].contract

\* The referee is the contract: what a criterion's history holds was measured by
\* the command that is frozen for it, unless a check or a gate has written from
\* what no longer held.
RefereeUnlessStale == ~stale => Refereed(ledger)

\* The ledger's two readings of a SHIP gate have the same command for a criterion.
SameContract(l, ac) ==
    /\ l.again # NoLedger
    /\ ac \in Frozen(l.again)
    /\ l.again[ac].contract = l.read[ac].contract

\* When a SHIP gate passes, whatever was written between its readings, each
\* criterion of docs/03 that it found frozen has a waiver, or a last measurement
\* that the log too has down as passed.  It was measured by the command that
\* docs/03 had for it at the start, unless something stale was written or the
\* criterion was frozen anew between the two readings of the ledger.
ShipBacked ==
    \A p \in Proc : ShipGatePasses(local[p]) =>
        LET l == local[p]
        IN  \A ac \in Frozen(l.read) \cap DOMAIN l.specs :
              LET e    == l.read[ac]
                  last == e.history[Len(e.history)]
              IN  \/ e.waived
                  \/ /\ e.history # << >>
                     /\ last.id \in Measured
                     /\ log[last.id].verdict = "MEASURED_PASS"
                     /\ ~stale /\ SameContract(l, ac) =>
                          log[last.id].command = l.specs[ac]
==============================================================================
