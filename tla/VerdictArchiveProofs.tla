------------------------ MODULE VerdictArchiveProofs ------------------------
(***************************************************************************)
(* Theorems about VerdictArchive, for any evidence, any bound on events    *)
(* and failures: the archive has no gap and follows the ledger.            *)
(*                                                                         *)
(* The listener knows where it is only by its checkpoint, so the invariant *)
(* says what each of its places means: up to the checkpoint everything is  *)
(* archived, and beyond it at most the one event it is busy with.          *)
(***************************************************************************)
EXTENDS VerdictArchive, TLAPS

\* Evidence has one event; every verdict is about some evidence.
EventsOnce ==
  /\ \A i \in DOMAIN log : IsVerdict(i) => log[i].evidence \in EvidenceIds \ {Absent}
  /\ \A i, j \in DOMAIN log :
       log[i].evidence # Absent /\ log[i].evidence = log[j].evidence => i = j

CurrentArchived ==
  archive[Current.evidence] # Absent /\ archive[Current.evidence].event = checkpoint + 1

\* What each place of the listener says about the event it is busy with.
PlaceOK ==
  /\ at \in {"archiving", "checking", "recording", "checkpointing"} => checkpoint < Len(log)
  /\ at \in {"archiving", "checking", "recording"} => IsVerdict(checkpoint + 1)
  /\ at \in {"checking", "recording"} => CurrentArchived
  /\ at = "checkpointing" /\ IsVerdict(checkpoint + 1) => CurrentArchived

\* A row is about an event the listener has passed or is busy with.
RowsFromLog ==
  \A e \in EvidenceIds : archive[e] # Absent =>
    /\ archive[e].event \in 1..(checkpoint + 1)
    /\ archive[e].event <= Len(log)
    /\ log[archive[e].event] = [kind |-> "verdict", evidence |-> e]

IInv == TypeOK /\ EventsOnce /\ PlaceOK /\ RowsFromLog /\ NoGap

-----------------------------------------------------------------------------
(* Type correctness.                                                       *)

\* The event the listener is busy with, typed.
LEMMA CurrentTyped ==
  ASSUME TypeOK, checkpoint < Len(log)
  PROVE  Current \in Event /\ checkpoint + 1 \in DOMAIN log
BY DEF TypeOK, Current

LEMMA InitTyped == Init => TypeOK
BY EventsAssumption DEF Init, TypeOK, Checks

\* What a new event does to the log.
LEMMA EmitLog ==
  ASSUME TypeOK, NEW kind \in Kinds, NEW e \in EvidenceIds \cup {Absent}, Emit(kind, e)
  PROVE  /\ log' \in Seq(Event) /\ Len(log') = Len(log) + 1 /\ Len(log') <= MaxEvents
         /\ \A i \in 1..Len(log) : log'[i] = log[i]
         /\ log'[Len(log) + 1] = [kind |-> kind, evidence |-> e]
<1>1. log \in Seq(Event) /\ Len(log) \in Nat /\ Len(log) < MaxEvents
  BY DEF TypeOK, Emit
<1>2. [kind |-> kind, evidence |-> e] \in Event /\ log' = Append(log, [kind |-> kind, evidence |-> e])
  BY DEF Event, Emit
<1> QED
  BY <1>1, <1>2, EventsAssumption

LEMMA TypeStep == IInv /\ [Next]_vars => TypeOK'
<1> SUFFICES ASSUME IInv, [Next]_vars PROVE TypeOK'
  OBVIOUS
<1> USE DEF IInv
<1>1. CASE Receive
  BY <1>1 DEF Receive, Goto, worldVars, TypeOK
<1>2. CASE Archive
  <2>1. Current.evidence \in EvidenceIds
    BY <1>2, CurrentTyped DEF Archive, PlaceOK, EventsOnce, Current
  <2>2. archive' \in [EvidenceIds -> ArchivedRow \cup {Absent}]
    <3>1. archive[Current.evidence] \in ArchivedRow \cup {Absent}
      BY <2>1 DEF TypeOK
    <3>2. [event |-> checkpoint + 1,
           check |-> IF archive[Current.evidence] = Absent THEN "UNKNOWN"
                     ELSE archive[Current.evidence].check] \in ArchivedRow
      BY <3>1 DEF TypeOK, ArchivedRow, Checks
    <3> QED
      BY <2>1, <3>2, <1>2 DEF TypeOK, Archive
  <2> QED
    BY <1>2, <2>2 DEF Archive, Goto, worldVars, TypeOK
<1>3. CASE CheckSignatures
  BY <1>3 DEF CheckSignatures, Goto, worldVars, TypeOK, Checks
<1>4. CASE RecordSignatureCheck
  <2>1. Current.evidence \in EvidenceIds /\ archive[Current.evidence] \in ArchivedRow
    BY <1>4, CurrentTyped DEF RecordSignatureCheck, PlaceOK, EventsOnce, Current, CurrentArchived,
                              TypeOK
  <2>2. archive' \in [EvidenceIds -> ArchivedRow \cup {Absent}]
    BY <1>4, <2>1 DEF RecordSignatureCheck, TypeOK, ArchivedRow
  <2> QED
    BY <1>4, <2>2 DEF RecordSignatureCheck, Goto, worldVars, TypeOK
<1>5. CASE Checkpoint
  BY <1>5 DEF Checkpoint, Goto, worldVars, TypeOK, PlaceOK
<1>6. CASE ArchiveFails
  BY <1>6, EventsAssumption DEF ArchiveFails, Fault, Goto, worldVars, TypeOK
<1>7. CASE RecordFails
  BY <1>7, EventsAssumption DEF RecordFails, Fault, Goto, worldVars, TypeOK
<1>8. CASE Stop
  BY <1>8, EventsAssumption DEF Stop, Fault, Goto, worldVars, TypeOK
<1>9. CASE Restart
  BY <1>9 DEF Restart, Goto, worldVars, TypeOK
<1>10. CASE OracleGoes
  BY <1>10 DEF OracleGoes, TypeOK
<1>11. CASE KeySwitched
  BY <1>11 DEF KeySwitched, TypeOK
<1>12. ASSUME NEW kind \in Kinds, NEW e \in EvidenceIds \cup {Absent}, Emit(kind, e)
       PROVE  TypeOK'
  BY <1>12, EmitLog DEF Emit, TypeOK
<1>13. CASE UNCHANGED vars
  BY <1>13 DEF vars, TypeOK
<1> QED
  BY <1>1, <1>2, <1>3, <1>4, <1>5, <1>6, <1>7, <1>8, <1>9, <1>10, <1>11, <1>12, <1>13
  DEF Next, Listener, World

-----------------------------------------------------------------------------
(* The invariant, one lemma per kind of step.                              *)

LEMMA InvInit == Init => IInv
BY InitTyped DEF Init, IInv, EventsOnce, PlaceOK, RowsFromLog, NoGap

\* A new event leaves what is archived and what the listener is busy with
\* where they are.
LEMMA EmitStep ==
  ASSUME IInv, NEW kind \in Kinds, NEW e \in EvidenceIds \cup {Absent}, Emit(kind, e)
  PROVE  EventsOnce' /\ PlaceOK' /\ RowsFromLog' /\ NoGap'
<1> USE DEF IInv
<1>1. /\ Len(log) \in Nat /\ checkpoint \in 0..Len(log)
      /\ Len(log') = Len(log) + 1 /\ \A i \in 1..Len(log) : log'[i] = log[i]
      /\ log'[Len(log) + 1] = [kind |-> kind, evidence |-> e]
      /\ DOMAIN log = 1..Len(log) /\ DOMAIN log' = 1..(Len(log) + 1)
  BY EmitLog DEF TypeOK
<1>2. UNCHANGED <<archive, checkpoint, at>>
  BY DEF Emit
<1>3. /\ kind = "verdict" => e \in EvidenceIds \ {Absent}
      /\ e # Absent => \A i \in DOMAIN log : log[i].evidence # e
  BY DEF Emit
<1>4. EventsOnce'
  <2>1. \A i \in DOMAIN log' : IsVerdict(i)' => log'[i].evidence \in EvidenceIds \ {Absent}
    BY <1>1, <1>3 DEF EventsOnce, IsVerdict
  <2>2. \A i, j \in DOMAIN log' :
          log'[i].evidence # Absent /\ log'[i].evidence = log'[j].evidence => i = j
    BY <1>1, <1>3 DEF EventsOnce
  <2> QED
    BY <2>1, <2>2 DEF EventsOnce, IsVerdict
<1>5. PlaceOK'
  BY <1>1, <1>2 DEF PlaceOK, IsVerdict, CurrentArchived, Current
<1>6. RowsFromLog'
  BY <1>1, <1>2 DEF RowsFromLog
<1>7. NoGap'
  BY <1>1, <1>2 DEF NoGap, IsVerdict
<1> QED
  BY <1>4, <1>5, <1>6, <1>7

\* Steps that touch neither ledger, archive nor checkpoint only have to
\* leave the listener at a place that says no more than the one before.
LEMMA PlaceStep ==
  ASSUME IInv, UNCHANGED <<log, archive, checkpoint>>, PlaceOK'
  PROVE  EventsOnce' /\ PlaceOK' /\ RowsFromLog' /\ NoGap'
BY DEF IInv, EventsOnce, RowsFromLog, NoGap, IsVerdict

LEMMA ArchiveStep ==
  ASSUME IInv, Archive
  PROVE  EventsOnce' /\ PlaceOK' /\ RowsFromLog' /\ NoGap'
<1> USE DEF IInv
<1> DEFINE n == checkpoint + 1
           e == Current.evidence
<1>1. n \in DOMAIN log /\ n \in Nat /\ n <= Len(log) /\ IsVerdict(n) /\ e \in EvidenceIds
  BY CurrentTyped DEF Archive, PlaceOK, EventsOnce, Current, TypeOK
<1>2. Current = [kind |-> "verdict", evidence |-> e]
  BY <1>1, CurrentTyped DEF Archive, PlaceOK, Event, IsVerdict, Current
<1>3. /\ archive'[e] # Absent /\ archive'[e].event = n
      /\ \A x \in EvidenceIds : x # e => archive'[x] = archive[x]
  BY <1>1, AbsentAssumption, TypeStep DEF Archive, TypeOK, ArchivedRow, Checks
<1>4. UNCHANGED <<log, checkpoint>> /\ at' = "checking"
  BY DEF Archive, Goto, worldVars
<1>5. EventsOnce'
  BY <1>4 DEF EventsOnce, IsVerdict
<1>6. PlaceOK'
  BY <1>1, <1>3, <1>4 DEF PlaceOK, CurrentArchived, Current, IsVerdict, TypeOK
<1>7. RowsFromLog'
  BY <1>1, <1>2, <1>3, <1>4 DEF RowsFromLog, Current
<1>8. NoGap'
  <2> SUFFICES ASSUME NEW i \in 1..checkpoint, IsVerdict(i)
               PROVE  archive'[log[i].evidence] # Absent /\ archive'[log[i].evidence].event = i
    BY <1>4 DEF NoGap, IsVerdict
  <2>1. i \in DOMAIN log /\ log[i].evidence \in EvidenceIds /\ log[i].evidence # Absent
    BY <1>1 DEF TypeOK, EventsOnce
  <2>2. log[i].evidence # e
    BY <1>1, <2>1 DEF EventsOnce, Current, TypeOK
  <2> QED
    BY <1>3, <2>1, <2>2 DEF NoGap
<1> QED
  BY <1>5, <1>6, <1>7, <1>8

\* The check is recorded in the row of the current event, whose verdict stays.
LEMMA RecordStep ==
  ASSUME IInv, RecordSignatureCheck
  PROVE  EventsOnce' /\ PlaceOK' /\ RowsFromLog' /\ NoGap'
<1> USE DEF IInv
<1> DEFINE e == Current.evidence
<1>1. checkpoint + 1 \in DOMAIN log /\ IsVerdict(checkpoint + 1) /\ CurrentArchived
      /\ e \in EvidenceIds
  BY CurrentTyped DEF RecordSignatureCheck, PlaceOK, EventsOnce, Current
<1>2. \A x \in EvidenceIds : /\ archive'[x] = Absent <=> archive[x] = Absent
                             /\ archive'[x] # Absent => archive'[x].event = archive[x].event
  BY <1>1, AbsentAssumption, TypeStep
  DEF RecordSignatureCheck, CurrentArchived, TypeOK, ArchivedRow, Checks
<1>3. UNCHANGED <<log, checkpoint>> /\ at' = "checkpointing"
  BY DEF RecordSignatureCheck, Goto, worldVars
<1>4. EventsOnce'
  BY <1>3 DEF EventsOnce, IsVerdict
<1>5. PlaceOK'
  BY <1>1, <1>2, <1>3 DEF PlaceOK, CurrentArchived, Current, IsVerdict, TypeOK
<1>6. RowsFromLog'
  BY <1>2, <1>3 DEF RowsFromLog
<1>7. NoGap'
  BY <1>2, <1>3 DEF NoGap, IsVerdict, EventsOnce, TypeOK
<1> QED
  BY <1>4, <1>5, <1>6, <1>7

\* The checkpoint passes an event: if it was a verdict, it is archived.
LEMMA CheckpointStep ==
  ASSUME IInv, Checkpoint
  PROVE  EventsOnce' /\ PlaceOK' /\ RowsFromLog' /\ NoGap'
<1> USE DEF IInv
<1>1. /\ UNCHANGED <<log, archive>> /\ checkpoint' = checkpoint + 1 /\ at' = "waiting"
      /\ checkpoint \in Nat /\ checkpoint < Len(log) /\ Len(log) \in Nat
      /\ IsVerdict(checkpoint + 1) => CurrentArchived
  BY DEF Checkpoint, Goto, worldVars, PlaceOK, TypeOK
<1>2. EventsOnce'
  BY <1>1 DEF EventsOnce, IsVerdict
<1>3. PlaceOK'
  BY <1>1 DEF PlaceOK
<1>4. RowsFromLog'
  BY <1>1 DEF RowsFromLog
<1>5. NoGap'
  BY <1>1 DEF NoGap, IsVerdict, CurrentArchived, Current
<1> QED
  BY <1>2, <1>3, <1>4, <1>5

LEMMA InvStep == IInv /\ [Next]_vars => IInv'
<1> SUFFICES ASSUME IInv, [Next]_vars PROVE EventsOnce' /\ PlaceOK' /\ RowsFromLog' /\ NoGap'
  BY TypeStep DEF IInv
<1>1. CASE Receive
  BY <1>1, PlaceStep DEF Receive, Goto, worldVars, PlaceOK, IsVerdict, Current, IInv
<1>2. CASE CheckSignatures
  BY <1>2, PlaceStep DEF CheckSignatures, Goto, worldVars, PlaceOK, IsVerdict, CurrentArchived,
                         Current, IInv
<1>3. CASE ArchiveFails \/ Stop \/ Restart
  BY <1>3, PlaceStep DEF ArchiveFails, Stop, Restart, Goto, worldVars, PlaceOK
<1>4. CASE RecordFails
  BY <1>4, PlaceStep DEF RecordFails, Goto, worldVars, PlaceOK, IsVerdict, CurrentArchived,
                         Current, IInv
<1>5. CASE OracleGoes \/ KeySwitched \/ UNCHANGED vars
  BY <1>5, PlaceStep DEF OracleGoes, KeySwitched, vars, PlaceOK, IsVerdict, CurrentArchived,
                         Current, IInv
<1>6. CASE Archive
  BY <1>6, ArchiveStep
<1>7. CASE RecordSignatureCheck
  BY <1>7, RecordStep
<1>8. CASE Checkpoint
  BY <1>8, CheckpointStep
<1>9. ASSUME NEW kind \in Kinds, NEW e \in EvidenceIds \cup {Absent}, Emit(kind, e)
      PROVE  EventsOnce' /\ PlaceOK' /\ RowsFromLog' /\ NoGap'
  BY <1>9, EmitStep
<1> QED
  BY <1>1, <1>2, <1>3, <1>4, <1>5, <1>6, <1>7, <1>8, <1>9 DEF Next, Listener, World

LEMMA Invariance == Spec => []IInv
BY InvInit, InvStep, PTL DEF Spec

-----------------------------------------------------------------------------
(* The theorems.                                                           *)

\* Archive, checkpoint and listener are well typed, and the checkpoint never
\* overtakes the ledger.
THEOREM TypeCorrect == Spec => []TypeOK
BY Invariance, PTL DEF IInv

\* Every verdict the checkpoint has passed is archived with its own event,
\* however many stops, replays and failed writes there were.
THEOREM ArchiveHasNoGap == Spec => []NoGap
BY Invariance, PTL DEF IInv

\* The archive is a prefix of the ledger's verdicts.
THEOREM ArchiveInLedgerOrder == Spec => []ArchivedInLedgerOrder
<1>1. IInv => ArchivedInLedgerOrder
  <2> SUFFICES ASSUME IInv, NEW e \in EvidenceIds, archive[e] # Absent
               PROVE  /\ archive[e].event \in DOMAIN log
                      /\ log[archive[e].event] = [kind |-> "verdict", evidence |-> e]
                      /\ \A i \in 1..(archive[e].event - 1) :
                           IsVerdict(i) => archive[log[i].evidence] # Absent
    BY DEF ArchivedInLedgerOrder
  <2>0. Len(log) \in Nat /\ DOMAIN log = 1..Len(log) /\ checkpoint \in Nat
    BY DEF IInv, TypeOK
  <2>1. archive[e].event \in 1..(checkpoint + 1) /\ archive[e].event <= Len(log)
    BY DEF IInv, RowsFromLog
  <2>2. log[archive[e].event] = [kind |-> "verdict", evidence |-> e]
    BY DEF IInv, RowsFromLog
  <2>3. \A i \in 1..(archive[e].event - 1) : i \in 1..checkpoint
    BY <2>0, <2>1
  <2> QED
    BY <2>0, <2>1, <2>2, <2>3 DEF IInv, NoGap
<1> QED
  BY <1>1, Invariance, PTL
=============================================================================
