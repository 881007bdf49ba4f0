-------------------------- MODULE SupplyChainProofs --------------------------
(***************************************************************************)
(* Theorems about SupplyChain, for any consortium and any number of        *)
(* batches, pieces of evidence and sensors.                                *)
(*                                                                         *)
(* Everything about batches goes through one lemma, BatchStep: whatever    *)
(* transaction runs, a batch is left alone or gets one new record, which   *)
(* is appended to its history and follows from its present one in one of   *)
(* five ways.  That every unsafe verdict is on record counts: the hold     *)
(* records of a history and the unsafe evidence grow together (RecordInv). *)
(***************************************************************************)
EXTENDS SupplyChain, FiniteSetTheorems, TLAPS

RP == INSTANCE StakeholderRegistryProofs

\* How a transaction may follow up the record of a batch: creation, a custody
\* step, a recall, a hold, a resolution.
Follows(old, new) ==
  \/ old = Absent /\ new.status = "CREATED" /\ new.statusBeforeBreach = Absent
  \/ /\ old # Absent
     /\ \/ <<old.status, new.status>> \in CustodyStep
           /\ new.statusBeforeBreach = old.statusBeforeBreach
        \/ /\ old.status # "RECALLED" /\ new.status = "RECALLED"
           /\ new.statusBeforeBreach = old.statusBeforeBreach
        \/ /\ old.status # "RECALLED" /\ new.status = "COLD_CHAIN_BREACH"
           /\ new.statusBeforeBreach = Stage(old)
        \/ /\ old.status = "COLD_CHAIN_BREACH"
           /\ new.statusBeforeBreach = Absent
           /\ new.status = IF old.statusBeforeBreach = Absent
                           THEN "IN_TRANSIT" ELSE old.statusBeforeBreach

\* Nothing happens to a batch but this.
Put(b) == \/ batches'[b] = batches[b] /\ history'[b] = history[b]
          \/ /\ batches'[b] \in Batch
             /\ history'[b] = Append(history[b], batches'[b])
             /\ Follows(batches[b], batches'[b])

\* A batch's history ends with its present record.
HistoryCurrent ==
  \A b \in Batches :
    IF batches[b] = Absent THEN history[b] = <<>>
    ELSE history[b] # <<>> /\ history[b][Len(history[b])] = batches[b]

IInv == TypeOK /\ HoldRemembersStage /\ HistoryCurrent /\ CustodyInOrder

-----------------------------------------------------------------------------
(* Type correctness.                                                       *)

\* To the provers the two instances of a definition are two operators, until
\* both are expanded.
LEMMA SameRegistry == RP!Next <=> Registry!Next
BY Zenon DEF RP!Regulator, Registry!Regulator, RP!Stakeholder, Registry!Stakeholder,
      RP!SensorKey, Registry!SensorKey, RP!Registered, Registry!Registered, RP!KnownCertificate,
      Registry!KnownCertificate, RP!StakeholderByCertificate, Registry!StakeholderByCertificate,
      RP!RequireActiveStakeholder, Registry!RequireActiveStakeholder, RP!RequireActiveRegulator,
      Registry!RequireActiveRegulator, RP!CountReadable, Registry!CountReadable,
      RP!AddRegulator, Registry!AddRegulator, RP!LockoutGuard, Registry!LockoutGuard,
      RP!RemoveRegulator, Registry!RemoveRegulator, RP!CreateStakeholder,
      Registry!CreateStakeholder, RP!PutNewStakeholder, Registry!PutNewStakeholder, RP!Edited,
      Registry!Edited, RP!WithRole, Registry!WithRole, RP!WithActive, Registry!WithActive,
      RP!PutStakeholder, Registry!PutStakeholder, RP!BootstrapRegulator,
      Registry!BootstrapRegulator, RP!RegisterStakeholder, Registry!RegisterStakeholder,
      RP!UpdateStakeholderRole, Registry!UpdateStakeholderRole, RP!SuspendStakeholder,
      Registry!SuspendStakeholder, RP!ReactivateStakeholder, Registry!ReactivateStakeholder,
      RP!NewSensorKey, Registry!NewSensorKey, RP!PutSensorKey, Registry!PutSensorKey,
      RP!RegisterSensorKey, Registry!RegisterSensorKey, RP!RevokeSensorKey,
      Registry!RevokeSensorKey, RP!ReactivateSensorKey, Registry!ReactivateSensorKey,
      RP!StakeholderNext, Registry!StakeholderNext, RP!SensorNext, Registry!SensorNext, RP!Next,
      Registry!Next

LEMMA SameCounting ==
  \A S : /\ RP!IsFiniteSet(S) <=> IsFiniteSet(S)
         /\ RP!Cardinality(S) = Cardinality(S)
         /\ Registry!Cardinality(S) = Cardinality(S)
BY Zenon DEF RP!IsFiniteSet, IsFiniteSet, RP!Cardinality, Registry!Cardinality, Cardinality

\* What the registry's theorems assume.
LEMMA RPAssumptions ==
  /\ RP!Regulator \in Roles
  /\ RegulatorCertificates \subseteq Certificates
  /\ Absent \notin StakeholderIds /\ Absent \notin RP!Stakeholder /\ Absent \notin RP!SensorKey
BY RegistryAssumption DEF RP!Regulator, Registry!Regulator, RP!Stakeholder,
   Registry!Stakeholder, RP!SensorKey, Registry!SensorKey

\* The registry's transactions keep its records typed: the theorem about the
\* registry, for the instance this module talks to.
LEMMA RegistryTyped == Registry!TypeOK /\ [Registry!Next]_registryVars => Registry!TypeOK'
<1>1. RP!TypeOK <=> Registry!TypeOK
  BY DEF RP!TypeOK, Registry!TypeOK, RP!Stakeholder, Registry!Stakeholder, RP!SensorKey,
      Registry!SensorKey
<1>2. RP!TypeOK' <=> Registry!TypeOK'
  BY DEF RP!TypeOK, Registry!TypeOK, RP!Stakeholder, Registry!Stakeholder, RP!SensorKey,
      Registry!SensorKey
<1>3. RP!TypeOK /\ [RP!Next]_(RP!vars) => RP!TypeOK'
  BY RP!TypeStep, RPAssumptions
<1>4. UNCHANGED registryVars => UNCHANGED RP!vars
  BY DEF registryVars, RP!vars
<1> QED
  BY <1>1, <1>2, <1>3, <1>4, SameRegistry

\* An authorised caller has a stakeholder id.
LEMMA CallerTyped ==
  ASSUME Registry!TypeOK, NEW caller \in Certificates, NEW roles, AssertActiveRole(caller, roles)
  PROVE  StakeholderOf(caller) \in StakeholderIds
BY DEF AssertActiveRole, Registry!AssertActiveRole, Registry!KnownCertificate, Registry!TypeOK,
       StakeholderOf

\* What the record helpers make of a batch record.
LEMMA RecordFields ==
  ASSUME NEW by \in StakeholderIds
  PROVE  /\ NewBatch(by) \in Batch
         /\ NewBatch(by).status = "CREATED" /\ NewBatch(by).statusBeforeBreach = Absent
         /\ \A r \in Batch :
              /\ \A status \in Statuses :
                   /\ Moved(r, status, by) \in Batch
                   /\ Moved(r, status, by).status = status
                   /\ Moved(r, status, by).statusBeforeBreach = r.statusBeforeBreach
              /\ Held(r, by) \in Batch
              /\ Held(r, by).status = "COLD_CHAIN_BREACH"
              /\ Held(r, by).statusBeforeBreach = Stage(r)
              /\ Released(r, by) \in Batch
              /\ Released(r, by).statusBeforeBreach = Absent
              /\ Released(r, by).status = IF r.statusBeforeBreach = Absent
                                          THEN "IN_TRANSIT" ELSE r.statusBeforeBreach
<1>1. NewBatch(by) \in Batch /\ NewBatch(by).status = "CREATED"
      /\ NewBatch(by).statusBeforeBreach = Absent
  BY DEF NewBatch, Batch, Statuses, CustodyStages
<1>2. ASSUME NEW r \in Batch, NEW status \in Statuses
      PROVE  /\ Moved(r, status, by) \in Batch
             /\ Moved(r, status, by).status = status
             /\ Moved(r, status, by).statusBeforeBreach = r.statusBeforeBreach
  BY DEF Moved, Batch
<1>3. ASSUME NEW r \in Batch
      PROVE  /\ Held(r, by) \in Batch
             /\ Held(r, by).status = "COLD_CHAIN_BREACH"
             /\ Held(r, by).statusBeforeBreach = Stage(r)
  BY DEF Held, Batch, Stage, Statuses
<1>4. ASSUME NEW r \in Batch
      PROVE  /\ Released(r, by) \in Batch
             /\ Released(r, by).statusBeforeBreach = Absent
             /\ Released(r, by).status = IF r.statusBeforeBreach = Absent
                                         THEN "IN_TRANSIT" ELSE r.statusBeforeBreach
  BY DEF Released, Batch, Statuses, CustodyStages
<1> QED
  BY <1>1, <1>2, <1>3, <1>4

\* Writing one record of a batch.
LEMMA PutBatchFacts ==
  ASSUME TypeOK, NEW b \in Batches, NEW r \in Batch, PutBatch(b, r), Follows(batches[b], r)
  PROVE  /\ batches' \in [Batches -> Batch \cup {Absent}]
         /\ history' \in [Batches -> Seq(Batch)]
         /\ \A x \in Batches : Put(x)
<1>1. /\ batches' = [batches EXCEPT ![b] = r]
      /\ history' = [history EXCEPT ![b] = Append(history[b], r)]
  BY DEF PutBatch
<1>2. Append(history[b], r) \in Seq(Batch)
  BY DEF TypeOK
<1>3. batches'[b] = r /\ history'[b] = Append(history[b], r)
  BY <1>1 DEF TypeOK
<1>4. \A x \in Batches : x # b => batches'[x] = batches[x] /\ history'[x] = history[x]
  BY <1>1 DEF TypeOK
<1> QED
  BY <1>1, <1>2, <1>3, <1>4 DEF TypeOK, Put

\* A step that writes no batch.
LEMMA NoPut ==
  ASSUME TypeOK, UNCHANGED <<batches, history>>
  PROVE  /\ batches' \in [Batches -> Batch \cup {Absent}]
         /\ history' \in [Batches -> Seq(Batch)]
         /\ \A x \in Batches : Put(x)
BY DEF TypeOK, Put

-----------------------------------------------------------------------------
(* One step.                                                               *)

\* What a step does to the chain's own variables.
ChainStep ==
  /\ batches' \in [Batches -> Batch \cup {Absent}]
  /\ history' \in [Batches -> Seq(Batch)]
  /\ evidence' \in [EvidenceIds -> Evidence \cup {Absent}]
  /\ \A x \in Batches : Put(x)

\* The five transactions of the batch lifecycle.
LEMMA LifecycleStep ==
  ASSUME TypeOK, NEW caller \in Certificates, NEW b \in Batches, LifecycleNext(caller, b)
  PROVE  ChainStep /\ UNCHANGED registryVars
<1> DEFINE by == StakeholderOf(caller)
<1>1. batches[b] # Absent => batches[b] \in Batch
  BY DEF TypeOK
<1>2. CASE CreateBatch(caller, b)
  <2>1. by \in StakeholderIds
    BY <1>2, CallerTyped DEF CreateBatch, TypeOK
  <2>2. PutBatch(b, NewBatch(by)) /\ Follows(batches[b], NewBatch(by)) /\ NewBatch(by) \in Batch
    BY <1>2, <2>1, RecordFields DEF CreateBatch, Follows
  <2> QED
    BY <1>2, <2>2, PutBatchFacts DEF CreateBatch, ChainStep, TypeOK
<1>3. ASSUME NEW role, NEW old \in Statuses, NEW new \in Statuses, <<old, new>> \in CustodyStep,
             TransitionBatch(caller, b, role, old, new)
      PROVE  ChainStep /\ UNCHANGED registryVars
  <2> DEFINE r == Moved(batches[b], new, by)
  <2>1. by \in StakeholderIds
    BY <1>3, CallerTyped DEF TransitionBatch, TypeOK
  <2>2. r \in Batch /\ r.status = new /\ r.statusBeforeBreach = batches[b].statusBeforeBreach
    BY <1>1, <1>3, <2>1, RecordFields DEF TransitionBatch
  <2>3. Follows(batches[b], r)
    BY <1>3, <2>2 DEF TransitionBatch, Follows
  <2>4. PutBatch(b, r) /\ UNCHANGED <<registryVars, evidence>>
    BY <1>3 DEF TransitionBatch
  <2> HIDE DEF r
  <2> QED
    BY <2>2, <2>3, <2>4, PutBatchFacts DEF ChainStep, TypeOK
<1>4. CASE RecordProcessingEvent(caller, b)
  BY <1>3, <1>4 DEF RecordProcessingEvent, CustodyStep, Statuses, CustodyStages
<1>5. CASE StartTransport(caller, b)
  BY <1>3, <1>5 DEF StartTransport, CustodyStep, Statuses, CustodyStages
<1>6. CASE RecordDelivery(caller, b)
  BY <1>3, <1>6 DEF RecordDelivery, CustodyStep, Statuses, CustodyStages
<1>7. CASE RecallBatch(caller, b)
  <2> DEFINE r == Moved(batches[b], "RECALLED", by)
  <2>1. by \in StakeholderIds /\ batches[b] \in Batch /\ "RECALLED" \in Statuses
    BY <1>1, <1>7, CallerTyped DEF RecallBatch, TypeOK, Statuses
  <2>2. /\ r \in Batch /\ r.status = "RECALLED"
        /\ r.statusBeforeBreach = batches[b].statusBeforeBreach
    BY <2>1, RecordFields
  <2>3. Follows(batches[b], r)
    BY <1>7, <2>2 DEF RecallBatch, Follows
  <2>4. PutBatch(b, r) /\ UNCHANGED <<registryVars, evidence>>
    BY <1>7 DEF RecallBatch
  <2> HIDE DEF r
  <2> QED
    BY <2>2, <2>3, <2>4, PutBatchFacts DEF ChainStep, TypeOK
<1> QED
  BY <1>2, <1>4, <1>5, <1>6, <1>7 DEF LifecycleNext

\* Submitting evidence: a hold if it is unsafe, no write to the batch if not.
LEMMA EvidenceStep ==
  ASSUME TypeOK, NEW caller \in Certificates, NEW b \in Batches, NEW e \in EvidenceIds,
         NEW hash \in Hashes, NEW s \in Statistics,
         SubmitTemperatureEvidence(caller, e, b, hash, s)
  PROVE  ChainStep /\ UNCHANGED registryVars
<1> DEFINE by == StakeholderOf(caller)
           outcome == DeriveComplianceOutcome(s)
           r == Held(batches[b], by)
           new == [batchId |-> b, evidenceHash |-> hash, complianceOutcome |-> outcome,
                   submittedBy |-> by]
<1>1. by \in StakeholderIds /\ batches[b] \in Batch /\ batches[b] # Absent
  BY CallerTyped DEF SubmitTemperatureEvidence, TypeOK
<1>2. /\ r \in Batch /\ r.status = "COLD_CHAIN_BREACH"
      /\ r.statusBeforeBreach = Stage(batches[b])
  BY <1>1, RecordFields
<1>3. Follows(batches[b], r)
  BY <1>1, <1>2 DEF SubmitTemperatureEvidence, Follows
<1>4. /\ evidence' = [evidence EXCEPT ![e] = new]
      /\ HoldIfUnsafe(b, outcome, by)
      /\ UNCHANGED registryVars
  BY DEF SubmitTemperatureEvidence
<1>5. new \in Evidence
  BY <1>1 DEF Evidence, DeriveComplianceOutcome, Outcomes
<1>6. evidence' \in [EvidenceIds -> Evidence \cup {Absent}]
  BY <1>4, <1>5 DEF TypeOK
<1>7. PutBatch(b, r) \/ UNCHANGED <<batches, history>>
  BY <1>4 DEF HoldIfUnsafe
<1> HIDE DEF r
<1> QED
  BY <1>2, <1>3, <1>4, <1>6, <1>7, PutBatchFacts, NoPut DEF ChainStep

\* Resolving a breach releases the hold.
LEMMA ResolveStep ==
  ASSUME TypeOK, NEW caller \in Certificates, NEW b \in Batches,
         ResolveTemperatureBreach(caller, b)
  PROVE  ChainStep /\ UNCHANGED registryVars
<1> DEFINE by == StakeholderOf(caller)
           r == Released(batches[b], by)
<1>1. by \in StakeholderIds /\ batches[b] \in Batch /\ batches[b] # Absent
  BY CallerTyped DEF ResolveTemperatureBreach, TypeOK
<1>2. /\ r \in Batch /\ r.statusBeforeBreach = Absent
      /\ r.status = IF batches[b].statusBeforeBreach = Absent
                    THEN "IN_TRANSIT" ELSE batches[b].statusBeforeBreach
  BY <1>1, RecordFields
<1>3. Follows(batches[b], r)
  BY <1>1, <1>2 DEF ResolveTemperatureBreach, Follows
<1>4. PutBatch(b, r) /\ UNCHANGED <<registryVars, evidence>>
  BY DEF ResolveTemperatureBreach
<1> HIDE DEF r
<1> QED
  BY <1>2, <1>3, <1>4, PutBatchFacts DEF ChainStep, TypeOK

\* Whatever transaction runs, each batch is left alone or gets one record
\* that follows its present one.
LEMMA BatchStep == TypeOK /\ [Next]_vars => ChainStep /\ TypeOK'
<1> SUFFICES ASSUME TypeOK, [Next]_vars PROVE ChainStep /\ TypeOK'
  OBVIOUS
<1>1. UNCHANGED chainVars => ChainStep
  <2> SUFFICES ASSUME UNCHANGED chainVars PROVE ChainStep
    OBVIOUS
  <2>1. UNCHANGED <<batches, history>> /\ UNCHANGED evidence
    BY DEF chainVars
  <2> QED
    BY <2>1, NoPut DEF ChainStep, TypeOK
<1>2. ChainNext => ChainStep /\ UNCHANGED registryVars
  <2> SUFFICES ASSUME NEW caller \in Certificates, NEW b \in Batches,
                      LifecycleNext(caller, b) \/ ComplianceNext(caller, b)
               PROVE  ChainStep /\ UNCHANGED registryVars
    BY DEF ChainNext
  <2> QED
    BY LifecycleStep, EvidenceStep, ResolveStep DEF ComplianceNext
<1>3. ChainStep /\ [Registry!Next]_registryVars
  BY <1>1, <1>2 DEF Next, RegistryNext, vars
<1>4. Registry!TypeOK'
  BY <1>3, RegistryTyped DEF TypeOK
<1> QED
  BY <1>3, <1>4 DEF TypeOK, ChainStep

\* The empty ledger is typed.
LEMMA InitTyped == Init => TypeOK
<1> SUFFICES ASSUME Init PROVE TypeOK
  OBVIOUS
<1>1. Registry!TypeOK
  BY DEF Init, Registry!Init, Registry!TypeOK
<1> QED
  BY <1>1 DEF Init, TypeOK

\* Every record on the channel is well formed, whichever of the two
\* chaincodes wrote it.
THEOREM TypeCorrect == Spec => []TypeOK
BY InitTyped, BatchStep, PTL DEF Spec

-----------------------------------------------------------------------------
(* Holds and the chain of custody.                                         *)

\* A record that follows one in good order is in good order.
InOrder(record) ==
  /\ record.status = "COLD_CHAIN_BREACH" => record.statusBeforeBreach \in CustodyStages
  /\ record.status \in CustodyStages => record.statusBeforeBreach = Absent

\* The five ways to follow keep a record in order and are legal successors.
LEMMA FollowsInOrder ==
  ASSUME NEW old \in Batch \cup {Absent}, NEW new \in Batch, Follows(old, new),
         old # Absent => InOrder(old)
  PROVE  /\ InOrder(new)
         /\ old = Absent => new.status = "CREATED"
         /\ old # Absent => LegalSuccessor(old, new)
<1> USE DEF CustodyStages
<1>1. CASE old = Absent
  BY <1>1 DEF Follows, InOrder
<1>2. CASE old # Absent
  <2>1. old \in Batch /\ old.status \in Statuses /\ InOrder(old)
    BY <1>2 DEF Batch
  <2>2. CASE <<old.status, new.status>> \in CustodyStep
             /\ new.statusBeforeBreach = old.statusBeforeBreach
    BY <1>2, <2>1, <2>2 DEF InOrder, CustodyStep, LegalSuccessor
  <2>3. CASE /\ old.status # "RECALLED" /\ new.status = "RECALLED"
             /\ new.statusBeforeBreach = old.statusBeforeBreach
    BY <1>2, <2>3 DEF InOrder, LegalSuccessor
  <2>4. CASE /\ old.status # "RECALLED" /\ new.status = "COLD_CHAIN_BREACH"
             /\ new.statusBeforeBreach = Stage(old)
    BY <1>2, <2>1, <2>4 DEF InOrder, LegalSuccessor, Stage, Statuses
  <2>5. CASE /\ old.status = "COLD_CHAIN_BREACH"
             /\ new.statusBeforeBreach = Absent
             /\ new.status = IF old.statusBeforeBreach = Absent
                             THEN "IN_TRANSIT" ELSE old.statusBeforeBreach
    <3>1. old.statusBeforeBreach \in CustodyStages /\ old.statusBeforeBreach # Absent
      BY <2>1, <2>5, ChainAbsentAssumption DEF InOrder, Statuses
    <3> QED
      BY <1>2, <2>5, <3>1 DEF InOrder, LegalSuccessor, Stage
  <2> QED
    BY <1>2, <2>2, <2>3, <2>4, <2>5 DEF Follows
<1> QED
  BY <1>1, <1>2

\* One new record at the end of one history.
LEMMA HistoryStep ==
  ASSUME IInv, ChainStep, NEW b \in Batches
  PROVE  /\ batches'[b] # Absent => InOrder(batches'[b])
         /\ IF batches'[b] = Absent THEN history'[b] = <<>>
            ELSE history'[b] # <<>> /\ history'[b][Len(history'[b])] = batches'[b]
         /\ history'[b] # <<>> => history'[b][1].status = "CREATED"
         /\ \A i \in 1..(Len(history'[b]) - 1) :
              LegalSuccessor(history'[b][i], history'[b][i + 1])
<1> DEFINE h == history[b]
           new == batches'[b]
<1>1. /\ batches[b] \in Batch \cup {Absent} /\ h \in Seq(Batch)
      /\ batches[b] # Absent => InOrder(batches[b])
      /\ IF batches[b] = Absent THEN h = <<>> ELSE h # <<>> /\ h[Len(h)] = batches[b]
      /\ h # <<>> => h[1].status = "CREATED"
      /\ \A i \in 1..(Len(h) - 1) : LegalSuccessor(h[i], h[i + 1])
  BY DEF IInv, TypeOK, HoldRemembersStage, InOrder, HistoryCurrent, CustodyInOrder
<1>2. CASE new = batches[b] /\ history'[b] = h
  BY <1>1, <1>2
<1>3. CASE new \in Batch /\ history'[b] = Append(h, new) /\ Follows(batches[b], new)
  <2>1. /\ InOrder(new)
        /\ batches[b] = Absent => new.status = "CREATED"
        /\ batches[b] # Absent => LegalSuccessor(batches[b], new)
    BY <1>1, <1>3, FollowsInOrder
  <2>2. /\ Len(Append(h, new)) = Len(h) + 1
        /\ Append(h, new)[Len(h) + 1] = new
        /\ \A i \in 1..Len(h) : Append(h, new)[i] = h[i]
        /\ Append(h, new) # <<>> /\ Len(h) \in Nat
    BY <1>1, <1>3
  <2>3. new # Absent
    BY <1>3, ChainAbsentAssumption
  <2>4. Append(h, new)[1].status = "CREATED"
    BY <1>1, <2>1, <2>2
  <2>5. ASSUME NEW i \in 1..Len(h)
        PROVE  LegalSuccessor(Append(h, new)[i], Append(h, new)[i + 1])
    <3>1. CASE i = Len(h)
      BY <1>1, <2>1, <2>2, <3>1
    <3>2. CASE i \in 1..(Len(h) - 1)
      BY <1>1, <2>2, <3>2
    <3> QED
      BY <2>2, <3>1, <3>2
  <2> QED
    BY <1>3, <2>1, <2>2, <2>3, <2>4, <2>5
<1> QED
  BY <1>2, <1>3 DEF ChainStep, Put

\* The invariant holds of the empty ledger, ...
LEMMA InvInit == Init => IInv
BY InitTyped DEF Init, IInv, HoldRemembersStage, HistoryCurrent, CustodyInOrder

\* ... every step keeps it, ...
LEMMA InvStep == IInv /\ [Next]_vars => IInv'
<1> SUFFICES ASSUME IInv, [Next]_vars PROVE IInv'
  OBVIOUS
<1>1. ChainStep /\ TypeOK'
  BY BatchStep DEF IInv
<1>2. HoldRemembersStage'
  BY <1>1, HistoryStep DEF HoldRemembersStage, InOrder
<1>3. HistoryCurrent' /\ CustodyInOrder'
  BY <1>1, HistoryStep DEF HistoryCurrent, CustodyInOrder
<1> QED
  BY <1>1, <1>2, <1>3 DEF IInv

\* ... so it holds for ever.
LEMMA Invariance == Spec => []IInv
BY InvInit, InvStep, PTL DEF Spec

\* A batch on hold always knows the stage to return to, and a batch that
\* moves carries none.
THEOREM HoldsRememberTheirStage == Spec => []HoldRemembersStage
<1>1. IInv => HoldRemembersStage
  BY DEF IInv
<1> QED
  BY <1>1, Invariance, PTL

\* Every history is a chain of custody in order, of any length and with any
\* number of breaches, resolutions and recalls.
THEOREM CustodyAlwaysInOrder == Spec => []CustodyInOrder
<1>1. IInv => CustodyInOrder
  BY DEF IInv
<1> QED
  BY <1>1, Invariance, PTL

-----------------------------------------------------------------------------
(* The registry on the channel.                                            *)

LEMMA RegistryStep == TypeOK /\ [Next]_vars => [Registry!Next]_registryVars
<1> SUFFICES ASSUME TypeOK, [Next]_vars PROVE [Registry!Next]_registryVars
  OBVIOUS
<1>1. ChainNext => UNCHANGED registryVars
  BY LifecycleStep, EvidenceStep, ResolveStep DEF ChainNext, ComplianceNext
<1> QED
  BY <1>1 DEF Next, RegistryNext, vars

\* Sharing the channel with batches and evidence takes nothing from the
\* registry: what SupplyChain does to it is a behaviour of the registry's own
\* specification, so every theorem about the registry holds here too.
THEOREM ImplementsRegistry == Spec => Registry!Spec
<1>1. Init => Registry!Init
  BY DEF Init
<1>2. TypeOK /\ [Next]_vars => [Registry!Next]_(Registry!vars)
  BY RegistryStep DEF registryVars, Registry!vars
<1> QED
  BY <1>1, <1>2, TypeCorrect, PTL DEF Spec, Registry!Spec

-----------------------------------------------------------------------------
(* The abstract custody.                                                   *)

\* A transaction writes the record of one batch only.
LEMMA OneBatch ==
  ASSUME TypeOK, [Next]_vars, batches' # batches
  PROVE  \E b \in Batches : \A x \in Batches \ {b} : batches'[x] = batches[x]
<1>1. ChainNext
  BY DEF Next, RegistryNext, vars, chainVars
<1>2. PICK caller \in Certificates, b \in Batches : LifecycleNext(caller, b) \/ ComplianceNext(caller, b)
  BY <1>1 DEF ChainNext
<1>3. \A r : PutBatch(b, r) => batches' = [batches EXCEPT ![b] = r]
  BY DEF PutBatch
<1>4. (\E r : batches' = [batches EXCEPT ![b] = r]) \/ UNCHANGED batches
  <2>1. LifecycleNext(caller, b) => \E r : PutBatch(b, r)
    BY DEF LifecycleNext, CreateBatch, RecordProcessingEvent, StartTransport, RecordDelivery,
           TransitionBatch, RecallBatch
  <2>2. ComplianceNext(caller, b) => (\E r : PutBatch(b, r)) \/ UNCHANGED batches
    BY DEF ComplianceNext, SubmitTemperatureEvidence, HoldIfUnsafe, ResolveTemperatureBreach
  <2> QED
    BY <1>2, <1>3, <2>1, <2>2
<1> QED
  BY <1>4 DEF TypeOK

\* How the custody of one batch may change with one record.
CustodyOfBatch(b) ==
  LET old == StageOf(b)  new == StageOf(b)' IN
  \/ old = new /\ (b \in OnHold <=> b \in OnHold')
  \/ <<old, new>> \in Custody!NextHand /\ b \notin OnHold /\ b \notin OnHold'
  \/ old = new /\ old \in Custody!Hands /\ b \in OnHold'
  \/ old = new /\ b \in OnHold /\ b \notin OnHold'
  \/ old \in Custody!Hands /\ new = "RECALLED" /\ b \notin OnHold'

\* A record that follows the present one moves the batch as Custody allows.
LEMMA CustodyFollows ==
  ASSUME IInv, ChainStep, NEW b \in Batches
  PROVE  CustodyOfBatch(b)
<1> DEFINE old == batches[b]
           new == batches'[b]
<1> USE DEF StageOf, OnHold, CustodyOfBatch, Custody!Hands, Custody!NextHand, CustodyStages, Stage
<1>1. /\ old \in Batch \cup {Absent}
      /\ old # Absent => InOrder(old) /\ old.status \in Statuses
      /\ new # Absent => InOrder(new)
      /\ Absent \notin Batch \cup Statuses
  <2>1. old # Absent => InOrder(old)
    BY DEF IInv, HoldRemembersStage, InOrder
  <2>2. old \in Batch \cup {Absent} /\ (old # Absent => old.status \in Statuses)
    BY DEF IInv, TypeOK, Batch
  <2> QED
    BY <2>1, <2>2, HistoryStep, ChainAbsentAssumption
<1>2. CASE new = old
  BY <1>2
<1>3. CASE new \in Batch /\ Follows(old, new)
  <2>1. CASE old = Absent /\ new.status = "CREATED" /\ new.statusBeforeBreach = Absent
    BY <1>1, <1>3, <2>1
  <2>2. CASE /\ old # Absent
             /\ <<old.status, new.status>> \in CustodyStep
    BY <1>1, <1>3, <2>2 DEF CustodyStep
  <2>3. CASE old # Absent /\ old.status # "RECALLED" /\ new.status = "RECALLED"
    BY <1>1, <1>3, <2>3 DEF InOrder, Statuses
  <2>4. CASE /\ old # Absent /\ old.status # "RECALLED" /\ new.status = "COLD_CHAIN_BREACH"
             /\ new.statusBeforeBreach = Stage(old)
    BY <1>1, <1>3, <2>4 DEF InOrder, Statuses
  <2>5. CASE /\ old # Absent /\ old.status = "COLD_CHAIN_BREACH"
             /\ new.status = IF old.statusBeforeBreach = Absent
                             THEN "IN_TRANSIT" ELSE old.statusBeforeBreach
    <3>1. old.statusBeforeBreach \in CustodyStages /\ old.statusBeforeBreach # Absent
      BY <1>1, <2>5 DEF InOrder, Statuses
    <3> QED
      BY <1>1, <1>3, <2>5, <3>1
  <2> QED
    BY <1>3, <2>1, <2>2, <2>3, <2>4, <2>5 DEF Follows
<1> QED
  BY <1>2, <1>3 DEF ChainStep, Put

\* The contracts implement the abstract custody: for any number of batches,
\* and whatever else happens on the channel.
THEOREM CustodyImplemented == Spec => ImplementsCustody
<1>1. Init => Custody!Init
  BY DEF Init, Custody!Init, StageOf, OnHold
<1>2. IInv /\ [Next]_vars => [Custody!Next]_(Custody!vars)
  <2> SUFFICES ASSUME IInv, [Next]_vars PROVE [Custody!Next]_(Custody!vars)
    OBVIOUS
  <2> DEFINE stage == [b \in Batches |-> StageOf(b)]
  <2>1. ChainStep /\ TypeOK
    BY BatchStep DEF IInv
  <2>2. CASE batches' = batches
    BY <2>2 DEF Custody!vars, StageOf, OnHold, Stage
  <2>3. CASE batches' # batches
    <3>1. PICK b \in Batches : \A x \in Batches \ {b} : batches'[x] = batches[x]
      BY <2>1, <2>3, OneBatch
    <3>2. stage' = [stage EXCEPT ![b] = StageOf(b)'] /\ stage[b] = StageOf(b)
      BY <3>1 DEF StageOf, Stage
    <3>3. /\ OnHold' = IF b \in OnHold' THEN OnHold \cup {b} ELSE OnHold \ {b}
      BY <3>1 DEF OnHold
    <3>4. stage' = stage \/ StageOf(b)' # StageOf(b)
      BY <3>2
    <3>5. CustodyOfBatch(b)
      BY <2>1, CustodyFollows
    <3>6. CASE StageOf(b) = StageOf(b)' /\ (b \in OnHold <=> b \in OnHold')
      BY <3>3, <3>4, <3>6 DEF Custody!vars
    <3>7. CASE <<StageOf(b), StageOf(b)'>> \in Custody!NextHand /\ b \notin OnHold /\ b \notin OnHold'
      <4>1. StageOf(b)' \in Custody!Hands /\ OnHold' = OnHold
        BY <3>3, <3>7 DEF Custody!NextHand, Custody!Hands
      <4>2. Custody!PassOn(b)
        BY <3>2, <3>7, <4>1, Zenon DEF Custody!PassOn
      <4> QED
        BY <4>2 DEF Custody!Next
    <3>8. CASE StageOf(b) = StageOf(b)' /\ StageOf(b) \in Custody!Hands /\ b \in OnHold'
      BY <3>2, <3>3, <3>4, <3>8 DEF Custody!Next, Custody!Hold, Custody!InHand
    <3>9. CASE StageOf(b) = StageOf(b)' /\ b \in OnHold /\ b \notin OnHold'
      BY <3>3, <3>4, <3>9 DEF Custody!Next, Custody!Lift
    <3>10. CASE StageOf(b) \in Custody!Hands /\ StageOf(b)' = "RECALLED" /\ b \notin OnHold'
      BY <3>2, <3>3, <3>10 DEF Custody!Next, Custody!Recall, Custody!InHand
    <3> QED
      BY <3>5, <3>6, <3>7, <3>8, <3>9, <3>10 DEF CustodyOfBatch
  <2> QED
    BY <2>2, <2>3
<1> QED
  BY <1>1, <1>2, Invariance, PTL DEF Spec, ImplementsCustody, Custody!Spec

-----------------------------------------------------------------------------
(* Every unsafe verdict on record.  The counts agree because no step but   *)
(* unsafe evidence writes an on-hold record, which for the release of a    *)
(* hold is HoldRemembersStage, and because only finitely many pieces of    *)
(* evidence are anchored, however many ids there are.                      *)

HoldRecords(past) == {i \in DOMAIN past : past[i].status = "COLD_CHAIN_BREACH"}

UnsafeFor(b) == {e \in EvidenceIds : /\ evidence[e] # Absent
                                     /\ evidence[e].batchId = b
                                     /\ evidence[e].complianceOutcome = "UNSAFE"}

OnRecord(b) == /\ IsFiniteSet(UnsafeFor(b))
               /\ Cardinality(HoldRecords(history[b])) = Cardinality(UnsafeFor(b))

RecordInv == \A b \in Batches : OnRecord(b)

LEMMA HoldRecordsFinite ==
  ASSUME NEW past \in Seq(Batch)
  PROVE  IsFiniteSet(HoldRecords(past))
<1>1. IsFiniteSet(1..Len(past))
  BY FS_Interval
<1> QED
  BY <1>1, FS_Subset DEF HoldRecords

\* One more record.
LEMMA HoldRecordsOfAppend ==
  ASSUME NEW past \in Seq(Batch), NEW r \in Batch
  PROVE  /\ r.status # "COLD_CHAIN_BREACH" => HoldRecords(Append(past, r)) = HoldRecords(past)
         /\ r.status = "COLD_CHAIN_BREACH" =>
              Cardinality(HoldRecords(Append(past, r))) = Cardinality(HoldRecords(past)) + 1
<1> DEFINE n == Len(past) + 1
<1>1. IsFiniteSet(HoldRecords(past))
  BY HoldRecordsFinite
<1>2. /\ Len(past) \in Nat /\ DOMAIN past = 1..Len(past) /\ DOMAIN Append(past, r) = 1..n
      /\ Append(past, r)[n] = r
      /\ \A i \in 1..Len(past) : Append(past, r)[i] = past[i]
  OBVIOUS
<1>3. /\ n \notin HoldRecords(past)
      /\ HoldRecords(Append(past, r)) =
           IF r.status = "COLD_CHAIN_BREACH" THEN HoldRecords(past) \cup {n} ELSE HoldRecords(past)
  BY <1>2 DEF HoldRecords
<1>4. Cardinality(HoldRecords(past) \cup {n}) = Cardinality(HoldRecords(past)) + 1
  BY <1>1, <1>3, FS_AddElement
<1> QED
  BY <1>3, <1>4

\* A step that anchors nothing and puts nobody on hold.
QuietStep ==
  /\ UNCHANGED evidence
  /\ \A b \in Batches : \/ history'[b] = history[b]
                        \/ \E r \in Batch : /\ r.status # "COLD_CHAIN_BREACH"
                                            /\ history'[b] = Append(history[b], r)

\* A step that anchors one verdict, with the hold it calls for.
VerdictStep ==
  \E e \in EvidenceIds, new \in Evidence :
    /\ evidence[e] = Absent /\ evidence' = [evidence EXCEPT ![e] = new]
    /\ IF new.complianceOutcome = "UNSAFE"
       THEN \E r \in Batch : /\ r.status = "COLD_CHAIN_BREACH"
                             /\ history' = [history EXCEPT ![new.batchId] =
                                              Append(history[new.batchId], r)]
       ELSE UNCHANGED history

LEMMA LifecycleQuiet ==
  ASSUME TypeOK, NEW caller \in Certificates, NEW b \in Batches, LifecycleNext(caller, b)
  PROVE  QuietStep
<1> DEFINE by == StakeholderOf(caller)
<1>1. ASSUME NEW r \in Batch, r.status # "COLD_CHAIN_BREACH", PutBatch(b, r), UNCHANGED evidence
      PROVE  QuietStep
  BY <1>1 DEF PutBatch, QuietStep, TypeOK
<1>2. ASSUME NEW roles, AssertActiveRole(caller, roles)
      PROVE  by \in StakeholderIds
  BY <1>2, CallerTyped DEF TypeOK
<1>3. CASE CreateBatch(caller, b)
  BY <1>1, <1>2, <1>3, RecordFields DEF CreateBatch
<1>4. ASSUME NEW role, NEW old, NEW new \in Statuses, new # "COLD_CHAIN_BREACH",
             TransitionBatch(caller, b, role, old, new)
      PROVE  QuietStep
  <2> DEFINE r == Moved(batches[b], new, by)
  <2>1. by \in StakeholderIds /\ batches[b] \in Batch
    BY <1>2, <1>4 DEF TransitionBatch, TypeOK
  <2>2. r \in Batch /\ r.status # "COLD_CHAIN_BREACH"
    BY <1>4, <2>1, RecordFields
  <2>3. PutBatch(b, r) /\ UNCHANGED evidence
    BY <1>4 DEF TransitionBatch
  <2> HIDE DEF r
  <2> QED
    BY <1>1, <2>2, <2>3
<1>5. CASE RecordProcessingEvent(caller, b) \/ StartTransport(caller, b) \/ RecordDelivery(caller, b)
  BY <1>4, <1>5 DEF RecordProcessingEvent, StartTransport, RecordDelivery, Statuses, CustodyStages
<1>6. CASE RecallBatch(caller, b)
  <2>1. by \in StakeholderIds /\ batches[b] \in Batch /\ "RECALLED" \in Statuses
    BY <1>2, <1>6 DEF RecallBatch, TypeOK, Statuses
  <2> QED
    BY <1>1, <1>6, <2>1, RecordFields DEF RecallBatch
<1> QED
  BY <1>3, <1>5, <1>6 DEF LifecycleNext

LEMMA ResolveQuiet ==
  ASSUME TypeOK, HoldRemembersStage, NEW caller \in Certificates, NEW b \in Batches,
         ResolveTemperatureBreach(caller, b)
  PROVE  QuietStep
<1> DEFINE r == Released(batches[b], StakeholderOf(caller))
<1>1. /\ StakeholderOf(caller) \in StakeholderIds /\ batches[b] \in Batch /\ batches[b] # Absent
      /\ batches[b].status = "COLD_CHAIN_BREACH"
  BY CallerTyped DEF ResolveTemperatureBreach, TypeOK
<1>2. batches[b].statusBeforeBreach \in CustodyStages
  BY <1>1 DEF HoldRemembersStage
<1>3. r \in Batch /\ r.status # "COLD_CHAIN_BREACH"
  BY <1>1, <1>2, RecordFields DEF CustodyStages
<1>4. PutBatch(b, r) /\ UNCHANGED evidence
  BY DEF ResolveTemperatureBreach
<1> HIDE DEF r
<1> QED
  BY <1>3, <1>4 DEF PutBatch, QuietStep, TypeOK

LEMMA EvidenceVerdict ==
  ASSUME TypeOK, NEW caller \in Certificates, NEW b \in Batches, NEW e \in EvidenceIds,
         NEW hash \in Hashes, NEW s \in Statistics,
         SubmitTemperatureEvidence(caller, e, b, hash, s)
  PROVE  VerdictStep
<1> DEFINE by == StakeholderOf(caller)
           outcome == DeriveComplianceOutcome(s)
           r == Held(batches[b], by)
           new == [batchId |-> b, evidenceHash |-> hash, complianceOutcome |-> outcome,
                   submittedBy |-> by]
<1>1. by \in StakeholderIds /\ batches[b] \in Batch
  BY CallerTyped DEF SubmitTemperatureEvidence, TypeOK
<1>2. r \in Batch /\ r.status = "COLD_CHAIN_BREACH"
  BY <1>1, RecordFields
<1>3. new \in Evidence /\ new.batchId = b /\ new.complianceOutcome = outcome
  BY <1>1 DEF Evidence, DeriveComplianceOutcome, Outcomes
<1>4. /\ evidence[e] = Absent /\ evidence' = [evidence EXCEPT ![e] = new]
      /\ HoldIfUnsafe(b, outcome, by)
  BY DEF SubmitTemperatureEvidence
<1>5. IF outcome = "UNSAFE" THEN history' = [history EXCEPT ![b] = Append(history[b], r)]
                            ELSE UNCHANGED history
  BY <1>4 DEF HoldIfUnsafe, PutBatch
<1> HIDE DEF r, new, outcome
<1> QED
  BY <1>2, <1>3, <1>4, <1>5 DEF VerdictStep

LEMMA QuietOrVerdict == IInv /\ [Next]_vars => QuietStep \/ VerdictStep
<1> SUFFICES ASSUME IInv, [Next]_vars PROVE QuietStep \/ VerdictStep
  OBVIOUS
<1>1. TypeOK /\ HoldRemembersStage
  BY DEF IInv
<1>2. CASE UNCHANGED chainVars
  BY <1>2 DEF chainVars, QuietStep
<1>3. CASE ChainNext
  BY <1>1, <1>3, LifecycleQuiet, ResolveQuiet, EvidenceVerdict DEF ChainNext, ComplianceNext
<1> QED
  BY <1>2, <1>3 DEF Next, RegistryNext, vars

LEMMA QuietKeeps ==
  ASSUME TypeOK, QuietStep, NEW b \in Batches, OnRecord(b)
  PROVE  OnRecord(b)'
<1>1. history[b] \in Seq(Batch)
  BY DEF TypeOK
<1>2. HoldRecords(history'[b]) = HoldRecords(history[b])
  BY <1>1, HoldRecordsOfAppend DEF QuietStep
<1>3. UnsafeFor(b)' = UnsafeFor(b)
  BY DEF QuietStep, UnsafeFor
<1>4. HoldRecords(history[b])' = HoldRecords(history'[b])
  BY DEF HoldRecords
<1> QED
  BY <1>2, <1>3, <1>4 DEF OnRecord

LEMMA VerdictKeeps ==
  ASSUME TypeOK, VerdictStep, NEW b \in Batches, OnRecord(b)
  PROVE  OnRecord(b)'
<1>1. PICK e \in EvidenceIds, new \in Evidence :
        /\ evidence[e] = Absent /\ evidence' = [evidence EXCEPT ![e] = new]
        /\ IF new.complianceOutcome = "UNSAFE"
           THEN \E r \in Batch : /\ r.status = "COLD_CHAIN_BREACH"
                                 /\ history' = [history EXCEPT ![new.batchId] =
                                                  Append(history[new.batchId], r)]
           ELSE UNCHANGED history
  BY DEF VerdictStep
<1>2. new # Absent /\ new.batchId \in Batches
  BY ChainAbsentAssumption DEF Evidence
<1>3. evidence'[e] = new /\ \A x \in EvidenceIds : x # e => evidence'[x] = evidence[x]
  BY <1>1 DEF TypeOK
<1>4. e \notin UnsafeFor(b)
  BY <1>1 DEF UnsafeFor
<1>5. history[b] \in Seq(Batch) /\ HoldRecords(history[b])' = HoldRecords(history'[b])
  BY DEF TypeOK, HoldRecords
<1>6. CASE new.complianceOutcome = "UNSAFE" /\ new.batchId = b
  <2>1. UnsafeFor(b)' = UnsafeFor(b) \cup {e}
    BY <1>2, <1>3, <1>6 DEF UnsafeFor
  <2>2. IsFiniteSet(UnsafeFor(b)') /\ Cardinality(UnsafeFor(b)') = Cardinality(UnsafeFor(b)) + 1
    BY <1>4, <2>1, FS_AddElement DEF OnRecord
  <2>3. PICK r \in Batch : r.status = "COLD_CHAIN_BREACH" /\ history'[b] = Append(history[b], r)
    BY <1>1, <1>6 DEF TypeOK
  <2>4. Cardinality(HoldRecords(history'[b])) = Cardinality(HoldRecords(history[b])) + 1
    BY <1>5, <2>3, HoldRecordsOfAppend
  <2> QED
    BY <1>5, <2>2, <2>4 DEF OnRecord
<1>7. CASE ~(new.complianceOutcome = "UNSAFE" /\ new.batchId = b)
  <2>1. UnsafeFor(b)' = UnsafeFor(b)
    BY <1>1, <1>3, <1>7 DEF UnsafeFor
  <2>2. history'[b] = history[b]
    BY <1>1, <1>2, <1>7 DEF TypeOK
  <2> QED
    BY <1>5, <2>1, <2>2 DEF OnRecord
<1> QED
  BY <1>6, <1>7

LEMMA RecordInit == Init => RecordInv
<1> SUFFICES ASSUME Init, NEW b \in Batches PROVE OnRecord(b)
  BY DEF RecordInv
<1>1. HoldRecords(history[b]) = {} /\ UnsafeFor(b) = {}
  BY DEF Init, HoldRecords, UnsafeFor
<1> QED
  BY <1>1, FS_EmptySet DEF OnRecord

LEMMA RecordStep == IInv /\ RecordInv /\ [Next]_vars => RecordInv'
BY QuietOrVerdict, QuietKeeps, VerdictKeeps DEF IInv, RecordInv

LEMMA RecordCounts == RecordInv => UnsafeEvidenceOnRecord
BY DEF RecordInv, OnRecord, HoldRecords, UnsafeFor, UnsafeEvidenceOnRecord

\* No unsafe verdict passes without a trace on its batch, and no batch is put
\* on hold without a verdict: the ledger history holds one on-hold record for
\* each of them.
THEOREM UnsafeVerdictsOnRecord == Spec => []UnsafeEvidenceOnRecord
BY RecordCounts, RecordInit, RecordStep, Invariance, PTL DEF Spec

-----------------------------------------------------------------------------
(* The seeded ledger.                                                      *)

\* A consortium as seed.sh puts it on the ledger: companies with certificates
\* of their own, one of them the regulator, and keys for all sensors.
Consortium(regulator, certificateOf, roleOf, keyOf) ==
  /\ DOMAIN roleOf \subseteq StakeholderIds /\ IsFiniteSet(DOMAIN roleOf)
  /\ \A id \in DOMAIN roleOf : roleOf[id] \in Roles /\ certificateOf[id] \in Certificates
  /\ \A id, other \in DOMAIN roleOf : certificateOf[id] = certificateOf[other] => id = other
  /\ regulator \in DOMAIN roleOf /\ roleOf[regulator] = "REGULATOR"
  /\ \A s \in Sensors : keyOf[s] \in PublicKeys

\* The index leads from each company's certificate to the company.
LEMMA SeededIndex ==
  ASSUME NEW regulator, NEW certificateOf, NEW roleOf, NEW keyOf,
         Consortium(regulator, certificateOf, roleOf, keyOf),
         SeededInit(regulator, certificateOf, roleOf, keyOf)
  PROVE  /\ \A id \in DOMAIN roleOf : certificates[certificateOf[id]] = id
         /\ \A c \in Certificates :
              \/ certificates[c] = Absent
              \/ certificates[c] \in DOMAIN roleOf /\ certificateOf[certificates[c]] = c
         /\ certificates \in [Certificates -> StakeholderIds \cup {Absent}]
<1> USE DEF Consortium
<1> DEFINE owner(c) == CHOOSE id \in DOMAIN roleOf : certificateOf[id] = c
<1>1. certificates = [c \in Certificates |->
        IF \E id \in DOMAIN roleOf : certificateOf[id] = c THEN owner(c) ELSE Absent]
  BY DEF SeededInit
<1>2. \A c : (\E id \in DOMAIN roleOf : certificateOf[id] = c) =>
        owner(c) \in DOMAIN roleOf /\ certificateOf[owner(c)] = c
  OBVIOUS
<1> HIDE DEF owner
<1>3. \A id \in DOMAIN roleOf : owner(certificateOf[id]) = id
  BY <1>2
<1> QED
  BY <1>1, <1>2, <1>3

\* The records, and who is on the ledger.
LEMMA SeededRecords ==
  ASSUME NEW regulator, NEW certificateOf, NEW roleOf, NEW keyOf,
         Consortium(regulator, certificateOf, roleOf, keyOf),
         SeededInit(regulator, certificateOf, roleOf, keyOf)
  PROVE  /\ \A id \in DOMAIN roleOf :
              /\ stakeholders[id] \in Registry!Stakeholder
              /\ stakeholders[id].role = roleOf[id] /\ stakeholders[id].active
              /\ stakeholders[id].certificateId = certificateOf[id]
              /\ stakeholders[id].createdBy = certificateOf[regulator]
         /\ stakeholders \in [StakeholderIds -> Registry!Stakeholder \cup {Absent}]
         /\ RP!Registered = DOMAIN roleOf
<1> USE DEF Consortium
<1>1. \A id \in StakeholderIds : stakeholders[id] =
        IF id \in DOMAIN roleOf
        THEN Registry!CreateStakeholder(roleOf[id], certificateOf[id], certificateOf[regulator])
        ELSE Absent
  BY DEF SeededInit
<1>2. \A id \in DOMAIN roleOf :
        Registry!CreateStakeholder(roleOf[id], certificateOf[id], certificateOf[regulator])
          \in Registry!Stakeholder
  BY DEF Registry!CreateStakeholder, Registry!Stakeholder
<1>3. \A id \in DOMAIN roleOf :
        /\ stakeholders[id] \in Registry!Stakeholder
        /\ stakeholders[id].role = roleOf[id] /\ stakeholders[id].active
        /\ stakeholders[id].certificateId = certificateOf[id]
        /\ stakeholders[id].createdBy = certificateOf[regulator]
  <2> TAKE id \in DOMAIN roleOf
  <2>1. stakeholders[id] =
          Registry!CreateStakeholder(roleOf[id], certificateOf[id], certificateOf[regulator])
    BY <1>1
  <2> QED
    BY <1>2, <2>1 DEF Registry!CreateStakeholder
<1>4. stakeholders \in [StakeholderIds -> Registry!Stakeholder \cup {Absent}]
  BY <1>1, <1>2 DEF SeededInit
<1>5. Absent \notin Registry!Stakeholder
  BY RegistryAssumption
<1> QED
  BY <1>1, <1>3, <1>4, <1>5 DEF RP!Registered

\* What the two contracts maintain together.
Good == IInv /\ RecordInv /\ RP!IInv /\ RP!VouchInv

\* A completed seeding leaves a ledger with every invariant of both contracts.
THEOREM SeededLedgerIsGood ==
  ASSUME NEW regulator, NEW certificateOf, NEW roleOf, NEW keyOf,
         Consortium(regulator, certificateOf, roleOf, keyOf),
         SeededInit(regulator, certificateOf, roleOf, keyOf)
  PROVE  Good
<1>1. /\ \A id \in DOMAIN roleOf : certificates[certificateOf[id]] = id
      /\ \A c \in Certificates :
           \/ certificates[c] = Absent
           \/ certificates[c] \in DOMAIN roleOf /\ certificateOf[certificates[c]] = c
      /\ certificates \in [Certificates -> StakeholderIds \cup {Absent}]
  BY SeededIndex
<1>2. /\ \A id \in DOMAIN roleOf :
           /\ stakeholders[id] \in Registry!Stakeholder
           /\ stakeholders[id].role = roleOf[id] /\ stakeholders[id].active
           /\ stakeholders[id].certificateId = certificateOf[id]
           /\ stakeholders[id].createdBy = certificateOf[regulator]
      /\ stakeholders \in [StakeholderIds -> Registry!Stakeholder \cup {Absent}]
      /\ RP!Registered = DOMAIN roleOf
  BY SeededRecords
<1>3. regulator \in DOMAIN roleOf /\ certificateOf[regulator] \in Certificates
      /\ certificates[certificateOf[regulator]] = regulator /\ regulator \in StakeholderIds
  BY <1>1 DEF Consortium
<1>4. RP!ActiveRegulators = {id \in DOMAIN roleOf : roleOf[id] = "REGULATOR"}
  BY <1>2 DEF RP!ActiveRegulators, RP!Regulator
<1>5. IsFiniteSet(RP!ActiveRegulators) /\ regulator \in RP!ActiveRegulators
  BY <1>3, <1>4, FS_Subset DEF Consortium
<1>6. initialised /\ activeRegulatorCount = Cardinality(RP!ActiveRegulators)
  BY <1>4 DEF SeededInit
<1>7. activeRegulatorCount \in Nat /\ activeRegulatorCount >= 1
  BY <1>5, <1>6, FS_CardinalityType, FS_EmptySet
<1>8. sensorKeys \in [Sensors -> Registry!SensorKey \cup {Absent}]
  <2>1. \A s \in Sensors :
          Registry!NewSensorKey(keyOf[s], certificateOf[regulator]) \in Registry!SensorKey
    BY <1>3 DEF Registry!NewSensorKey, Registry!SensorKey, Consortium
  <2> QED
    BY <2>1 DEF SeededInit
<1>9. TypeOK
  <2>1. Registry!TypeOK
    BY <1>1, <1>2, <1>6, <1>7, <1>8 DEF Registry!TypeOK
  <2> QED
    BY <2>1 DEF TypeOK, SeededInit
<1>10. IInv
  BY <1>9 DEF SeededInit, IInv, HoldRemembersStage, HistoryCurrent, CustodyInOrder
<1>11. RecordInv
  <2> SUFFICES ASSUME NEW b \in Batches PROVE OnRecord(b)
    BY DEF RecordInv
  <2>1. HoldRecords(history[b]) = {} /\ UnsafeFor(b) = {}
    BY DEF SeededInit, HoldRecords, UnsafeFor
  <2> QED
    BY <2>1, FS_EmptySet DEF OnRecord
<1>12. RP!IInv
  <2>1. RP!TypeOK
    BY <1>9 DEF TypeOK, RP!TypeOK, Registry!TypeOK, RP!Stakeholder, Registry!Stakeholder,
           RP!SensorKey, Registry!SensorKey
  <2>2. RP!IndexConsistent
    BY <1>1, <1>2 DEF RP!IndexConsistent
  <2>3. RP!CountInv
    BY <1>5, <1>6, <1>7, SameCounting DEF RP!CountInv, RP!CountMatches, RP!EmptyUntilBootstrap
  <2> QED
    BY <2>1, <2>2, <2>3 DEF RP!IInv
<1>13. RP!VouchInv
  <2>1. \A id \in RP!Registered : RP!Voucher(id) = regulator
    BY <1>2, <1>3 DEF RP!Voucher
  <2>2. RP!VouchersKnown /\ RP!Roots = {regulator}
    BY <1>2, <1>3, <2>1 DEF RP!VouchersKnown, RP!Roots
  <2>3. \A group \in (SUBSET RP!Registered) \ {{}} : RP!Closed(group) => regulator \in group
    BY <2>1 DEF RP!Closed
  <2> QED
    BY <1>2, <1>3, <2>2, <2>3 DEF RP!VouchInv
<1> QED
  BY <1>10, <1>11, <1>12, <1>13 DEF Good

\* Each keeps its own part, whichever of the two a transaction is sent to.
LEMMA GoodStep == Good /\ [Next]_vars => Good'
<1> SUFFICES ASSUME Good, [Next]_vars PROVE Good'
  OBVIOUS
<1>1. IInv' /\ RecordInv'
  BY InvStep, RecordStep DEF Good
<1>2. [Registry!Next]_registryVars
  BY RegistryStep DEF Good, IInv
<1>3. [RP!Next]_(RP!vars)
  BY <1>2, SameRegistry DEF registryVars, RP!vars
<1>4. RP!IInv' /\ RP!VouchInv'
  BY <1>3, RP!InvStep, RP!VouchStep, RPAssumptions DEF Good
<1> QED
  BY <1>1, <1>4 DEF Good

\* It implies what the runs check of both.
LEMMA GoodMeans ==
  Good => /\ TypeOK /\ HoldRemembersStage /\ CustodyInOrder /\ UnsafeEvidenceOnRecord
          /\ Registry!IndexConsistent /\ Registry!CountMatches
          /\ Registry!NoLockout /\ Registry!VouchedFor
<1>1. Good => TypeOK /\ HoldRemembersStage /\ CustodyInOrder /\ UnsafeEvidenceOnRecord
  BY RecordCounts DEF Good, IInv
<1>2. Good => RP!IndexConsistent /\ RP!CountMatches /\ RP!NoLockout /\ RP!VouchedFor
  BY RP!InvLockout, RP!VouchInvVouches, RPAssumptions DEF Good, RP!IInv, RP!CountInv
<1>3. /\ RP!Registered = Registry!Registered
      /\ RP!ActiveRegulators = Registry!ActiveRegulators
      /\ RP!Roots = Registry!Roots
      /\ \A id : RP!Voucher(id) = Registry!Voucher(id)
  BY DEF RP!Voucher, Registry!Voucher, RP!Roots, Registry!Roots, RP!ActiveRegulators,
         Registry!ActiveRegulators, RP!Registered, Registry!Registered, RP!Regulator,
         Registry!Regulator
<1>4. /\ RP!IndexConsistent => Registry!IndexConsistent
      /\ RP!CountMatches => Registry!CountMatches
      /\ RP!NoLockout => Registry!NoLockout
      /\ RP!VouchedFor => Registry!VouchedFor
  BY <1>3, SameCounting, Zenon
  DEF RP!IndexConsistent, Registry!IndexConsistent, RP!CountMatches, Registry!CountMatches,
      RP!NoLockout, Registry!NoLockout, RP!VouchedFor, Registry!VouchedFor
<1> QED
  BY <1>1, <1>2, <1>4

\* Hence a seeded consortium keeps what the theorems above say of an empty
\* ledger, and is never locked out.
THEOREM SeededSystemStaysGood ==
  ASSUME NEW CONSTANT regulator, NEW CONSTANT certificateOf, NEW CONSTANT roleOf,
         NEW CONSTANT keyOf, Consortium(regulator, certificateOf, roleOf, keyOf)
  PROVE  SeededInit(regulator, certificateOf, roleOf, keyOf) /\ [][Next]_vars =>
           []( /\ TypeOK /\ HoldRemembersStage /\ CustodyInOrder /\ UnsafeEvidenceOnRecord
               /\ Registry!IndexConsistent /\ Registry!CountMatches
               /\ Registry!NoLockout /\ Registry!VouchedFor)
BY SeededLedgerIsGood, GoodStep, GoodMeans, PTL

==============================================================================
