---------------------------- MODULE SupplyChain ----------------------------
(***************************************************************************)
(* The two chaincodes of the channel together: the stakeholder registry    *)
(* and the supply-chain chaincode with its two contracts, batch lifecycle  *)
(* and temperature compliance, which asks the registry to authorise every  *)
(* caller (fabric/chaincode/supplychain/src).                              *)
(*                                                                         *)
(* As in StakeholderRegistry, an action is one whole committed             *)
(* transaction.  `history` is the key history Fabric keeps for a batch:    *)
(* every putBatch adds its record, nothing is ever removed.                *)
(*                                                                         *)
(* Left out: origin, location, reasons and time stamps, which are stored   *)
(* for display and decide nothing.  Of a batch's statistics the module     *)
(* keeps what the contract does with them, the derived outcome.            *)
(***************************************************************************)
EXTENDS Integers, Sequences, FiniteSets

CONSTANTS
  StakeholderIds, Certificates, RegulatorCertificates, Roles, Sensors, PublicKeys, Absent,
  Batches,                 \* batch ids
  EvidenceIds,             \* ids of temperature evidence
  Hashes,                  \* well-formed SHA-256 values
  Statistics               \* [minCelsius, maxCelsius] pairs parseStatistics accepts

VARIABLES
  initialised, activeRegulatorCount, stakeholders, certificates, sensorKeys,
  batches,                 \* the records under the batch prefix
  history,                 \* batch id -> every record it ever had, oldest first
  evidence                 \* the records under the temperatureEvidence prefix

Registry == INSTANCE StakeholderRegistry

registryVars == <<initialised, activeRegulatorCount, stakeholders, certificates, sensorKeys>>
chainVars == <<batches, history, evidence>>
vars == <<registryVars, chainVars>>

CustodyStages == {"CREATED", "PROCESSED", "IN_TRANSIT", "DELIVERED"}
Statuses == CustodyStages \cup {"COLD_CHAIN_BREACH", "RECALLED"}
Outcomes == {"COMPLIANT", "UNSAFE"}

Batch ==
  [status : Statuses, statusBeforeBreach : Statuses \cup {Absent},
   createdBy : StakeholderIds, lastUpdatedBy : StakeholderIds]

Evidence ==
  [batchId : Batches, evidenceHash : Hashes, complianceOutcome : Outcomes,
   submittedBy : StakeholderIds]

ASSUME StatisticsAssumption ==
  Statistics \subseteq {s \in [minCelsius : Int, maxCelsius : Int] : s.minCelsius <= s.maxCelsius}

\* The registry's own assumptions, which INSTANCE does not bring along.
ASSUME RegistryAssumption ==
  /\ Registry!Regulator \in Roles
  /\ RegulatorCertificates \subseteq Certificates
  /\ Absent \notin StakeholderIds \cup Registry!Stakeholder \cup Registry!SensorKey

ASSUME ChainAbsentAssumption == Absent \notin Batch \cup Evidence \cup Statuses

TypeOK ==
  /\ Registry!TypeOK
  /\ batches \in [Batches -> Batch \cup {Absent}]
  /\ history \in [Batches -> Seq(Batch)]
  /\ evidence \in [EvidenceIds -> Evidence \cup {Absent}]

-----------------------------------------------------------------------------
(* Authorisation, and the record helpers.                                  *)

\* assertActiveRole of stakeholderClient: the invoker asks the registry
\* about its own certificate.
AssertActiveRole(caller, allowedRoles) == Registry!AssertActiveRole(caller, caller, allowedRoles)

\* Defect: records are signed with the certificate that asked.
StakeholderOf_Certificate(caller) == caller

\* The id the registry answers with, recorded in what the caller writes.
StakeholderOf(caller) == certificates[caller]

MinSafeCelsius == 0
MaxSafeCelsius == 5

DeriveComplianceOutcome(s) ==
  IF s.minCelsius >= MinSafeCelsius /\ s.maxCelsius <= MaxSafeCelsius
  THEN "COMPLIANT" ELSE "UNSAFE"

PutBatch(b, record) ==
  /\ batches' = [batches EXCEPT ![b] = record]
  /\ history' = [history EXCEPT ![b] = Append(@, record)]

NewBatch(creator) ==
  [status |-> "CREATED", statusBeforeBreach |-> Absent,
   createdBy |-> creator, lastUpdatedBy |-> creator]

\* A custody step: the record moves on and names who moved it.
Moved(record, status, by) == [record EXCEPT !.status = status, !.lastUpdatedBy = by]

\* Defect: a second breach remembers the hold as the interrupted stage.
Held_ForgetsStage(record, by) ==
  [record EXCEPT !.status = "COLD_CHAIN_BREACH", !.statusBeforeBreach = record.status,
                 !.lastUpdatedBy = by]

\* A breach interrupts a stage once; further breaches keep the first stage.
Held(record, by) ==
  [record EXCEPT !.status = "COLD_CHAIN_BREACH",
                 !.statusBeforeBreach = IF record.status = "COLD_CHAIN_BREACH"
                                        THEN record.statusBeforeBreach ELSE record.status,
                 !.lastUpdatedBy = by]

\* Defect: the hold is lifted to transport, whatever it interrupted.
Released_ToTransport(record, by) ==
  [record EXCEPT !.status = "IN_TRANSIT", !.statusBeforeBreach = Absent, !.lastUpdatedBy = by]

\* A resolved breach returns the batch to the stage it interrupted, with
\* transport as the fallback for a record that names none.
Released(record, by) ==
  [record EXCEPT !.status = IF record.statusBeforeBreach = Absent
                            THEN "IN_TRANSIT" ELSE record.statusBeforeBreach,
                 !.statusBeforeBreach = Absent,
                 !.lastUpdatedBy = by]

-----------------------------------------------------------------------------
(* BatchLifecycleContract.                                                 *)

CreateBatch(caller, b) ==
  /\ AssertActiveRole(caller, {"FARM"})
  /\ batches[b] = Absent
  /\ PutBatch(b, NewBatch(StakeholderOf(caller)))
  /\ UNCHANGED <<registryVars, evidence>>

\* Defect: the stage is compared where the hold began, not where the batch is.
TransitionBatch_DuringHold(caller, b, role, expectedStatus, nextStatus) ==
  /\ AssertActiveRole(caller, {role})
  /\ batches[b] # Absent
  /\ expectedStatus \in {batches[b].status, batches[b].statusBeforeBreach}
  /\ PutBatch(b, Moved(batches[b], nextStatus, StakeholderOf(caller)))
  /\ UNCHANGED <<registryVars, evidence>>

TransitionBatch(caller, b, role, expectedStatus, nextStatus) ==
  /\ AssertActiveRole(caller, {role})
  /\ batches[b] # Absent
  /\ batches[b].status = expectedStatus
  /\ PutBatch(b, Moved(batches[b], nextStatus, StakeholderOf(caller)))
  /\ UNCHANGED <<registryVars, evidence>>

RecordProcessingEvent(caller, b) ==
  TransitionBatch(caller, b, "PROCESSOR", "CREATED", "PROCESSED")

StartTransport(caller, b) ==
  TransitionBatch(caller, b, "LOGISTICS", "PROCESSED", "IN_TRANSIT")

RecordDelivery(caller, b) ==
  TransitionBatch(caller, b, "RETAILER", "IN_TRANSIT", "DELIVERED")

\* A recall is final and keeps every other field, also a remembered stage.
RecallBatch(caller, b) ==
  /\ AssertActiveRole(caller, {"REGULATOR"})
  /\ batches[b] # Absent
  /\ batches[b].status # "RECALLED"
  /\ PutBatch(b, Moved(batches[b], "RECALLED", StakeholderOf(caller)))
  /\ UNCHANGED <<registryVars, evidence>>

-----------------------------------------------------------------------------
(* TemperatureComplianceContract.                                          *)

\* Defect: a batch that is on hold already is not written again.
HoldIfUnsafe_OnceOnly(b, outcome, by) ==
  IF outcome = "UNSAFE" /\ batches[b].status # "COLD_CHAIN_BREACH"
  THEN PutBatch(b, Held(batches[b], by))
  ELSE UNCHANGED <<batches, history>>

HoldIfUnsafe(b, outcome, by) ==
  IF outcome = "UNSAFE" THEN PutBatch(b, Held(batches[b], by))
                        ELSE UNCHANGED <<batches, history>>

SubmitTemperatureEvidence(caller, e, b, hash, statistics) ==
  LET outcome == DeriveComplianceOutcome(statistics) IN
  /\ AssertActiveRole(caller, {"ORACLE"})
  /\ evidence[e] = Absent
  /\ batches[b] # Absent
  /\ batches[b].status # "RECALLED"
  /\ evidence' = [evidence EXCEPT ![e] =
       [batchId |-> b, evidenceHash |-> hash, complianceOutcome |-> outcome,
        submittedBy |-> StakeholderOf(caller)]]
  /\ HoldIfUnsafe(b, outcome, StakeholderOf(caller))
  /\ UNCHANGED registryVars

ResolveTemperatureBreach(caller, b) ==
  /\ AssertActiveRole(caller, {"REGULATOR"})
  /\ batches[b] # Absent
  /\ batches[b].status = "COLD_CHAIN_BREACH"
  /\ PutBatch(b, Released(batches[b], StakeholderOf(caller)))
  /\ UNCHANGED <<registryVars, evidence>>

-----------------------------------------------------------------------------

Init ==
  /\ Registry!Init
  /\ batches = [b \in Batches |-> Absent]
  /\ history = [b \in Batches |-> <<>>]
  /\ evidence = [e \in EvidenceIds |-> Absent]

\* The ledger as the network's seeding leaves it: the regulator has
\* bootstrapped the registry, registered the identities of `roleOf` under the
\* certificates of `certificateOf`, and put one public key of every sensor on
\* the ledger; no batch exists yet.
SeededInit(regulator, certificateOf, roleOf, keyOf) ==
  LET by == certificateOf[regulator] IN
  /\ initialised = TRUE
  /\ activeRegulatorCount = Cardinality({id \in DOMAIN roleOf : roleOf[id] = "REGULATOR"})
  /\ stakeholders = [id \in StakeholderIds |->
       IF id \in DOMAIN roleOf
       THEN Registry!CreateStakeholder(roleOf[id], certificateOf[id], by) ELSE Absent]
  /\ certificates = [c \in Certificates |->
       IF \E id \in DOMAIN roleOf : certificateOf[id] = c
       THEN CHOOSE id \in DOMAIN roleOf : certificateOf[id] = c ELSE Absent]
  /\ sensorKeys = [s \in Sensors |-> Registry!NewSensorKey(keyOf[s], by)]
  /\ batches = [b \in Batches |-> Absent]
  /\ history = [b \in Batches |-> <<>>]
  /\ evidence = [e \in EvidenceIds |-> Absent]

LifecycleNext(caller, b) ==
  \/ CreateBatch(caller, b)
  \/ RecordProcessingEvent(caller, b)
  \/ StartTransport(caller, b)
  \/ RecordDelivery(caller, b)
  \/ RecallBatch(caller, b)

ComplianceNext(caller, b) ==
  \/ \E e \in EvidenceIds, hash \in Hashes, s \in Statistics :
       SubmitTemperatureEvidence(caller, e, b, hash, s)
  \/ ResolveTemperatureBreach(caller, b)

ChainNext ==
  \E caller \in Certificates, b \in Batches : LifecycleNext(caller, b) \/ ComplianceNext(caller, b)

RegistryNext == Registry!Next /\ UNCHANGED chainVars

Next == RegistryNext \/ ChainNext

Spec == Init /\ [][Next]_vars

-----------------------------------------------------------------------------
(* Properties.                                                             *)

\* A batch on hold knows the custody stage it was taken from, however many
\* breaches were reported during the hold, and a batch that moves freely
\* carries no stage left over from an earlier hold: the "transport" fallback
\* of resolveTemperatureBreach is never the stage of a batch on this ledger.
HoldRemembersStage ==
  \A b \in Batches : batches[b] # Absent =>
    /\ batches[b].status = "COLD_CHAIN_BREACH" => batches[b].statusBeforeBreach \in CustodyStages
    /\ batches[b].status \in CustodyStages => batches[b].statusBeforeBreach = Absent

\* The custody stage a record stands for, behind a hold if there is one.
Stage(record) ==
  IF record.status = "COLD_CHAIN_BREACH" THEN record.statusBeforeBreach ELSE record.status

\* The ledger as the abstract custody of Custody: the stage of every record,
\* behind its hold, and the batches on hold.
StageOf(b) == IF batches[b] = Absent THEN "NONE" ELSE Stage(batches[b])
OnHold == {b \in Batches : batches[b] # Absent /\ batches[b].status = "COLD_CHAIN_BREACH"}

Custody == INSTANCE Custody WITH stage <- [b \in Batches |-> StageOf(b)], held <- OnHold

\* Whatever the registry, the companies, the oracles and the regulator do,
\* each batch is passed on as Custody promises: one hand after the other,
\* nowhere during a hold, and from where the hold found it.
ImplementsCustody == Custody!Spec

CustodyStep ==
  {<<"CREATED", "PROCESSED">>, <<"PROCESSED", "IN_TRANSIT">>, <<"IN_TRANSIT", "DELIVERED">>}

\* One record of a batch's history and the next: a custody step is taken only
\* by a batch that is not on hold, a hold begins and ends at the same stage,
\* a recall ends the history.
LegalSuccessor(r, next) ==
  /\ r.status # "RECALLED"
  /\ \/ next.status = "RECALLED"
     \/ <<r.status, next.status>> \in CustodyStep
     \/ Stage(next) = Stage(r) /\ "COLD_CHAIN_BREACH" \in {r.status, next.status}

\* The chain of custody of every batch, read from its ledger history: created
\* by the farm, one hand after the other with no hand skipped, whatever
\* breaches, resolutions and recalls happened in between.
CustodyInOrder ==
  \A b \in Batches :
    /\ history[b] # <<>> => history[b][1].status = "CREATED"
    /\ \A i \in 1..(Len(history[b]) - 1) : LegalSuccessor(history[b][i], history[b][i + 1])

\* No unsafe verdict can pass without a trace on the batch it is about, and
\* no batch is put on hold without one: the ledger history of a batch holds
\* one on-hold record for each unsafe evidence anchored for it, also when the
\* batch is on hold already.
UnsafeEvidenceOnRecord ==
  \A b \in Batches :
    Cardinality({i \in DOMAIN history[b] : history[b][i].status = "COLD_CHAIN_BREACH"})
      = Cardinality({e \in EvidenceIds :
                       evidence[e] # Absent /\ evidence[e].batchId = b
                       /\ evidence[e].complianceOutcome = "UNSAFE"})

\* models/Batch.ts on statusBeforeBreach: "Absent unless a breach is currently
\* open."
StageAbsentUnlessBreach ==
  \A b \in Batches : batches[b] # Absent =>
    (batches[b].statusBeforeBreach # Absent => batches[b].status = "COLD_CHAIN_BREACH")

============================================================================
