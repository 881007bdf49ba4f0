------------------------- MODULE FabricLedgerProofs -------------------------
(***************************************************************************)
(* Theorems about FabricLedger, for any consortium, any workload and any   *)
(* number of transactions in flight: what commits is what SupplyChain lets *)
(* happen in one atomic step.                                              *)
(*                                                                         *)
(* The invariant is Fresh: a transaction in flight that is not outdated is *)
(* what simulating its call on the present ledger gives, check by check    *)
(* and write by write.  It is kept because a commit that leaves the keys a *)
(* simulation read alone leaves its outcome alone, and this is where the   *)
(* read sets of the chaincodes have to be complete.                        *)
(***************************************************************************)
EXTENDS FabricLedger, TLAPS

CP == INSTANCE SupplyChainProofs
RP == INSTANCE StakeholderRegistryProofs

\* tx is what simulating one of these calls on the present ledger gives.
FreshStakeholderTx(tx, caller, id) ==
  \/ BootstrapOk(caller, id) /\ tx = Bootstrap(caller, id)
  \/ \E role \in Roles, c \in Certificates :
       RegisterOk(caller, id, role, c) /\ tx = Register(caller, id, role, c)
  \/ \E role \in Roles : UpdateRoleOk(caller, id, role) /\ tx = UpdateRole(caller, id, role)
  \/ SuspendOk(caller, id) /\ tx = Suspend(caller, id)
  \/ ReactivateOk(caller, id) /\ tx = Reactivate(caller, id)

FreshSensorTx(tx, caller, sensor) ==
  \/ \E key \in PublicKeys :
       RegisterSensorOk(caller, sensor) /\ tx = RegisterSensor(caller, sensor, key)
  \/ \E active \in BOOLEAN :
       SwitchSensorOk(caller, sensor, active) /\ tx = SwitchSensor(caller, sensor, active)

FreshBatchTx(tx, caller, b) ==
  \/ CreateOk(caller, b) /\ tx = Create(caller, b)
  \/ \E t \in Transitions : TransitionOk(caller, b, t) /\ tx = Transition(caller, b, t)
  \/ RecallOk(caller, b) /\ tx = Recall(caller, b)
  \/ ResolveOk(caller, b) /\ tx = Resolve(caller, b)

FreshEvidenceTx(tx, caller, b) ==
  \E e \in EvidenceIds, hash \in Hashes, statistics \in Statistics :
    EvidenceOk(caller, e, b) /\ tx = SubmitEvidence(caller, e, b, hash, statistics)

Fresh(tx) ==
  \E caller \in Certificates :
    \/ \E id \in StakeholderIds : FreshStakeholderTx(tx, caller, id)
    \/ \E sensor \in Sensors : FreshSensorTx(tx, caller, sensor)
    \/ \E b \in Batches : FreshBatchTx(tx, caller, b) \/ FreshEvidenceTx(tx, caller, b)

\* The shape of a transaction in flight.
IsTx(tx) ==
  /\ tx = [call |-> tx.call, reads |-> tx.reads, writes |-> tx.writes, stale |-> tx.stale]
  /\ tx.stale \in BOOLEAN

\* Every transaction in flight is outdated or fresh.
PendingOK ==
  /\ pending = [s \in Slots |-> pending[s]]
  /\ \A s \in Slots : pending[s] # NoTx =>
       IsTx(pending[s]) /\ (pending[s].stale \/ Fresh(pending[s]))

IInv == Chain!TypeOK /\ PendingOK

-----------------------------------------------------------------------------
(* Keys and writes.                                                        *)

\* Keys of different kinds, or of different entries, are different.
LEMMA KeyParts ==
  /\ InitialisedKey[1] = "registry" /\ CountKey[1] = "registry" /\ InitialisedKey # CountKey
  /\ \A x : StakeholderKey(x)[1] = "stakeholder" /\ StakeholderKey(x)[2] = x
  /\ \A x : CertificateKey(x)[1] = "certificate" /\ CertificateKey(x)[2] = x
  /\ \A x : SensorKeyKey(x)[1] = "sensorKey" /\ SensorKeyKey(x)[2] = x
  /\ \A x : BatchKey(x)[1] = "batch" /\ BatchKey(x)[2] = x
  /\ \A x : EvidenceKey(x)[1] = "temperatureEvidence" /\ EvidenceKey(x)[2] = x
BY DEF InitialisedKey, CountKey, StakeholderKey, CertificateKey, SensorKeyKey, BatchKey, EvidenceKey

LEMMA AfterUnwritten ==
  ASSUME NEW tx, NEW key, NEW old, \A w \in tx.writes : w[1] # key
  PROVE  key \notin KeysWritten(tx) /\ After(tx, key, old) = old
BY DEF After, KeysWritten

LEMMA AfterWritten ==
  ASSUME NEW tx, NEW key, NEW value, NEW old, <<key, value>> \in tx.writes,
         \A w \in tx.writes : w[1] = key => w = <<key, value>>
  PROVE  key \in KeysWritten(tx) /\ After(tx, key, old) = value
<1>1. key \in KeysWritten(tx)
  <2>1. <<key, value>>[1] = key
    OBVIOUS
  <2> QED
    BY <2>1 DEF KeysWritten
<1>2. (CHOOSE w \in tx.writes : w[1] = key) = <<key, value>>
  <2>1. <<key, value>>[1] = key
    OBVIOUS
  <2>2. \E w \in tx.writes : w[1] = key
    BY <2>1
  <2> DEFINE chosen == CHOOSE w \in tx.writes : w[1] = key
  <2>3. chosen \in tx.writes /\ chosen[1] = key
    BY <2>2
  <2> QED
    BY <2>3
<1>3. <<key, value>>[2] = value
  OBVIOUS
<1> QED
  BY <1>1, <1>2, <1>3 DEF After

\* A simulated transaction is what its three parts say.
LEMMA ResultParts ==
  ASSUME NEW call, NEW reads, NEW writes
  PROVE  /\ Result(call, reads, writes).reads = reads
         /\ Result(call, reads, writes).writes = writes
         /\ Result(call, reads, writes).stale = FALSE
         /\ IsTx(Result(call, reads, writes))
BY DEF Result, IsTx

-----------------------------------------------------------------------------
(* What a commit does, table by table.                                     *)

\* A key that is not written keeps its value.
LEMMA Unwritten ==
  ASSUME NEW tx, Apply(tx)
  PROVE  /\ InitialisedKey \notin KeysWritten(tx) => initialised' = initialised
         /\ CountKey \notin KeysWritten(tx) => activeRegulatorCount' = activeRegulatorCount
         /\ \A id \in StakeholderIds :
              StakeholderKey(id) \notin KeysWritten(tx) => stakeholders'[id] = stakeholders[id]
         /\ \A c \in Certificates :
              CertificateKey(c) \notin KeysWritten(tx) => certificates'[c] = certificates[c]
         /\ \A s \in Sensors :
              SensorKeyKey(s) \notin KeysWritten(tx) => sensorKeys'[s] = sensorKeys[s]
         /\ \A b \in Batches : BatchKey(b) \notin KeysWritten(tx) =>
              batches'[b] = batches[b] /\ history'[b] = history[b]
         /\ \A e \in EvidenceIds :
              EvidenceKey(e) \notin KeysWritten(tx) => evidence'[e] = evidence[e]
BY DEF Apply, After

\* The tables stay functions on their ids.
LEMMA TablesAfter ==
  ASSUME NEW tx, Apply(tx)
  PROVE  /\ stakeholders' = [id \in StakeholderIds |-> stakeholders'[id]]
         /\ certificates' = [c \in Certificates |-> certificates'[c]]
         /\ sensorKeys' = [s \in Sensors |-> sensorKeys'[s]]
         /\ batches' = [b \in Batches |-> batches'[b]]
         /\ history' = [b \in Batches |-> history'[b]]
         /\ evidence' = [e \in EvidenceIds |-> evidence'[e]]
BY DEF Apply

LEMMA TablesBefore ==
  ASSUME Chain!TypeOK
  PROVE  /\ stakeholders = [id \in StakeholderIds |-> stakeholders[id]]
         /\ certificates = [c \in Certificates |-> certificates[c]]
         /\ sensorKeys = [s \in Sensors |-> sensorKeys[s]]
         /\ batches = [b \in Batches |-> batches[b]]
         /\ history = [b \in Batches |-> history[b]]
         /\ evidence = [e \in EvidenceIds |-> evidence[e]]
BY DEF Chain!TypeOK, Chain!Registry!TypeOK

\* Two tables that agree everywhere, or everywhere but in one entry.
LEMMA SameTable ==
  ASSUME NEW S, NEW f, NEW g, f = [x \in S |-> f[x]], g = [x \in S |-> g[x]],
         \A x \in S : g[x] = f[x]
  PROVE  g = f
OBVIOUS

LEMMA OneEntry ==
  ASSUME NEW S, NEW f, NEW g, f = [x \in S |-> f[x]], g = [x \in S |-> g[x]],
         NEW a \in S, NEW v, g[a] = v, \A x \in S : x # a => g[x] = f[x]
  PROVE  g = [f EXCEPT ![a] = v]
<1>1. DOMAIN f = S
  OBVIOUS
<1> QED
  BY <1>1

\* A whole table whose keys are not written stays.
LEMMA UnwrittenTables ==
  ASSUME Chain!TypeOK, NEW tx, Apply(tx)
  PROVE  /\ (\A w \in tx.writes : w[1][1] # "registry") =>
              UNCHANGED <<initialised, activeRegulatorCount>>
         /\ (\A w \in tx.writes : w[1][1] # "stakeholder") => UNCHANGED stakeholders
         /\ (\A w \in tx.writes : w[1][1] # "certificate") => UNCHANGED certificates
         /\ (\A w \in tx.writes : w[1][1] # "sensorKey") => UNCHANGED sensorKeys
         /\ (\A w \in tx.writes : w[1][1] # "batch") => UNCHANGED <<batches, history>>
         /\ (\A w \in tx.writes : w[1][1] # "temperatureEvidence") => UNCHANGED evidence
<1>1. \A kind, key : (\A w \in tx.writes : w[1][1] # kind) /\ key[1] = kind => key \notin KeysWritten(tx)
  BY DEF KeysWritten
<1>2. (\A w \in tx.writes : w[1][1] # "registry") => UNCHANGED <<initialised, activeRegulatorCount>>
  BY <1>1, KeyParts, Unwritten
<1>3. (\A w \in tx.writes : w[1][1] # "stakeholder") => UNCHANGED stakeholders
  BY <1>1, KeyParts, Unwritten, TablesAfter, TablesBefore, SameTable
<1>4. (\A w \in tx.writes : w[1][1] # "certificate") => UNCHANGED certificates
  BY <1>1, KeyParts, Unwritten, TablesAfter, TablesBefore, SameTable
<1>5. (\A w \in tx.writes : w[1][1] # "sensorKey") => UNCHANGED sensorKeys
  BY <1>1, KeyParts, Unwritten, TablesAfter, TablesBefore, SameTable
<1>6. (\A w \in tx.writes : w[1][1] # "batch") => UNCHANGED <<batches, history>>
  BY <1>1, KeyParts, Unwritten, TablesAfter, TablesBefore, SameTable
<1>7. (\A w \in tx.writes : w[1][1] # "temperatureEvidence") => UNCHANGED evidence
  BY <1>1, KeyParts, Unwritten, TablesAfter, TablesBefore, SameTable
<1> QED
  BY <1>2, <1>3, <1>4, <1>5, <1>6, <1>7

\* The only write of its kind changes one entry.
LEMMA WrittenStakeholder ==
  ASSUME Chain!TypeOK, NEW tx, Apply(tx), NEW id \in StakeholderIds, NEW r,
         <<StakeholderKey(id), r>> \in tx.writes,
         \A w \in tx.writes : w[1][1] = "stakeholder" => w = <<StakeholderKey(id), r>>
  PROVE  stakeholders' = [stakeholders EXCEPT ![id] = r]
<1>1. After(tx, StakeholderKey(id), stakeholders[id]) = r
  BY KeyParts, AfterWritten
<1>2. stakeholders'[id] = r
  BY <1>1 DEF Apply
<1>3. ASSUME NEW x \in StakeholderIds, x # id
      PROVE  stakeholders'[x] = stakeholders[x]
  <2>1. \A w \in tx.writes : w[1] # StakeholderKey(x)
    BY <1>3, KeyParts
  <2> QED
    BY <2>1, AfterUnwritten DEF Apply
<1> QED
  BY <1>2, <1>3, TablesAfter, TablesBefore, OneEntry

LEMMA WrittenCertificate ==
  ASSUME Chain!TypeOK, NEW tx, Apply(tx), NEW c \in Certificates, NEW r,
         <<CertificateKey(c), r>> \in tx.writes,
         \A w \in tx.writes : w[1][1] = "certificate" => w = <<CertificateKey(c), r>>
  PROVE  certificates' = [certificates EXCEPT ![c] = r]
<1>1. After(tx, CertificateKey(c), certificates[c]) = r
  BY KeyParts, AfterWritten
<1>2. certificates'[c] = r
  BY <1>1 DEF Apply
<1>3. ASSUME NEW x \in Certificates, x # c
      PROVE  certificates'[x] = certificates[x]
  <2>1. \A w \in tx.writes : w[1] # CertificateKey(x)
    BY <1>3, KeyParts
  <2> QED
    BY <2>1, AfterUnwritten DEF Apply
<1> QED
  BY <1>2, <1>3, TablesAfter, TablesBefore, OneEntry

LEMMA WrittenSensorKey ==
  ASSUME Chain!TypeOK, NEW tx, Apply(tx), NEW s \in Sensors, NEW r,
         <<SensorKeyKey(s), r>> \in tx.writes,
         \A w \in tx.writes : w[1][1] = "sensorKey" => w = <<SensorKeyKey(s), r>>
  PROVE  sensorKeys' = [sensorKeys EXCEPT ![s] = r]
<1>1. After(tx, SensorKeyKey(s), sensorKeys[s]) = r
  BY KeyParts, AfterWritten
<1>2. sensorKeys'[s] = r
  BY <1>1 DEF Apply
<1>3. ASSUME NEW x \in Sensors, x # s
      PROVE  sensorKeys'[x] = sensorKeys[x]
  <2>1. \A w \in tx.writes : w[1] # SensorKeyKey(x)
    BY <1>3, KeyParts
  <2> QED
    BY <2>1, AfterUnwritten DEF Apply
<1> QED
  BY <1>2, <1>3, TablesAfter, TablesBefore, OneEntry

LEMMA WrittenBatch ==
  ASSUME Chain!TypeOK, NEW tx, Apply(tx), NEW b \in Batches, NEW r,
         <<BatchKey(b), r>> \in tx.writes,
         \A w \in tx.writes : w[1][1] = "batch" => w = <<BatchKey(b), r>>
  PROVE  Chain!PutBatch(b, r)
<1>1. After(tx, BatchKey(b), batches[b]) = r /\ BatchKey(b) \in KeysWritten(tx)
  BY KeyParts, AfterWritten
<1>2. batches'[b] = r /\ history'[b] = Append(history[b], r)
  BY <1>1 DEF Apply
<1>3. ASSUME NEW x \in Batches, x # b
      PROVE  batches'[x] = batches[x] /\ history'[x] = history[x]
  <2>1. \A w \in tx.writes : w[1] # BatchKey(x)
    BY <1>3, KeyParts
  <2>2. BatchKey(x) \notin KeysWritten(tx) /\ After(tx, BatchKey(x), batches[x]) = batches[x]
    BY <2>1, AfterUnwritten
  <2> QED
    BY <2>2 DEF Apply
<1>4. batches' = [batches EXCEPT ![b] = r]
  BY <1>2, <1>3, TablesAfter, TablesBefore, OneEntry
<1>5. history' = [history EXCEPT ![b] = Append(history[b], r)]
  BY <1>2, <1>3, TablesAfter, TablesBefore, OneEntry
<1> QED
  BY <1>4, <1>5 DEF Chain!PutBatch

LEMMA WrittenEvidence ==
  ASSUME Chain!TypeOK, NEW tx, Apply(tx), NEW e \in EvidenceIds, NEW r,
         <<EvidenceKey(e), r>> \in tx.writes,
         \A w \in tx.writes : w[1][1] = "temperatureEvidence" => w = <<EvidenceKey(e), r>>
  PROVE  evidence' = [evidence EXCEPT ![e] = r]
<1>1. After(tx, EvidenceKey(e), evidence[e]) = r
  BY KeyParts, AfterWritten
<1>2. evidence'[e] = r
  BY <1>1 DEF Apply
<1>3. ASSUME NEW x \in EvidenceIds, x # e
      PROVE  evidence'[x] = evidence[x]
  <2>1. \A w \in tx.writes : w[1] # EvidenceKey(x)
    BY <1>3, KeyParts
  <2> QED
    BY <2>1, AfterUnwritten DEF Apply
<1> QED
  BY <1>2, <1>3, TablesAfter, TablesBefore, OneEntry

-----------------------------------------------------------------------------
(* What a commit of a fresh transaction does, call by call.                *)

\* The registry this module asks and the one inside SupplyChain are one; to
\* the provers they are two instances until both are expanded.
LEMMA SameRegistry ==
  /\ Registry!Regulator = Chain!Registry!Regulator
  /\ Registry!CountReadable <=> Chain!Registry!CountReadable
  /\ Registry!LockoutGuard <=> Chain!Registry!LockoutGuard
  /\ \A c : Registry!RequireActiveRegulator(c) <=> Chain!Registry!RequireActiveRegulator(c)
  /\ \A role, c, caller :
       Registry!CreateStakeholder(role, c, caller) = Chain!Registry!CreateStakeholder(role, c, caller)
  /\ \A r, caller, role :
       Registry!WithRole(r, caller, role) = Chain!Registry!WithRole(r, caller, role)
  /\ \A r, caller, active :
       Registry!WithActive(r, caller, active) = Chain!Registry!WithActive(r, caller, active)
  /\ \A key, caller : Registry!NewSensorKey(key, caller) = Chain!Registry!NewSensorKey(key, caller)
BY DEF Registry!Regulator, Chain!Registry!Regulator,
       Registry!CountReadable, Chain!Registry!CountReadable,
       Registry!LockoutGuard, Chain!Registry!LockoutGuard,
       Registry!RequireActiveRegulator, Chain!Registry!RequireActiveRegulator,
       Registry!RequireActiveStakeholder, Chain!Registry!RequireActiveStakeholder,
       Registry!KnownCertificate, Chain!Registry!KnownCertificate,
       Registry!StakeholderByCertificate, Chain!Registry!StakeholderByCertificate,
       Registry!CreateStakeholder, Chain!Registry!CreateStakeholder,
       Registry!Edited, Chain!Registry!Edited, Registry!WithRole, Chain!Registry!WithRole,
       Registry!WithActive, Chain!Registry!WithActive,
       Registry!NewSensorKey, Chain!Registry!NewSensorKey

LEMMA CommitBatchResult ==
  ASSUME Chain!TypeOK, NEW call, NEW caller, NEW b \in Batches, NEW r,
         Apply(BatchResult(call, caller, b, r))
  PROVE  Chain!PutBatch(b, r) /\ UNCHANGED <<Chain!registryVars, evidence>>
<1> DEFINE tx == BatchResult(call, caller, b, r)
<1>1. tx.writes = {<<BatchKey(b), r>>}
  BY DEF BatchResult, Result
<1>2. \A w \in tx.writes : w = <<BatchKey(b), r>> /\ w[1][1] = "batch"
  BY <1>1, KeyParts
<1> HIDE DEF tx
<1>3. Apply(tx)
  BY DEF tx
<1>4. Chain!PutBatch(b, r)
  BY <1>1, <1>2, <1>3, WrittenBatch
<1>5. UNCHANGED <<initialised, activeRegulatorCount, stakeholders, certificates, sensorKeys, evidence>>
  BY <1>2, <1>3, UnwrittenTables
<1> QED
  BY <1>4, <1>5 DEF Chain!registryVars

LEMMA CommitBatchTx ==
  ASSUME Chain!TypeOK, NEW tx, NEW caller \in Certificates, NEW b \in Batches,
         FreshBatchTx(tx, caller, b), Apply(tx)
  PROVE  Chain!LifecycleNext(caller, b) \/ Chain!ComplianceNext(caller, b)
<1>1. CASE CreateOk(caller, b) /\ tx = Create(caller, b)
  BY <1>1, CommitBatchResult DEF CreateOk, Create, Chain!CreateBatch, Chain!LifecycleNext
<1>2. ASSUME NEW t \in Transitions, TransitionOk(caller, b, t), tx = Transition(caller, b, t)
      PROVE  Chain!LifecycleNext(caller, b)
  <2>1. Chain!TransitionBatch(caller, b, t[2], t[3], t[4])
    BY <1>2, CommitBatchResult DEF TransitionOk, Transition, Chain!TransitionBatch
  <2> QED
    BY <2>1 DEF Transitions, Chain!LifecycleNext, Chain!RecordProcessingEvent,
                Chain!StartTransport, Chain!RecordDelivery
<1>3. CASE RecallOk(caller, b) /\ tx = Recall(caller, b)
  BY <1>3, CommitBatchResult DEF RecallOk, Recall, Chain!RecallBatch, Chain!LifecycleNext
<1>4. CASE ResolveOk(caller, b) /\ tx = Resolve(caller, b)
  BY <1>4, CommitBatchResult DEF ResolveOk, Resolve, Chain!ResolveTemperatureBreach, Chain!ComplianceNext
<1> QED
  BY <1>1, <1>2, <1>3, <1>4 DEF FreshBatchTx

LEMMA CommitEvidenceTx ==
  ASSUME Chain!TypeOK, NEW tx, NEW caller \in Certificates, NEW b \in Batches,
         FreshEvidenceTx(tx, caller, b), Apply(tx)
  PROVE  Chain!ComplianceNext(caller, b)
<1>1. PICK e \in EvidenceIds, hash \in Hashes, statistics \in Statistics :
        EvidenceOk(caller, e, b) /\ tx = SubmitEvidence(caller, e, b, hash, statistics)
  BY DEF FreshEvidenceTx
<1> DEFINE outcome == Chain!DeriveComplianceOutcome(statistics)
           author == Chain!StakeholderOf(caller)
           new == [batchId |-> b, evidenceHash |-> hash, complianceOutcome |-> outcome,
                   submittedBy |-> author]
           r == Chain!Held(batches[b], author)
<1>2. tx.writes = {<<EvidenceKey(e), new>>}
                  \cup (IF outcome = "UNSAFE" THEN {<<BatchKey(b), r>>} ELSE {})
  BY <1>1 DEF SubmitEvidence, Result
<1> HIDE DEF outcome, author, new, r
<1>3. /\ <<EvidenceKey(e), new>> \in tx.writes
      /\ outcome = "UNSAFE" => <<BatchKey(b), r>> \in tx.writes
      /\ \A w \in tx.writes : \/ w = <<EvidenceKey(e), new>>
                              \/ outcome = "UNSAFE" /\ w = <<BatchKey(b), r>>
  BY <1>2
<1>4. \A w \in tx.writes :
        \/ w = <<EvidenceKey(e), new>> /\ w[1][1] = "temperatureEvidence"
        \/ outcome = "UNSAFE" /\ w = <<BatchKey(b), r>> /\ w[1][1] = "batch"
  BY <1>3, KeyParts
<1>5. evidence' = [evidence EXCEPT ![e] = new]
  BY <1>3, <1>4, WrittenEvidence
<1>6. UNCHANGED <<initialised, activeRegulatorCount, stakeholders, certificates, sensorKeys>>
  BY <1>4, UnwrittenTables
<1>7. Chain!HoldIfUnsafe(b, outcome, author)
  <2>1. CASE outcome = "UNSAFE"
    <3>1. Chain!PutBatch(b, r)
      BY <1>3, <1>4, <2>1, WrittenBatch
    <3> QED
      BY <2>1, <3>1 DEF r, Chain!HoldIfUnsafe
  <2>2. CASE outcome # "UNSAFE"
    <3>1. UNCHANGED <<batches, history>>
      BY <1>4, <2>2, UnwrittenTables
    <3> QED
      BY <2>2, <3>1 DEF Chain!HoldIfUnsafe
  <2> QED
    BY <2>1, <2>2
<1>8. Chain!SubmitTemperatureEvidence(caller, e, b, hash, statistics)
  BY <1>1, <1>5, <1>6, <1>7
  DEF EvidenceOk, outcome, author, new, Chain!SubmitTemperatureEvidence, Chain!registryVars
<1> QED
  BY <1>8 DEF Chain!ComplianceNext

LEMMA CommitSensorTx ==
  ASSUME Chain!TypeOK, NEW tx, NEW caller \in Certificates, NEW s \in Sensors,
         FreshSensorTx(tx, caller, s), Apply(tx)
  PROVE  Chain!Registry!SensorNext(caller) /\ UNCHANGED Chain!chainVars
<1>1. ASSUME NEW call, NEW r, tx = SensorResult(call, caller, s, r)
      PROVE  Chain!Registry!PutSensorKey(s, r) /\ UNCHANGED Chain!chainVars
  <2>1. tx.writes = {<<SensorKeyKey(s), r>>}
    BY <1>1 DEF SensorResult, Result
  <2>2. \A w \in tx.writes : w = <<SensorKeyKey(s), r>> /\ w[1][1] = "sensorKey"
    BY <2>1, KeyParts
  <2>3. sensorKeys' = [sensorKeys EXCEPT ![s] = r]
    BY <2>1, <2>2, WrittenSensorKey
  <2>4. UNCHANGED <<initialised, activeRegulatorCount, stakeholders, certificates>>
        /\ UNCHANGED <<batches, history, evidence>>
    BY <2>2, UnwrittenTables
  <2> QED
    BY <2>3, <2>4 DEF Chain!Registry!PutSensorKey, Chain!chainVars
<1>2. ASSUME NEW key \in PublicKeys, RegisterSensorOk(caller, s), tx = RegisterSensor(caller, s, key)
      PROVE  Chain!Registry!SensorNext(caller) /\ UNCHANGED Chain!chainVars
  <2>1. Chain!Registry!PutSensorKey(s, Chain!Registry!NewSensorKey(key, caller))
        /\ UNCHANGED Chain!chainVars
    BY <1>1, <1>2, SameRegistry DEF RegisterSensor
  <2> QED
    BY <1>2, <2>1, SameRegistry
    DEF RegisterSensorOk, Chain!Registry!RegisterSensorKey, Chain!Registry!SensorNext
<1>3. ASSUME NEW active \in BOOLEAN, SwitchSensorOk(caller, s, active),
             tx = SwitchSensor(caller, s, active)
      PROVE  Chain!Registry!SensorNext(caller) /\ UNCHANGED Chain!chainVars
  <2> DEFINE r == [sensorKeys[s] EXCEPT !.active = active, !.updatedBy = certificates[caller]]
  <2>1. Chain!Registry!PutSensorKey(s, r) /\ UNCHANGED Chain!chainVars
    BY <1>1, <1>3 DEF SwitchSensor
  <2>2. /\ Chain!Registry!RequireActiveRegulator(caller) /\ sensorKeys[s] # Absent
        /\ sensorKeys[s].active # active
    BY <1>3, SameRegistry DEF SwitchSensorOk
  <2>3. sensorKeys[s].active \in BOOLEAN
    BY <2>2 DEF Chain!TypeOK, Chain!Registry!TypeOK, Chain!Registry!SensorKey
  <2>4. CASE active
    <3>1. active = TRUE /\ ~sensorKeys[s].active
      BY <2>2, <2>3, <2>4
    <3>2. Chain!Registry!ReactivateSensorKey(caller, s)
      BY <2>1, <2>2, <3>1 DEF Chain!Registry!ReactivateSensorKey
    <3> QED
      BY <2>1, <3>2 DEF Chain!Registry!SensorNext
  <2>5. CASE ~active
    <3>1. active = FALSE /\ sensorKeys[s].active
      BY <2>2, <2>3, <2>5
    <3>2. Chain!Registry!RevokeSensorKey(caller, s)
      BY <2>1, <2>2, <3>1 DEF Chain!Registry!RevokeSensorKey
    <3> QED
      BY <2>1, <3>2 DEF Chain!Registry!SensorNext
  <2> QED
    BY <2>4, <2>5
<1> QED
  BY <1>2, <1>3 DEF FreshSensorTx

\* A transaction that changes a record, and the counter if it has to.
LEMMA CommitUpdate ==
  ASSUME Chain!TypeOK, NEW tx, NEW call, NEW caller, NEW id \in StakeholderIds, NEW change \in Int,
         NEW r, tx = Update(call, caller, id, change, r), Apply(tx)
  PROVE  /\ Chain!Registry!PutStakeholder(id, r)
         /\ activeRegulatorCount' = activeRegulatorCount + change
         /\ UNCHANGED Chain!chainVars
<1> DEFINE count == activeRegulatorCount + change
<1>1. tx.writes = {<<StakeholderKey(id), r>>}
                  \cup (IF change # 0 THEN {<<CountKey, count>>} ELSE {})
  BY DEF Update, CountWrite, Result
<1>2. /\ <<StakeholderKey(id), r>> \in tx.writes
      /\ change # 0 => <<CountKey, count>> \in tx.writes
      /\ \A w \in tx.writes : \/ w = <<StakeholderKey(id), r>>
                              \/ change # 0 /\ w = <<CountKey, count>>
  BY <1>1
<1>3. \A w \in tx.writes :
        \/ w = <<StakeholderKey(id), r>> /\ w[1][1] = "stakeholder"
        \/ change # 0 /\ w = <<CountKey, count>> /\ w[1][1] = "registry"
  BY <1>2, KeyParts
<1>4. stakeholders' = [stakeholders EXCEPT ![id] = r]
  BY <1>2, <1>3, WrittenStakeholder
<1>5. UNCHANGED <<certificates, sensorKeys>> /\ UNCHANGED <<batches, history, evidence>>
  BY <1>3, UnwrittenTables
<1>6. UNCHANGED initialised
  <2>1. \A w \in tx.writes : w[1] # InitialisedKey
    BY <1>2, KeyParts
  <2> QED
    BY <2>1, AfterUnwritten DEF Apply
<1>7. activeRegulatorCount' = activeRegulatorCount + change
  <2>1. activeRegulatorCount \in Nat
    BY DEF Chain!TypeOK, Chain!Registry!TypeOK
  <2>2. CASE change = 0
    <3>1. \A w \in tx.writes : w[1] # CountKey
      BY <1>2, <2>2, KeyParts
    <3>2. activeRegulatorCount' = activeRegulatorCount
      BY <3>1, AfterUnwritten DEF Apply
    <3> QED
      BY <2>1, <2>2, <3>2
  <2>3. CASE change # 0
    <3>1. <<CountKey, count>> \in tx.writes
          /\ \A w \in tx.writes : w[1] = CountKey => w = <<CountKey, count>>
      BY <1>2, <2>3, KeyParts
    <3> QED
      BY <3>1, AfterWritten DEF Apply
  <2> QED
    BY <2>2, <2>3
<1> QED
  BY <1>4, <1>5, <1>6, <1>7 DEF Chain!Registry!PutStakeholder, Chain!chainVars

\* The counter's guard and change, as the registry writes them.
LEMMA CommitCount ==
  ASSUME Chain!TypeOK, NEW change \in {-1, 0, 1}, CountOk(change),
         activeRegulatorCount' = activeRegulatorCount + change
  PROVE  /\ change = 1 => Chain!Registry!AddRegulator
         /\ change = -1 => Chain!Registry!RemoveRegulator
         /\ change = 0 => UNCHANGED activeRegulatorCount
BY SameRegistry DEF CountOk, Chain!Registry!AddRegulator, Chain!Registry!RemoveRegulator,
   Chain!TypeOK, Chain!Registry!TypeOK

LEMMA CommitUpdateRole ==
  ASSUME Chain!TypeOK, NEW tx, NEW caller \in Certificates, NEW id \in StakeholderIds,
         NEW role \in Roles, UpdateRoleOk(caller, id, role), tx = UpdateRole(caller, id, role),
         Apply(tx)
  PROVE  Chain!Registry!StakeholderNext(caller) /\ UNCHANGED Chain!chainVars
<1> DEFINE change == RoleChange(id, role)
           r == Chain!Registry!WithRole(stakeholders[id], caller, role)
<1>1. /\ Chain!Registry!RequireActiveRegulator(caller) /\ stakeholders[id] # Absent
      /\ stakeholders[id].role # role /\ CountOk(change)
  BY SameRegistry DEF UpdateRoleOk
<1>2. change \in {-1, 0, 1} /\ change \in Int
  BY DEF RoleChange
<1>3. tx = Update(<<"updateStakeholderRole", caller, id, role>>, caller, id, change, r)
  BY SameRegistry DEF UpdateRole
<1> HIDE DEF change, r
<1>4. /\ Chain!Registry!PutStakeholder(id, r) /\ UNCHANGED Chain!chainVars
      /\ activeRegulatorCount' = activeRegulatorCount + change
  BY <1>2, <1>3, CommitUpdate
<1>5. /\ change = 1 => Chain!Registry!AddRegulator
      /\ change = -1 => Chain!Registry!RemoveRegulator
      /\ change = 0 => UNCHANGED activeRegulatorCount
  BY <1>1, <1>2, <1>4, CommitCount
<1>6. IF stakeholders[id].active /\ stakeholders[id].role = Chain!Registry!Regulator
      THEN Chain!Registry!RemoveRegulator
      ELSE IF stakeholders[id].active /\ role = Chain!Registry!Regulator
           THEN Chain!Registry!AddRegulator
           ELSE UNCHANGED activeRegulatorCount
  <2>1. stakeholders[id].active \in BOOLEAN
    BY <1>1 DEF Chain!TypeOK, Chain!Registry!TypeOK, Chain!Registry!Stakeholder
  <2> QED
    BY <1>5, <2>1, SameRegistry DEF change, RoleChange
<1>7. Chain!Registry!UpdateStakeholderRole(caller, id, role)
  BY <1>1, <1>4, <1>6 DEF r, Chain!Registry!UpdateStakeholderRole
<1> QED
  BY <1>4, <1>7 DEF Chain!Registry!StakeholderNext

LEMMA CommitSuspend ==
  ASSUME Chain!TypeOK, NEW tx, NEW caller \in Certificates, NEW id \in StakeholderIds,
         SuspendOk(caller, id), tx = Suspend(caller, id), Apply(tx)
  PROVE  Chain!Registry!StakeholderNext(caller) /\ UNCHANGED Chain!chainVars
<1> DEFINE change == IF stakeholders[id].role = Registry!Regulator THEN -1 ELSE 0
           r == Chain!Registry!WithActive(stakeholders[id], caller, FALSE)
<1>1. /\ Chain!Registry!RequireActiveRegulator(caller) /\ stakeholders[id] # Absent
      /\ stakeholders[id].active /\ CountOk(change)
  BY SameRegistry DEF SuspendOk
<1>2. change \in {-1, 0, 1} /\ change \in Int
  OBVIOUS
<1>3. tx = Update(<<"suspendStakeholder", caller, id>>, caller, id, change, r)
  BY SameRegistry DEF Suspend
<1> HIDE DEF change, r
<1>4. /\ Chain!Registry!PutStakeholder(id, r) /\ UNCHANGED Chain!chainVars
      /\ activeRegulatorCount' = activeRegulatorCount + change
  BY <1>2, <1>3, CommitUpdate
<1>5. /\ change = -1 => Chain!Registry!RemoveRegulator
      /\ change = 0 => UNCHANGED activeRegulatorCount
  BY <1>1, <1>2, <1>4, CommitCount
<1>6. IF stakeholders[id].role = Chain!Registry!Regulator
      THEN Chain!Registry!RemoveRegulator ELSE UNCHANGED activeRegulatorCount
  BY <1>5, SameRegistry DEF change
<1>7. Chain!Registry!SuspendStakeholder(caller, id)
  BY <1>1, <1>4, <1>6 DEF r, Chain!Registry!SuspendStakeholder
<1> QED
  BY <1>4, <1>7 DEF Chain!Registry!StakeholderNext

LEMMA CommitReactivate ==
  ASSUME Chain!TypeOK, NEW tx, NEW caller \in Certificates, NEW id \in StakeholderIds,
         ReactivateOk(caller, id), tx = Reactivate(caller, id), Apply(tx)
  PROVE  Chain!Registry!StakeholderNext(caller) /\ UNCHANGED Chain!chainVars
<1> DEFINE change == IF stakeholders[id].role = Registry!Regulator THEN 1 ELSE 0
           r == Chain!Registry!WithActive(stakeholders[id], caller, TRUE)
<1>1. /\ Chain!Registry!RequireActiveRegulator(caller) /\ stakeholders[id] # Absent
      /\ ~stakeholders[id].active /\ CountOk(change)
  BY SameRegistry DEF ReactivateOk
<1>2. change \in {-1, 0, 1} /\ change \in Int
  OBVIOUS
<1>3. tx = Update(<<"reactivateStakeholder", caller, id>>, caller, id, change, r)
  BY SameRegistry DEF Reactivate
<1> HIDE DEF change, r
<1>4. /\ Chain!Registry!PutStakeholder(id, r) /\ UNCHANGED Chain!chainVars
      /\ activeRegulatorCount' = activeRegulatorCount + change
  BY <1>2, <1>3, CommitUpdate
<1>5. /\ change = 1 => Chain!Registry!AddRegulator
      /\ change = 0 => UNCHANGED activeRegulatorCount
  BY <1>1, <1>2, <1>4, CommitCount
<1>6. IF stakeholders[id].role = Chain!Registry!Regulator
      THEN Chain!Registry!AddRegulator ELSE UNCHANGED activeRegulatorCount
  BY <1>5, SameRegistry DEF change
<1>7. Chain!Registry!ReactivateStakeholder(caller, id)
  BY <1>1, <1>4, <1>6 DEF r, Chain!Registry!ReactivateStakeholder
<1> QED
  BY <1>4, <1>7 DEF Chain!Registry!StakeholderNext

\* The two entries of a new stakeholder, whatever is written beside them
\* under the registry's own keys.
LEMMA CommitNew ==
  ASSUME Chain!TypeOK, NEW tx, NEW caller, NEW id \in StakeholderIds, NEW role,
         NEW c \in Certificates, NEW others, Apply(tx),
         tx.writes = NewStakeholderWrites(id, role, c, caller) \cup others,
         \A w \in others : w[1][1] = "registry",
         stakeholders[id] = Absent, certificates[c] = Absent
  PROVE  /\ Chain!Registry!PutNewStakeholder(id, Chain!Registry!CreateStakeholder(role, c, caller))
         /\ UNCHANGED sensorKeys /\ UNCHANGED Chain!chainVars
<1> DEFINE r == Chain!Registry!CreateStakeholder(role, c, caller)
<1>1. r.certificateId = c
  BY DEF Chain!Registry!CreateStakeholder
<1>2. NewStakeholderWrites(id, role, c, caller) = {<<StakeholderKey(id), r>>, <<CertificateKey(c), id>>}
  BY SameRegistry DEF NewStakeholderWrites
<1> HIDE DEF r
<1>3. /\ <<StakeholderKey(id), r>> \in tx.writes
      /\ <<CertificateKey(c), id>> \in tx.writes
      /\ \A w \in tx.writes : \/ w = <<StakeholderKey(id), r>>
                              \/ w = <<CertificateKey(c), id>>
                              \/ w \in others
  BY <1>2
<1>4. \A w \in tx.writes :
        \/ w = <<StakeholderKey(id), r>> /\ w[1][1] = "stakeholder"
        \/ w = <<CertificateKey(c), id>> /\ w[1][1] = "certificate"
        \/ w[1][1] = "registry"
  BY <1>3, KeyParts
<1>5. stakeholders' = [stakeholders EXCEPT ![id] = r]
  BY <1>3, <1>4, WrittenStakeholder
<1>6. certificates' = [certificates EXCEPT ![c] = id]
  BY <1>3, <1>4, WrittenCertificate
<1>7. UNCHANGED sensorKeys /\ UNCHANGED <<batches, history, evidence>>
  BY <1>4, UnwrittenTables
<1> QED
  BY <1>1, <1>5, <1>6, <1>7 DEF r, Chain!Registry!PutNewStakeholder, Chain!chainVars

LEMMA CommitBootstrap ==
  ASSUME Chain!TypeOK, NEW tx, NEW caller \in Certificates, NEW id \in StakeholderIds,
         BootstrapOk(caller, id), tx = Bootstrap(caller, id), Apply(tx)
  PROVE  Chain!Registry!StakeholderNext(caller) /\ UNCHANGED Chain!chainVars
<1>0. PICK yes : yes = TRUE
  OBVIOUS
<1> DEFINE others == {<<CountKey, 1>>, <<InitialisedKey, yes>>}
<1>1. tx.writes = NewStakeholderWrites(id, Chain!Registry!Regulator, caller, caller) \cup others
  BY <1>0, SameRegistry, Zenon DEF Bootstrap, Result
<1>2. \A w \in others : w[1][1] = "registry"
  BY KeyParts
<1> HIDE DEF others
<1>3. /\ Chain!Registry!PutNewStakeholder(id,
           Chain!Registry!CreateStakeholder(Chain!Registry!Regulator, caller, caller))
      /\ UNCHANGED sensorKeys /\ UNCHANGED Chain!chainVars
  BY <1>1, <1>2, CommitNew DEF BootstrapOk
<1>4. \A w \in tx.writes : w[1] = CountKey => w = <<CountKey, 1>>
  BY <1>1, KeyParts DEF NewStakeholderWrites, others
<1>5. \A w \in tx.writes : w[1] = InitialisedKey => w = <<InitialisedKey, yes>>
  BY <1>1, KeyParts DEF NewStakeholderWrites, others
<1>6. <<CountKey, 1>> \in tx.writes /\ <<InitialisedKey, yes>> \in tx.writes
  BY <1>1 DEF others
<1>7. activeRegulatorCount' = 1
  BY <1>4, <1>6, AfterWritten DEF Apply
<1>8. initialised' = yes
  BY <1>5, <1>6, AfterWritten DEF Apply
<1>9. Chain!Registry!BootstrapRegulator(caller, id)
  BY <1>0, <1>3, <1>7, <1>8, Zenon DEF BootstrapOk, Chain!Registry!BootstrapRegulator
<1> QED
  BY <1>3, <1>9 DEF Chain!Registry!StakeholderNext

LEMMA CommitRegister ==
  ASSUME Chain!TypeOK, NEW tx, NEW caller \in Certificates, NEW id \in StakeholderIds,
         NEW role \in Roles, NEW c \in Certificates, RegisterOk(caller, id, role, c),
         tx = Register(caller, id, role, c), Apply(tx)
  PROVE  Chain!Registry!StakeholderNext(caller) /\ UNCHANGED Chain!chainVars
<1> DEFINE regulator == role = Chain!Registry!Regulator
           count == activeRegulatorCount + 1
           others == IF regulator THEN {<<CountKey, count>>} ELSE {}
<1>1. tx.writes = NewStakeholderWrites(id, role, c, caller) \cup others
  BY SameRegistry DEF Register, Result, CountWrite
<1>2. \A w \in others : w[1][1] = "registry"
  BY KeyParts
<1>3. others = IF regulator THEN {<<CountKey, count>>} ELSE {}
  OBVIOUS
<1> HIDE DEF others
<1>4. /\ Chain!Registry!PutNewStakeholder(id, Chain!Registry!CreateStakeholder(role, c, caller))
      /\ UNCHANGED sensorKeys /\ UNCHANGED Chain!chainVars
  BY <1>1, <1>2, CommitNew DEF RegisterOk
<1>5. \A w \in tx.writes : w[1] # InitialisedKey
  BY <1>1, <1>3, KeyParts DEF NewStakeholderWrites
<1>6. UNCHANGED initialised
  BY <1>5, AfterUnwritten DEF Apply
<1>7. IF regulator THEN Chain!Registry!AddRegulator ELSE UNCHANGED activeRegulatorCount
  <2>1. CASE regulator
    <3>1. <<CountKey, count>> \in tx.writes
          /\ \A w \in tx.writes : w[1] = CountKey => w = <<CountKey, count>>
      BY <1>1, <1>3, <2>1, KeyParts DEF NewStakeholderWrites
    <3>2. activeRegulatorCount' = count
      BY <3>1, AfterWritten DEF Apply
    <3> QED
      BY <2>1, <3>2, SameRegistry DEF RegisterOk, Chain!Registry!AddRegulator
  <2>2. CASE ~regulator
    <3>1. \A w \in tx.writes : w[1] # CountKey
      BY <1>1, <1>3, <2>2, KeyParts DEF NewStakeholderWrites
    <3> QED
      BY <2>2, <3>1, AfterUnwritten DEF Apply
  <2> QED
    BY <2>1, <2>2
<1>8. Chain!Registry!RegisterStakeholder(caller, id, role, c)
  BY <1>4, <1>6, <1>7, SameRegistry DEF RegisterOk, Chain!Registry!RegisterStakeholder
<1> QED
  BY <1>4, <1>8 DEF Chain!Registry!StakeholderNext

\* A fresh transaction commits as one atomic step of the two contracts.
LEMMA CommitFresh ==
  ASSUME Chain!TypeOK, NEW tx, Fresh(tx), Apply(tx)
  PROVE  Chain!Next
<1>1. PICK caller \in Certificates :
        \/ \E id \in StakeholderIds : FreshStakeholderTx(tx, caller, id)
        \/ \E sensor \in Sensors : FreshSensorTx(tx, caller, sensor)
        \/ \E b \in Batches : FreshBatchTx(tx, caller, b) \/ FreshEvidenceTx(tx, caller, b)
  BY DEF Fresh
<1>2. ASSUME NEW id \in StakeholderIds, FreshStakeholderTx(tx, caller, id)
      PROVE  Chain!Registry!StakeholderNext(caller) /\ UNCHANGED Chain!chainVars
  BY <1>2, CommitBootstrap, CommitRegister, CommitUpdateRole, CommitSuspend, CommitReactivate
  DEF FreshStakeholderTx
<1>3. ASSUME NEW sensor \in Sensors, FreshSensorTx(tx, caller, sensor)
      PROVE  Chain!Registry!SensorNext(caller) /\ UNCHANGED Chain!chainVars
  BY <1>3, CommitSensorTx
<1>4. ASSUME NEW b \in Batches, FreshBatchTx(tx, caller, b) \/ FreshEvidenceTx(tx, caller, b)
      PROVE  Chain!LifecycleNext(caller, b) \/ Chain!ComplianceNext(caller, b)
  BY <1>4, CommitBatchTx, CommitEvidenceTx
<1> QED
  BY <1>1, <1>2, <1>3, <1>4 DEF Chain!Next, Chain!RegistryNext, Chain!ChainNext, Chain!Registry!Next

-----------------------------------------------------------------------------
(* A commit that writes nothing a simulation read leaves its outcome.      *)

\* A key that is read and not written has the same value afterwards.
LEMMA ReadsKept ==
  ASSUME NEW tx, Apply(tx), NEW reads, reads \cap KeysWritten(tx) = {}
  PROVE  /\ InitialisedKey \in reads => initialised' = initialised
         /\ CountKey \in reads => activeRegulatorCount' = activeRegulatorCount
         /\ \A id \in StakeholderIds :
              StakeholderKey(id) \in reads => stakeholders'[id] = stakeholders[id]
         /\ \A c \in Certificates :
              CertificateKey(c) \in reads => certificates'[c] = certificates[c]
         /\ \A s \in Sensors : SensorKeyKey(s) \in reads => sensorKeys'[s] = sensorKeys[s]
         /\ \A b \in Batches : BatchKey(b) \in reads => batches'[b] = batches[b]
         /\ \A e \in EvidenceIds : EvidenceKey(e) \in reads => evidence'[e] = evidence[e]
BY Unwritten

\* What an authorisation found stays: the read set names the index entry
\* and the record behind it.
LEMMA CallerKept ==
  ASSUME Chain!TypeOK, NEW caller \in Certificates, certificates[caller] # Absent,
         NEW tx, Apply(tx), NEW reads, CallerReads(caller) \subseteq reads,
         reads \cap KeysWritten(tx) = {}
  PROVE  /\ certificates'[caller] = certificates[caller]
         /\ stakeholders'[certificates[caller]] = stakeholders[certificates[caller]]
         /\ CallerReads(caller)' = CallerReads(caller)
<1>1. certificates[caller] \in StakeholderIds
  BY DEF Chain!TypeOK, Chain!Registry!TypeOK
<1>2. CertificateKey(caller) \in reads /\ StakeholderKey(certificates[caller]) \in reads
  BY DEF CallerReads
<1>3. certificates'[caller] = certificates[caller]
      /\ stakeholders'[certificates[caller]] = stakeholders[certificates[caller]]
  BY <1>1, <1>2, ReadsKept
<1> QED
  BY <1>3 DEF CallerReads, CertificateKey, StakeholderKey

LEMMA RegulatorKept ==
  ASSUME Chain!TypeOK, NEW caller \in Certificates, Registry!RequireActiveRegulator(caller),
         NEW tx, Apply(tx), NEW reads, CallerReads(caller) \subseteq reads,
         reads \cap KeysWritten(tx) = {}
  PROVE  /\ Registry!RequireActiveRegulator(caller)'
         /\ certificates'[caller] = certificates[caller]
         /\ CallerReads(caller)' = CallerReads(caller)
<1>1. certificates[caller] # Absent
  BY DEF Registry!RequireActiveRegulator, Registry!RequireActiveStakeholder, Registry!KnownCertificate
<1> QED
  BY <1>1, CallerKept
  DEF Registry!RequireActiveRegulator, Registry!RequireActiveStakeholder,
      Registry!KnownCertificate, Registry!StakeholderByCertificate, Registry!Regulator

LEMMA RoleKept ==
  ASSUME Chain!TypeOK, NEW caller \in Certificates, NEW roles, Chain!AssertActiveRole(caller, roles),
         NEW tx, Apply(tx), NEW reads, CallerReads(caller) \subseteq reads,
         reads \cap KeysWritten(tx) = {}
  PROVE  /\ Chain!AssertActiveRole(caller, roles)'
         /\ Chain!StakeholderOf(caller)' = Chain!StakeholderOf(caller)
         /\ CallerReads(caller)' = CallerReads(caller)
<1>1. certificates[caller] # Absent
  BY DEF Chain!AssertActiveRole, Chain!Registry!AssertActiveRole, Chain!Registry!KnownCertificate
<1> QED
  BY <1>1, CallerKept
  DEF Chain!AssertActiveRole, Chain!Registry!AssertActiveRole, Chain!Registry!KnownCertificate,
      Chain!Registry!StakeholderByCertificate, Chain!StakeholderOf

LEMMA FreshBatchKept ==
  ASSUME Chain!TypeOK, NEW tx, NEW caller \in Certificates, NEW b \in Batches,
         FreshBatchTx(tx, caller, b), NEW other, Apply(other), tx.reads \cap KeysWritten(other) = {}
  PROVE  FreshBatchTx(tx, caller, b)'
<1>1. ASSUME NEW call, NEW r, tx = BatchResult(call, caller, b, r)
      PROVE  CallerReads(caller) \subseteq tx.reads /\ batches'[b] = batches[b]
  <2>1. tx.reads = CallerReads(caller) \cup {BatchKey(b)}
    BY <1>1 DEF BatchResult, Result
  <2> QED
    BY <2>1, ReadsKept
<1>2. CASE CreateOk(caller, b) /\ tx = Create(caller, b)
  <2>1. CallerReads(caller) \subseteq tx.reads /\ batches'[b] = batches[b]
    BY <1>1, <1>2 DEF Create
  <2>2. /\ Chain!AssertActiveRole(caller, {"FARM"})'
        /\ Chain!StakeholderOf(caller)' = Chain!StakeholderOf(caller)
        /\ CallerReads(caller)' = CallerReads(caller)
    BY <1>2, <2>1, RoleKept DEF CreateOk
  <2>3. CreateOk(caller, b)' /\ tx = Create(caller, b)'
    BY <1>2, <2>1, <2>2 DEF CreateOk, Create, BatchResult, Result, Chain!NewBatch, BatchKey
  <2> QED
    BY <2>3 DEF FreshBatchTx
<1>3. ASSUME NEW t \in Transitions, TransitionOk(caller, b, t), tx = Transition(caller, b, t)
      PROVE  FreshBatchTx(tx, caller, b)'
  <2>1. CallerReads(caller) \subseteq tx.reads /\ batches'[b] = batches[b]
    BY <1>1, <1>3 DEF Transition
  <2>2. /\ Chain!AssertActiveRole(caller, {t[2]})'
        /\ Chain!StakeholderOf(caller)' = Chain!StakeholderOf(caller)
        /\ CallerReads(caller)' = CallerReads(caller)
    BY <1>3, <2>1, RoleKept DEF TransitionOk
  <2>3. TransitionOk(caller, b, t)' /\ tx = Transition(caller, b, t)'
    BY <1>3, <2>1, <2>2 DEF TransitionOk, Transition, BatchResult, Result, Chain!Moved, BatchKey
  <2> QED
    BY <2>3 DEF FreshBatchTx, Transitions
<1>4. CASE RecallOk(caller, b) /\ tx = Recall(caller, b)
  <2>1. CallerReads(caller) \subseteq tx.reads /\ batches'[b] = batches[b]
    BY <1>1, <1>4 DEF Recall
  <2>2. /\ Chain!AssertActiveRole(caller, {"REGULATOR"})'
        /\ Chain!StakeholderOf(caller)' = Chain!StakeholderOf(caller)
        /\ CallerReads(caller)' = CallerReads(caller)
    BY <1>4, <2>1, RoleKept DEF RecallOk
  <2>3. RecallOk(caller, b)' /\ tx = Recall(caller, b)'
    BY <1>4, <2>1, <2>2 DEF RecallOk, Recall, BatchResult, Result, Chain!Moved, BatchKey
  <2> QED
    BY <2>3 DEF FreshBatchTx
<1>5. CASE ResolveOk(caller, b) /\ tx = Resolve(caller, b)
  <2>1. CallerReads(caller) \subseteq tx.reads /\ batches'[b] = batches[b]
    BY <1>1, <1>5 DEF Resolve
  <2>2. /\ Chain!AssertActiveRole(caller, {"REGULATOR"})'
        /\ Chain!StakeholderOf(caller)' = Chain!StakeholderOf(caller)
        /\ CallerReads(caller)' = CallerReads(caller)
    BY <1>5, <2>1, RoleKept DEF ResolveOk
  <2>3. ResolveOk(caller, b)' /\ tx = Resolve(caller, b)'
    BY <1>5, <2>1, <2>2 DEF ResolveOk, Resolve, BatchResult, Result, Chain!Released, BatchKey
  <2> QED
    BY <2>3 DEF FreshBatchTx
<1> QED
  BY <1>2, <1>3, <1>4, <1>5 DEF FreshBatchTx

LEMMA FreshEvidenceKept ==
  ASSUME Chain!TypeOK, NEW tx, NEW caller \in Certificates, NEW b \in Batches,
         FreshEvidenceTx(tx, caller, b), NEW other, Apply(other), tx.reads \cap KeysWritten(other) = {}
  PROVE  FreshEvidenceTx(tx, caller, b)'
<1>1. PICK e \in EvidenceIds, hash \in Hashes, statistics \in Statistics :
        EvidenceOk(caller, e, b) /\ tx = SubmitEvidence(caller, e, b, hash, statistics)
  BY DEF FreshEvidenceTx
<1>2. tx.reads = CallerReads(caller) \cup {EvidenceKey(e), BatchKey(b)}
  BY <1>1 DEF SubmitEvidence, Result
<1>3. batches'[b] = batches[b] /\ evidence'[e] = evidence[e]
  BY <1>2, ReadsKept
<1>4. /\ Chain!AssertActiveRole(caller, {"ORACLE"})'
      /\ Chain!StakeholderOf(caller)' = Chain!StakeholderOf(caller)
      /\ CallerReads(caller)' = CallerReads(caller)
  BY <1>1, <1>2, RoleKept DEF EvidenceOk
<1>5. EvidenceOk(caller, e, b)'
  BY <1>1, <1>3, <1>4 DEF EvidenceOk
<1>6. Chain!DeriveComplianceOutcome(statistics)' = Chain!DeriveComplianceOutcome(statistics)
  BY DEF Chain!DeriveComplianceOutcome, Chain!MinSafeCelsius, Chain!MaxSafeCelsius
<1>7. tx = SubmitEvidence(caller, e, b, hash, statistics)'
  BY <1>1, <1>3, <1>4, <1>6 DEF SubmitEvidence, Result, Chain!Held, BatchKey, EvidenceKey
<1> QED
  BY <1>5, <1>7 DEF FreshEvidenceTx

LEMMA FreshSensorKept ==
  ASSUME Chain!TypeOK, NEW tx, NEW caller \in Certificates, NEW s \in Sensors,
         FreshSensorTx(tx, caller, s), NEW other, Apply(other), tx.reads \cap KeysWritten(other) = {}
  PROVE  FreshSensorTx(tx, caller, s)'
<1>1. ASSUME NEW call, NEW r, tx = SensorResult(call, caller, s, r),
             Registry!RequireActiveRegulator(caller)
      PROVE  /\ sensorKeys'[s] = sensorKeys[s]
             /\ Registry!RequireActiveRegulator(caller)'
             /\ certificates'[caller] = certificates[caller]
             /\ CallerReads(caller)' = CallerReads(caller)
  <2>1. tx.reads = CallerReads(caller) \cup {SensorKeyKey(s)}
    BY <1>1 DEF SensorResult, Result
  <2> QED
    BY <1>1, <2>1, ReadsKept, RegulatorKept
<1>2. ASSUME NEW key \in PublicKeys, RegisterSensorOk(caller, s), tx = RegisterSensor(caller, s, key)
      PROVE  FreshSensorTx(tx, caller, s)'
  <2>1. /\ sensorKeys'[s] = sensorKeys[s]
        /\ Registry!RequireActiveRegulator(caller)'
        /\ certificates'[caller] = certificates[caller]
        /\ CallerReads(caller)' = CallerReads(caller)
    BY <1>1, <1>2 DEF RegisterSensorOk, RegisterSensor
  <2>2. RegisterSensorOk(caller, s)' /\ tx = RegisterSensor(caller, s, key)'
    BY <1>2, <2>1 DEF RegisterSensorOk, RegisterSensor, SensorResult, Result, Registry!NewSensorKey,
                      SensorKeyKey
  <2> QED
    BY <2>2 DEF FreshSensorTx
<1>3. ASSUME NEW active \in BOOLEAN, SwitchSensorOk(caller, s, active),
             tx = SwitchSensor(caller, s, active)
      PROVE  FreshSensorTx(tx, caller, s)'
  <2>1. /\ sensorKeys'[s] = sensorKeys[s]
        /\ Registry!RequireActiveRegulator(caller)'
        /\ certificates'[caller] = certificates[caller]
        /\ CallerReads(caller)' = CallerReads(caller)
    BY <1>1, <1>3 DEF SwitchSensorOk, SwitchSensor
  <2>2. SwitchSensorOk(caller, s, active)' /\ tx = SwitchSensor(caller, s, active)'
    BY <1>3, <2>1 DEF SwitchSensorOk, SwitchSensor, SensorResult, Result, SensorKeyKey
  <2> QED
    BY <2>2 DEF FreshSensorTx
<1> QED
  BY <1>2, <1>3 DEF FreshSensorTx

\* The calls that change a record read the record, and the counter when they move it.
LEMMA UpdateKept ==
  ASSUME Chain!TypeOK, NEW caller \in Certificates, Registry!RequireActiveRegulator(caller),
         NEW call, NEW id \in StakeholderIds, NEW change \in Int, NEW r, CountOk(change),
         NEW tx, tx = Update(call, caller, id, change, r),
         NEW other, Apply(other), tx.reads \cap KeysWritten(other) = {}
  PROVE  /\ Registry!RequireActiveRegulator(caller)'
         /\ CallerReads(caller)' = CallerReads(caller)
         /\ stakeholders'[id] = stakeholders[id]
         /\ change # 0 => activeRegulatorCount' = activeRegulatorCount
         /\ change = 1 => Registry!CountReadable'
         /\ change = -1 => Registry!CountReadable' /\ Registry!LockoutGuard'
<1>1. tx.reads = CallerReads(caller) \cup {StakeholderKey(id)}
                 \cup (IF change # 0 THEN {CountKey} ELSE {})
  BY DEF Update, Result, CountRead
<1>2. /\ CallerReads(caller) \subseteq tx.reads
      /\ StakeholderKey(id) \in tx.reads
      /\ change # 0 => CountKey \in tx.reads
  BY <1>1
<1>3. /\ Registry!RequireActiveRegulator(caller)'
      /\ CallerReads(caller)' = CallerReads(caller)
  BY <1>2, RegulatorKept
<1>4. /\ stakeholders'[id] = stakeholders[id]
      /\ change # 0 => activeRegulatorCount' = activeRegulatorCount
  BY <1>2, ReadsKept
<1>5. /\ change = 1 => Registry!CountReadable'
      /\ change = -1 => Registry!CountReadable' /\ Registry!LockoutGuard'
  BY <1>4 DEF CountOk, Registry!CountReadable, Registry!LockoutGuard
<1> QED
  BY <1>3, <1>4, <1>5

\* Each of the registry's five calls, simulated again.
LEMMA UpdateRoleKept ==
  ASSUME Chain!TypeOK, NEW caller \in Certificates, NEW id \in StakeholderIds, NEW role \in Roles,
         UpdateRoleOk(caller, id, role), NEW tx, tx = UpdateRole(caller, id, role),
         NEW other, Apply(other), tx.reads \cap KeysWritten(other) = {}
  PROVE  UpdateRoleOk(caller, id, role)' /\ tx = UpdateRole(caller, id, role)'
<1> DEFINE change == RoleChange(id, role)
           r == Registry!WithRole(stakeholders[id], caller, role)
<1>1. Registry!RequireActiveRegulator(caller) /\ CountOk(change)
  BY DEF UpdateRoleOk
<1>2. change \in {-1, 0, 1} /\ change \in Int
  BY DEF RoleChange
<1>3. tx = Update(<<"updateStakeholderRole", caller, id, role>>, caller, id, change, r)
  BY DEF UpdateRole
<1>4. /\ Registry!RequireActiveRegulator(caller)'
      /\ CallerReads(caller)' = CallerReads(caller)
      /\ stakeholders'[id] = stakeholders[id]
      /\ change # 0 => activeRegulatorCount' = activeRegulatorCount
      /\ change = 1 => Registry!CountReadable'
      /\ change = -1 => Registry!CountReadable' /\ Registry!LockoutGuard'
  <2> HIDE DEF change, r
  <2> QED
    BY <1>1, <1>2, <1>3, UpdateKept
<1>5. RoleChange(id, role)' = change
  BY <1>4 DEF RoleChange, Registry!Regulator
<1>6. Registry!WithRole(stakeholders[id], caller, role)' = r
  BY <1>4 DEF Registry!WithRole, Registry!Edited
<1>7. CountOk(RoleChange(id, role))'
  BY <1>2, <1>4, <1>5 DEF CountOk
<1>8. UpdateRoleOk(caller, id, role)'
  BY <1>4, <1>7 DEF UpdateRoleOk
<1>9. tx = UpdateRole(caller, id, role)'
  BY <1>2, <1>3, <1>4, <1>5, <1>6
  DEF UpdateRole, Update, CountRead, CountWrite, StakeholderKey, CountKey
<1> QED
  BY <1>8, <1>9

LEMMA SuspendKept ==
  ASSUME Chain!TypeOK, NEW caller \in Certificates, NEW id \in StakeholderIds,
         SuspendOk(caller, id), NEW tx, tx = Suspend(caller, id),
         NEW other, Apply(other), tx.reads \cap KeysWritten(other) = {}
  PROVE  SuspendOk(caller, id)' /\ tx = Suspend(caller, id)'
<1> DEFINE change == IF stakeholders[id].role = Registry!Regulator THEN -1 ELSE 0
           r == Registry!WithActive(stakeholders[id], caller, FALSE)
<1>1. Registry!RequireActiveRegulator(caller) /\ CountOk(change)
  BY DEF SuspendOk
<1>2. change \in {-1, 0, 1} /\ change \in Int
  OBVIOUS
<1>3. tx = Update(<<"suspendStakeholder", caller, id>>, caller, id, change, r)
  BY DEF Suspend
<1>4. /\ Registry!RequireActiveRegulator(caller)'
      /\ CallerReads(caller)' = CallerReads(caller)
      /\ stakeholders'[id] = stakeholders[id]
      /\ change # 0 => activeRegulatorCount' = activeRegulatorCount
      /\ change = 1 => Registry!CountReadable'
      /\ change = -1 => Registry!CountReadable' /\ Registry!LockoutGuard'
  <2> HIDE DEF change, r
  <2> QED
    BY <1>1, <1>2, <1>3, UpdateKept
<1>5. change' = change
  BY <1>4 DEF Registry!Regulator
<1>6. r' = r
  BY <1>4 DEF Registry!WithActive, Registry!Edited
<1>7. CountOk(change)'
  BY <1>2, <1>4, <1>5 DEF CountOk
<1>8. SuspendOk(caller, id)'
  BY <1>4, <1>7 DEF SuspendOk
<1>9. tx = Suspend(caller, id)'
  BY <1>2, <1>3, <1>4, <1>5, <1>6
  DEF Suspend, Update, CountRead, CountWrite, StakeholderKey, CountKey
<1> QED
  BY <1>8, <1>9

LEMMA ReactivateKept ==
  ASSUME Chain!TypeOK, NEW caller \in Certificates, NEW id \in StakeholderIds,
         ReactivateOk(caller, id), NEW tx, tx = Reactivate(caller, id),
         NEW other, Apply(other), tx.reads \cap KeysWritten(other) = {}
  PROVE  ReactivateOk(caller, id)' /\ tx = Reactivate(caller, id)'
<1> DEFINE change == IF stakeholders[id].role = Registry!Regulator THEN 1 ELSE 0
           r == Registry!WithActive(stakeholders[id], caller, TRUE)
<1>1. Registry!RequireActiveRegulator(caller) /\ CountOk(change)
  BY DEF ReactivateOk
<1>2. change \in {-1, 0, 1} /\ change \in Int
  OBVIOUS
<1>3. tx = Update(<<"reactivateStakeholder", caller, id>>, caller, id, change, r)
  BY DEF Reactivate
<1>4. /\ Registry!RequireActiveRegulator(caller)'
      /\ CallerReads(caller)' = CallerReads(caller)
      /\ stakeholders'[id] = stakeholders[id]
      /\ change # 0 => activeRegulatorCount' = activeRegulatorCount
      /\ change = 1 => Registry!CountReadable'
      /\ change = -1 => Registry!CountReadable' /\ Registry!LockoutGuard'
  <2> HIDE DEF change, r
  <2> QED
    BY <1>1, <1>2, <1>3, UpdateKept
<1>5. change' = change
  BY <1>4 DEF Registry!Regulator
<1>6. r' = r
  BY <1>4 DEF Registry!WithActive, Registry!Edited
<1>7. CountOk(change)'
  BY <1>2, <1>4, <1>5 DEF CountOk
<1>8. ReactivateOk(caller, id)'
  BY <1>4, <1>7 DEF ReactivateOk
<1>9. tx = Reactivate(caller, id)'
  BY <1>2, <1>3, <1>4, <1>5, <1>6
  DEF Reactivate, Update, CountRead, CountWrite, StakeholderKey, CountKey
<1> QED
  BY <1>8, <1>9

LEMMA BootstrapKept ==
  ASSUME NEW caller \in Certificates, NEW id \in StakeholderIds, BootstrapOk(caller, id),
         NEW tx, tx = Bootstrap(caller, id),
         NEW other, Apply(other), tx.reads \cap KeysWritten(other) = {}
  PROVE  BootstrapOk(caller, id)' /\ tx = Bootstrap(caller, id)'
<1>1. tx.reads = {InitialisedKey, StakeholderKey(id), CertificateKey(caller)}
  BY DEF Bootstrap, Result
<1>2. /\ initialised' = initialised /\ stakeholders'[id] = stakeholders[id]
      /\ certificates'[caller] = certificates[caller]
  BY <1>1, ReadsKept
<1>3. BootstrapOk(caller, id)'
  BY <1>2 DEF BootstrapOk
<1>4. Bootstrap(caller, id)' = Bootstrap(caller, id)
  BY DEF Bootstrap, Result, NewStakeholderWrites, Registry!CreateStakeholder, Registry!Regulator,
         StakeholderKey, CertificateKey, InitialisedKey, CountKey
<1> QED
  BY <1>3, <1>4

LEMMA RegisterKept ==
  ASSUME Chain!TypeOK, NEW caller \in Certificates, NEW id \in StakeholderIds, NEW role \in Roles,
         NEW c \in Certificates, RegisterOk(caller, id, role, c),
         NEW tx, tx = Register(caller, id, role, c),
         NEW other, Apply(other), tx.reads \cap KeysWritten(other) = {}
  PROVE  RegisterOk(caller, id, role, c)' /\ tx = Register(caller, id, role, c)'
<1> DEFINE regulator == role = Registry!Regulator
<1>1. tx.reads = CallerReads(caller) \cup {StakeholderKey(id), CertificateKey(c)}
                 \cup (IF regulator THEN {CountKey} ELSE {})
  BY DEF Register, Result, CountRead
<1>2. /\ CallerReads(caller) \subseteq tx.reads
      /\ StakeholderKey(id) \in tx.reads /\ CertificateKey(c) \in tx.reads
      /\ regulator => CountKey \in tx.reads
  BY <1>1
<1>3. Registry!RequireActiveRegulator(caller)' /\ CallerReads(caller)' = CallerReads(caller)
  BY <1>2, RegulatorKept DEF RegisterOk
<1>4. /\ stakeholders'[id] = stakeholders[id] /\ certificates'[c] = certificates[c]
      /\ regulator => activeRegulatorCount' = activeRegulatorCount
  BY <1>2, ReadsKept
<1>5. RegisterOk(caller, id, role, c)'
  BY <1>3, <1>4 DEF RegisterOk, Registry!CountReadable, Registry!Regulator
<1>6. NewStakeholderWrites(id, role, c, caller)' = NewStakeholderWrites(id, role, c, caller)
  BY DEF NewStakeholderWrites, Registry!CreateStakeholder, StakeholderKey, CertificateKey
<1>7. CountWrite(regulator, activeRegulatorCount + 1)' = CountWrite(regulator, activeRegulatorCount + 1)
  BY <1>4 DEF CountWrite, CountKey, Registry!Regulator
<1>8. CountRead(regulator)' = CountRead(regulator)
  BY DEF CountRead, CountKey, Registry!Regulator
<1>9. tx = Register(caller, id, role, c)'
  BY <1>3, <1>6, <1>7, <1>8 DEF Register, Result, StakeholderKey, CertificateKey, Registry!Regulator
<1> QED
  BY <1>5, <1>9

LEMMA FreshStakeholderKept ==
  ASSUME Chain!TypeOK, NEW tx, NEW caller \in Certificates, NEW id \in StakeholderIds,
         FreshStakeholderTx(tx, caller, id),
         NEW other, Apply(other), tx.reads \cap KeysWritten(other) = {}
  PROVE  FreshStakeholderTx(tx, caller, id)'
<1>1. CASE BootstrapOk(caller, id) /\ tx = Bootstrap(caller, id)
  BY <1>1, BootstrapKept DEF FreshStakeholderTx
<1>2. ASSUME NEW role \in Roles, NEW c \in Certificates,
             RegisterOk(caller, id, role, c), tx = Register(caller, id, role, c)
      PROVE  FreshStakeholderTx(tx, caller, id)'
  BY <1>2, RegisterKept DEF FreshStakeholderTx
<1>3. ASSUME NEW role \in Roles, UpdateRoleOk(caller, id, role), tx = UpdateRole(caller, id, role)
      PROVE  FreshStakeholderTx(tx, caller, id)'
  BY <1>3, UpdateRoleKept DEF FreshStakeholderTx
<1>4. CASE SuspendOk(caller, id) /\ tx = Suspend(caller, id)
  BY <1>4, SuspendKept DEF FreshStakeholderTx
<1>5. CASE ReactivateOk(caller, id) /\ tx = Reactivate(caller, id)
  BY <1>5, ReactivateKept DEF FreshStakeholderTx
<1> QED
  BY <1>1, <1>2, <1>3, <1>4, <1>5 DEF FreshStakeholderTx

\* A simulation stays what it was as long as nothing it read is written.
LEMMA FreshKept ==
  ASSUME Chain!TypeOK, NEW tx, Fresh(tx), NEW other, Apply(other), tx.reads \cap KeysWritten(other) = {}
  PROVE  Fresh(tx)'
BY FreshStakeholderKept, FreshSensorKept, FreshBatchKept, FreshEvidenceKept DEF Fresh

-----------------------------------------------------------------------------
(* The theorems about SupplyChain and StakeholderRegistry hold of this     *)
(* ledger: the instances CP and RP state them, and their definitions say   *)
(* the same as those of Chain.                                             *)

LEMMA CPAssumptions ==
  /\ Statistics \subseteq {s \in [minCelsius : Int, maxCelsius : Int] : s.minCelsius <= s.maxCelsius}
  /\ CP!Registry!Regulator \in Roles
  /\ RegulatorCertificates \subseteq Certificates
  /\ Absent \notin StakeholderIds \cup CP!Registry!Stakeholder \cup CP!Registry!SensorKey
  /\ Absent \notin CP!Batch \cup CP!Evidence \cup CP!Statuses
<1>1. /\ CP!Registry!Regulator = Registry!Regulator
      /\ CP!Registry!Stakeholder = Registry!Stakeholder
      /\ CP!Registry!SensorKey = Registry!SensorKey
  BY DEF CP!Registry!Regulator, Registry!Regulator, CP!Registry!Stakeholder, Registry!Stakeholder,
         CP!Registry!SensorKey, Registry!SensorKey
<1>2. /\ CP!Batch = Chain!Batch /\ CP!Evidence = Chain!Evidence /\ CP!Statuses = Chain!Statuses
  BY DEF CP!Batch, Chain!Batch, CP!Evidence, Chain!Evidence, CP!Statuses, Chain!Statuses,
         CP!CustodyStages, Chain!CustodyStages, CP!Outcomes, Chain!Outcomes
<1> QED
  BY <1>1, <1>2, ChainAssumption

LEMMA RPAssumptions ==
  /\ RP!Regulator \in Roles
  /\ RegulatorCertificates \subseteq Certificates
  /\ Absent \notin StakeholderIds /\ Absent \notin RP!Stakeholder /\ Absent \notin RP!SensorKey
<1>1. /\ RP!Regulator = Registry!Regulator
      /\ RP!Stakeholder = Registry!Stakeholder
      /\ RP!SensorKey = Registry!SensorKey
  BY DEF RP!Regulator, Registry!Regulator, RP!Stakeholder, Registry!Stakeholder,
         RP!SensorKey, Registry!SensorKey
<1> QED
  BY <1>1, ChainAssumption

LEMMA SameTyping == CP!TypeOK <=> Chain!TypeOK
BY DEF CP!TypeOK, Chain!TypeOK, CP!Registry!TypeOK, Chain!Registry!TypeOK,
       CP!Registry!Stakeholder, Chain!Registry!Stakeholder,
       CP!Registry!SensorKey, Chain!Registry!SensorKey,
       CP!Batch, Chain!Batch, CP!Evidence, Chain!Evidence, CP!Statuses, Chain!Statuses,
       CP!CustodyStages, Chain!CustodyStages, CP!Outcomes, Chain!Outcomes

LEMMA SameRegistryNext ==
  (CP!Registry!Next <=> Chain!Registry!Next) /\ (RP!Next <=> Chain!Registry!Next)
<1>1. CP!Registry!Next <=> Chain!Registry!Next
  BY Zenon DEF
      CP!Registry!Regulator, Chain!Registry!Regulator, CP!Registry!Stakeholder,
      Chain!Registry!Stakeholder, CP!Registry!SensorKey, Chain!Registry!SensorKey,
      CP!Registry!Registered, Chain!Registry!Registered, CP!Registry!KnownCertificate,
      Chain!Registry!KnownCertificate, CP!Registry!StakeholderByCertificate,
      Chain!Registry!StakeholderByCertificate, CP!Registry!RequireActiveStakeholder,
      Chain!Registry!RequireActiveStakeholder, CP!Registry!RequireActiveRegulator,
      Chain!Registry!RequireActiveRegulator, CP!Registry!CountReadable,
      Chain!Registry!CountReadable, CP!Registry!AddRegulator, Chain!Registry!AddRegulator,
      CP!Registry!LockoutGuard, Chain!Registry!LockoutGuard, CP!Registry!RemoveRegulator,
      Chain!Registry!RemoveRegulator, CP!Registry!CreateStakeholder,
      Chain!Registry!CreateStakeholder, CP!Registry!PutNewStakeholder,
      Chain!Registry!PutNewStakeholder, CP!Registry!Edited, Chain!Registry!Edited,
      CP!Registry!WithRole, Chain!Registry!WithRole, CP!Registry!WithActive,
      Chain!Registry!WithActive, CP!Registry!PutStakeholder,
      Chain!Registry!PutStakeholder, CP!Registry!BootstrapRegulator,
      Chain!Registry!BootstrapRegulator, CP!Registry!RegisterStakeholder,
      Chain!Registry!RegisterStakeholder, CP!Registry!UpdateStakeholderRole,
      Chain!Registry!UpdateStakeholderRole, CP!Registry!SuspendStakeholder,
      Chain!Registry!SuspendStakeholder, CP!Registry!ReactivateStakeholder,
      Chain!Registry!ReactivateStakeholder, CP!Registry!NewSensorKey,
      Chain!Registry!NewSensorKey, CP!Registry!PutSensorKey, Chain!Registry!PutSensorKey,
      CP!Registry!RegisterSensorKey, Chain!Registry!RegisterSensorKey,
      CP!Registry!RevokeSensorKey, Chain!Registry!RevokeSensorKey,
      CP!Registry!ReactivateSensorKey, Chain!Registry!ReactivateSensorKey,
      CP!Registry!StakeholderNext, Chain!Registry!StakeholderNext, CP!Registry!SensorNext,
      Chain!Registry!SensorNext, CP!Registry!Next, Chain!Registry!Next
<1>2. RP!Next <=> Chain!Registry!Next
  BY Zenon DEF
      RP!Regulator, Chain!Registry!Regulator, RP!Stakeholder, Chain!Registry!Stakeholder,
      RP!SensorKey, Chain!Registry!SensorKey, RP!Registered, Chain!Registry!Registered,
      RP!KnownCertificate, Chain!Registry!KnownCertificate, RP!StakeholderByCertificate,
      Chain!Registry!StakeholderByCertificate, RP!RequireActiveStakeholder,
      Chain!Registry!RequireActiveStakeholder, RP!RequireActiveRegulator,
      Chain!Registry!RequireActiveRegulator, RP!CountReadable,
      Chain!Registry!CountReadable, RP!AddRegulator, Chain!Registry!AddRegulator,
      RP!LockoutGuard, Chain!Registry!LockoutGuard, RP!RemoveRegulator,
      Chain!Registry!RemoveRegulator, RP!CreateStakeholder,
      Chain!Registry!CreateStakeholder, RP!PutNewStakeholder,
      Chain!Registry!PutNewStakeholder, RP!Edited, Chain!Registry!Edited, RP!WithRole,
      Chain!Registry!WithRole, RP!WithActive, Chain!Registry!WithActive,
      RP!PutStakeholder, Chain!Registry!PutStakeholder, RP!BootstrapRegulator,
      Chain!Registry!BootstrapRegulator, RP!RegisterStakeholder,
      Chain!Registry!RegisterStakeholder, RP!UpdateStakeholderRole,
      Chain!Registry!UpdateStakeholderRole, RP!SuspendStakeholder,
      Chain!Registry!SuspendStakeholder, RP!ReactivateStakeholder,
      Chain!Registry!ReactivateStakeholder, RP!NewSensorKey, Chain!Registry!NewSensorKey,
      RP!PutSensorKey, Chain!Registry!PutSensorKey, RP!RegisterSensorKey,
      Chain!Registry!RegisterSensorKey, RP!RevokeSensorKey,
      Chain!Registry!RevokeSensorKey, RP!ReactivateSensorKey,
      Chain!Registry!ReactivateSensorKey, RP!StakeholderNext,
      Chain!Registry!StakeholderNext, RP!SensorNext, Chain!Registry!SensorNext, RP!Next,
      Chain!Registry!Next
<1> QED
  BY <1>1, <1>2

LEMMA SameChainNext == CP!ChainNext <=> Chain!ChainNext
BY Zenon DEF
      CP!registryVars, Chain!registryVars, CP!chainVars, Chain!chainVars, CP!Batch,
      Chain!Batch, CP!Evidence, Chain!Evidence, CP!Statuses, Chain!Statuses,
      CP!CustodyStages, Chain!CustodyStages, CP!Outcomes, Chain!Outcomes,
      CP!AssertActiveRole, Chain!AssertActiveRole, CP!StakeholderOf, Chain!StakeholderOf,
      CP!MinSafeCelsius, Chain!MinSafeCelsius, CP!MaxSafeCelsius, Chain!MaxSafeCelsius,
      CP!DeriveComplianceOutcome, Chain!DeriveComplianceOutcome, CP!PutBatch,
      Chain!PutBatch, CP!NewBatch, Chain!NewBatch, CP!Moved, Chain!Moved, CP!Held,
      Chain!Held, CP!Released, Chain!Released, CP!CreateBatch, Chain!CreateBatch,
      CP!TransitionBatch, Chain!TransitionBatch, CP!RecordProcessingEvent,
      Chain!RecordProcessingEvent, CP!StartTransport, Chain!StartTransport,
      CP!RecordDelivery, Chain!RecordDelivery, CP!RecallBatch, Chain!RecallBatch,
      CP!HoldIfUnsafe, Chain!HoldIfUnsafe, CP!SubmitTemperatureEvidence,
      Chain!SubmitTemperatureEvidence, CP!ResolveTemperatureBreach,
      Chain!ResolveTemperatureBreach, CP!LifecycleNext, Chain!LifecycleNext,
      CP!ComplianceNext, Chain!ComplianceNext, CP!ChainNext, Chain!ChainNext,
      CP!Registry!AssertActiveRole, Chain!Registry!AssertActiveRole,
      CP!Registry!KnownCertificate, Chain!Registry!KnownCertificate,
      CP!Registry!StakeholderByCertificate, Chain!Registry!StakeholderByCertificate

LEMMA SameNext == [CP!Next]_(CP!vars) <=> [Chain!Next]_(Chain!vars)
<1>1. CP!Next <=> Chain!Next
  BY SameRegistryNext, SameChainNext
  DEF CP!Next, Chain!Next, CP!RegistryNext, Chain!RegistryNext, CP!chainVars, Chain!chainVars
<1>2. CP!vars = Chain!vars /\ CP!vars' = Chain!vars'
  BY DEF CP!vars, Chain!vars, CP!registryVars, Chain!registryVars, CP!chainVars, Chain!chainVars
<1> QED
  BY <1>1, <1>2

LEMMA SameInit == (CP!Init <=> Chain!Init) /\ (Chain!Init => RP!Init)
BY DEF CP!Init, Chain!Init, CP!Registry!Init, Chain!Registry!Init, RP!Init

LEMMA ChainTyped == Chain!TypeOK /\ [Chain!Next]_(Chain!vars) => Chain!TypeOK'
<1>1. CP!TypeOK /\ [CP!Next]_(CP!vars) => CP!TypeOK'
  BY CP!BatchStep, CPAssumptions
<1>2. CP!TypeOK' <=> Chain!TypeOK'
  BY SameTyping, PTL
<1> QED
  BY <1>1, <1>2, SameTyping, SameNext

-----------------------------------------------------------------------------
(* Steps of the channel.                                                   *)

\* A proposal leaves the ledger alone, which a commit that writes nothing
\* would do, too.
LEMMA FreshUnchanged ==
  ASSUME Chain!TypeOK, NEW tx, Fresh(tx), UNCHANGED ledgerVars
  PROVE  Fresh(tx)'
<1>1. PICK none : none = [writes |-> {}]
  OBVIOUS
<1>2. KeysWritten(none) = {}
  BY <1>1 DEF KeysWritten
<1>3. Apply(none)
  BY <1>2, TablesBefore DEF ledgerVars, Apply, After
<1>4. tx.reads \cap KeysWritten(none) = {}
  BY <1>2
<1> QED
  BY <1>3, <1>4, FreshKept

\* A slot may take what was simulated on this ledger.
LEMMA ProposeStep ==
  ASSUME IInv, NEW s \in Slots, NEW tx, Fresh(tx), IsTx(tx), Propose(s, tx)
  PROVE  IInv'
<1>1. pending' = [pending EXCEPT ![s] = tx] /\ UNCHANGED ledgerVars
  BY DEF Propose
<1>2. pending = [x \in Slots |-> pending[x]]
  BY DEF IInv, PendingOK
<1>3. /\ pending' = [x \in Slots |-> pending'[x]] /\ pending'[s] = tx
      /\ \A x \in Slots \ {s} : pending'[x] = pending[x]
  BY <1>1, <1>2
<1>4. ASSUME NEW x \in Slots, pending'[x] # NoTx
      PROVE  IsTx(pending'[x]) /\ (pending'[x].stale \/ Fresh(pending[x])')
  <2>1. PICK other : other = pending'[x]
    OBVIOUS
  <2>2. IsTx(other) /\ (other.stale \/ Fresh(other))
    BY <1>3, <1>4, <2>1 DEF IInv, PendingOK
  <2>3. Fresh(other) => Fresh(other)'
    BY <1>1, FreshUnchanged DEF IInv
  <2>4. Fresh(pending[x])' <=> Fresh(other)'
    BY <2>1
  <2> QED
    BY <2>1, <2>2, <2>3, <2>4
<1>5. Chain!TypeOK'
  BY <1>1, ChainTyped DEF IInv, ledgerVars, Chain!vars, Chain!registryVars, Chain!chainVars
<1> QED
  BY <1>3, <1>4, <1>5 DEF IInv, PendingOK

\* Endorsement proposes what it simulated on this ledger.
LEMMA EndorseProposes ==
  ASSUME NEW s \in Slots, NEW caller \in Certificates
  PROVE  /\ \A id \in StakeholderIds : EndorseStakeholderTx(s, caller, id) =>
              \E tx : FreshStakeholderTx(tx, caller, id) /\ IsTx(tx) /\ Propose(s, tx)
         /\ \A sensor \in Sensors : EndorseSensorTx(s, caller, sensor) =>
              \E tx : FreshSensorTx(tx, caller, sensor) /\ IsTx(tx) /\ Propose(s, tx)
         /\ \A b \in Batches : EndorseBatchTx(s, caller, b) =>
              \E tx : FreshBatchTx(tx, caller, b) /\ IsTx(tx) /\ Propose(s, tx)
         /\ \A b \in Batches : EndorseEvidenceTx(s, caller, b) =>
              \E tx : FreshEvidenceTx(tx, caller, b) /\ IsTx(tx) /\ Propose(s, tx)
<1>1. \A id \in StakeholderIds : EndorseStakeholderTx(s, caller, id) =>
        \E tx : FreshStakeholderTx(tx, caller, id) /\ IsTx(tx) /\ Propose(s, tx)
  <2> TAKE id \in StakeholderIds
  <2>1. \A call, change, r : IsTx(Update(call, caller, id, change, r))
    BY ResultParts DEF Update
  <2>2. /\ IsTx(Bootstrap(caller, id))
        /\ \A role, c : IsTx(Register(caller, id, role, c))
    BY ResultParts DEF Bootstrap, Register
  <2>3. /\ \A role : IsTx(UpdateRole(caller, id, role))
        /\ IsTx(Suspend(caller, id)) /\ IsTx(Reactivate(caller, id))
    BY <2>1 DEF UpdateRole, Suspend, Reactivate
  <2> QED
    BY <2>2, <2>3 DEF EndorseStakeholderTx, FreshStakeholderTx
<1>2. \A sensor \in Sensors : EndorseSensorTx(s, caller, sensor) =>
        \E tx : FreshSensorTx(tx, caller, sensor) /\ IsTx(tx) /\ Propose(s, tx)
  BY ResultParts DEF EndorseSensorTx, FreshSensorTx, RegisterSensor, SwitchSensor, SensorResult
<1>3. \A b \in Batches : EndorseBatchTx(s, caller, b) =>
        \E tx : FreshBatchTx(tx, caller, b) /\ IsTx(tx) /\ Propose(s, tx)
  BY ResultParts DEF EndorseBatchTx, FreshBatchTx, Create, Transition, Recall, Resolve, BatchResult
<1>4. \A b \in Batches : EndorseEvidenceTx(s, caller, b) =>
        \E tx : FreshEvidenceTx(tx, caller, b) /\ IsTx(tx) /\ Propose(s, tx)
  BY ResultParts DEF EndorseEvidenceTx, FreshEvidenceTx, SubmitEvidence
<1> QED
  BY <1>1, <1>2, <1>3, <1>4

LEMMA DiscardStep ==
  ASSUME IInv, NEW s \in Slots, Discard(s)
  PROVE  IInv'
<1>1. pending' = [pending EXCEPT ![s] = NoTx] /\ UNCHANGED ledgerVars
  BY DEF Discard
<1>2. pending = [x \in Slots |-> pending[x]]
  BY DEF IInv, PendingOK
<1>3. /\ pending' = [x \in Slots |-> pending'[x]] /\ pending'[s] = NoTx
      /\ \A x \in Slots \ {s} : pending'[x] = pending[x]
  BY <1>1, <1>2
<1>4. ASSUME NEW x \in Slots, pending'[x] # NoTx
      PROVE  IsTx(pending'[x]) /\ (pending'[x].stale \/ Fresh(pending[x])')
  <2>1. PICK other : other = pending'[x]
    OBVIOUS
  <2>2. IsTx(other) /\ (other.stale \/ Fresh(other))
    BY <1>3, <1>4, <2>1 DEF IInv, PendingOK
  <2>3. Fresh(other) => Fresh(other)'
    BY <1>1, FreshUnchanged DEF IInv
  <2>4. Fresh(pending[x])' <=> Fresh(other)'
    BY <2>1
  <2> QED
    BY <2>1, <2>2, <2>3, <2>4
<1>5. Chain!TypeOK'
  BY <1>1, ChainTyped DEF IInv, ledgerVars, Chain!vars, Chain!registryVars, Chain!chainVars
<1> QED
  BY <1>3, <1>4, <1>5 DEF IInv, PendingOK

\* A commit is a step of SupplyChain, and the simulations it does not
\* outdate are as good as new.
LEMMA CommitStep ==
  ASSUME IInv, NEW s \in Slots, Commit(s)
  PROVE  Chain!Next /\ IInv'
<1>1. PICK tx : tx = pending[s]
  OBVIOUS
<1>2. tx # NoTx /\ ~tx.stale /\ Apply(tx)
  BY <1>1 DEF Commit
<1>3. Fresh(tx)
  BY <1>1, <1>2 DEF IInv, PendingOK
<1>4. Chain!Next
  BY <1>2, <1>3, CommitFresh DEF IInv
<1>5. Chain!TypeOK'
  BY <1>4, ChainTyped DEF IInv
<1>6. /\ pending' = [x \in Slots |-> pending'[x]]
      /\ \A x \in Slots : pending'[x] # NoTx =>
           pending[x] # NoTx /\ pending'[x] = MarkStale(pending[x], tx)
  BY <1>1 DEF Commit
<1>7. ASSUME NEW x \in Slots, pending'[x] # NoTx
      PROVE  IsTx(pending'[x]) /\ (pending'[x].stale \/ Fresh(pending[x])')
  <2>1. PICK other : other = pending[x]
    OBVIOUS
  <2>2. IsTx(other) /\ (other.stale \/ Fresh(other))
    BY <1>6, <1>7, <2>1 DEF IInv, PendingOK
  <2>3. PICK read \in BOOLEAN : read = (other.reads \cap KeysWritten(tx) # {})
    OBVIOUS
  <2>4. pending'[x] = [call |-> other.call, reads |-> other.reads, writes |-> other.writes,
                       stale |-> other.stale \/ read]
    BY <1>6, <1>7, <2>1, <2>2, <2>3 DEF MarkStale, IsTx
  <2>5. IsTx(pending'[x])
    BY <2>2, <2>3, <2>4 DEF IsTx
  <2>6. ASSUME ~pending'[x].stale PROVE Fresh(pending[x])'
    <3>1. pending'[x].stale = (other.stale \/ read)
      BY <2>4
    <3>2. ~other.stale /\ other.reads \cap KeysWritten(tx) = {}
      BY <2>3, <2>6, <3>1, Zenon
    <3>3. Fresh(other)'
      BY <1>2, <2>2, <3>2, FreshKept DEF IInv
    <3>4. pending'[x] = other
      BY <2>2, <2>3, <2>4, <3>2 DEF IsTx
    <3> QED
      BY <3>3, <3>4
  <2> QED
    BY <2>5, <2>6
<1> QED
  BY <1>4, <1>5, <1>6, <1>7 DEF IInv, PendingOK

LEMMA ChannelStep ==
  ASSUME IInv, [Next]_vars
  PROVE  IInv' /\ (Chain!Next \/ UNCHANGED ledgerVars)
<1>1. ASSUME NEW s \in Slots, NEW tx, Fresh(tx), IsTx(tx), Propose(s, tx)
      PROVE  IInv' /\ UNCHANGED ledgerVars
  BY <1>1, ProposeStep DEF Propose
<1>2. ASSUME NEW s \in Slots, NEW caller \in Certificates,
             \/ \E id \in StakeholderIds : EndorseStakeholderTx(s, caller, id)
             \/ \E sensor \in Sensors : EndorseSensorTx(s, caller, sensor)
             \/ \E b \in Batches : EndorseBatchTx(s, caller, b) \/ EndorseEvidenceTx(s, caller, b)
      PROVE  IInv' /\ UNCHANGED ledgerVars
  <2>1. \E tx : Fresh(tx) /\ IsTx(tx) /\ Propose(s, tx)
    BY <1>2, EndorseProposes DEF Fresh
  <2> QED
    BY <1>1, <2>1
<1>3. ASSUME NEW s \in Slots, Discard(s) PROVE IInv' /\ UNCHANGED ledgerVars
  BY <1>3, DiscardStep DEF Discard
<1>4. ASSUME NEW s \in Slots, Commit(s) PROVE IInv' /\ Chain!Next
  BY <1>4, CommitStep
<1>5. CASE UNCHANGED vars
  <2>1. UNCHANGED ledgerVars /\ UNCHANGED pending
    BY <1>5 DEF vars
  <2>2. Chain!TypeOK'
    BY <2>1, ChainTyped DEF IInv, ledgerVars, Chain!vars, Chain!registryVars, Chain!chainVars
  <2>3. ASSUME NEW x \in Slots, pending'[x] # NoTx
        PROVE  IsTx(pending'[x]) /\ (pending'[x].stale \/ Fresh(pending[x])')
    <3>1. PICK other : other = pending[x]
      OBVIOUS
    <3>2. IsTx(other) /\ (other.stale \/ Fresh(other))
      BY <2>1, <2>3, <3>1 DEF IInv, PendingOK
    <3>3. Fresh(other) => Fresh(other)'
      BY <2>1, FreshUnchanged DEF IInv
    <3>4. pending'[x] = other
      BY <2>1, <3>1
    <3> QED
      BY <3>2, <3>3, <3>4
  <2>4. pending' = [s \in Slots |-> pending'[s]]
    BY <2>1 DEF IInv, PendingOK
  <2> QED
    BY <2>1, <2>2, <2>3, <2>4 DEF IInv, PendingOK
<1>6. CASE Next
  BY <1>2, <1>3, <1>4, <1>6 DEF Next
<1> QED
  BY <1>5, <1>6

LEMMA InvInit == Init => IInv
<1> SUFFICES ASSUME Init PROVE IInv
  OBVIOUS
<1>1. CP!TypeOK
  BY CP!InitTyped, CPAssumptions, SameInit DEF Init
<1>2. PendingOK
  BY DEF Init, Idle, PendingOK
<1> QED
  BY <1>1, <1>2, SameTyping DEF IInv

LEMMA Invariance == Spec => []IInv
<1>1. IInv /\ [Next]_vars => IInv'
  BY ChannelStep
<1> QED
  BY <1>1, InvInit, PTL DEF Spec

-----------------------------------------------------------------------------
(* What the channel promises.                                              *)

\* Every record on the channel is well formed, also between an endorsement
\* and the commit it leads to.
THEOREM LedgerTyped == Spec => []Chain!TypeOK
<1>1. IInv => Chain!TypeOK
  BY DEF IInv
<1> QED
  BY <1>1, Invariance, PTL

\* Whatever is simulated, delayed, reordered, outdated or lost: what commits
\* is what the contracts let happen, one transaction after the other.
THEOREM ChannelImplementsSupplyChain == Spec => ImplementsSupplyChain
<1>1. Init => Chain!Init
  BY DEF Init
<1>2. IInv /\ [Next]_vars => [Chain!Next]_(Chain!vars)
  BY ChannelStep DEF ledgerVars, Chain!vars, Chain!registryVars, Chain!chainVars
<1> QED
  BY <1>1, <1>2, Invariance, PTL DEF Spec, ImplementsSupplyChain, Chain!Spec

\* The same as a property of each step, from any ledger.
THEOREM CommitsAreSerial == Spec => EveryCommitSerial
<1>1. IInv /\ [Next]_vars => [ledgerVars' # ledgerVars => Chain!Next]_vars
  BY ChannelStep
<1> QED
  BY <1>1, Invariance, PTL DEF Spec, EveryCommitSerial

LEMMA CommitIsSupplyChain == IInv /\ [Next]_vars => [CP!Next]_(CP!vars)
<1>1. IInv /\ [Next]_vars => [Chain!Next]_(Chain!vars)
  BY ChannelStep DEF ledgerVars, Chain!vars, Chain!registryVars, Chain!chainVars
<1> QED
  BY <1>1, SameNext

\* Hence every theorem about SupplyChain is one about the channel ...
LEMMA IsSupplyChain == Spec => CP!Spec
<1>1. Init => CP!Init
  BY SameInit DEF Init
<1> QED
  BY <1>1, CommitIsSupplyChain, Invariance, PTL DEF Spec, CP!Spec

\* ... and every theorem about the registry, too.
LEMMA RegistryStep == IInv /\ [Next]_vars => [RP!Next]_(RP!vars)
<1> SUFFICES ASSUME IInv, [Next]_vars PROVE [RP!Next]_(RP!vars)
  OBVIOUS
<1>1. CASE UNCHANGED ledgerVars
  BY <1>1 DEF ledgerVars, RP!vars
<1>2. CASE Chain!RegistryNext
  BY <1>2, SameRegistryNext DEF Chain!RegistryNext
<1>3. CASE Chain!ChainNext
  <2>1. UNCHANGED Chain!registryVars
    BY <1>3 DEF Chain!ChainNext, Chain!LifecycleNext, Chain!ComplianceNext, Chain!CreateBatch,
       Chain!RecordProcessingEvent, Chain!StartTransport, Chain!RecordDelivery,
       Chain!TransitionBatch, Chain!RecallBatch, Chain!SubmitTemperatureEvidence,
       Chain!ResolveTemperatureBreach
  <2> QED
    BY <2>1 DEF Chain!registryVars, RP!vars
<1> QED
  BY <1>1, <1>2, <1>3, ChannelStep DEF Chain!Next

LEMMA IsRegistry == Spec => RP!Spec
<1>1. Init => RP!Init
  BY SameInit DEF Init
<1> QED
  BY <1>1, RegistryStep, Invariance, PTL DEF Spec, RP!Spec

\* Regulators who suspend or demote each other at the same time do not lock
\* the consortium out.
THEOREM NeverLockedOut == Spec => []NoLockout
<1>1. RP!Spec => []RP!NoLockout
  BY RP!NeverLockedOut, RPAssumptions
<1>2. RP!NoLockout <=> NoLockout
  BY DEF RP!NoLockout, NoLockout, Registry!NoLockout, RP!ActiveRegulators, Registry!ActiveRegulators,
         RP!Registered, Registry!Registered, RP!Regulator, Registry!Regulator
<1> QED
  BY <1>1, <1>2, IsRegistry, PTL

\* A batch on hold knows its stage, on the channel as in the contracts.
LEMMA HoldsRememberTheirStage == Spec => []Chain!HoldRemembersStage
<1>1. CP!Spec => []CP!HoldRemembersStage
  BY CP!HoldsRememberTheirStage, CPAssumptions
<1>2. CP!HoldRemembersStage <=> Chain!HoldRemembersStage
  BY DEF CP!HoldRemembersStage, Chain!HoldRemembersStage, CP!CustodyStages, Chain!CustodyStages
<1> QED
  BY <1>1, <1>2, IsSupplyChain, PTL

-----------------------------------------------------------------------------
(* Authority and finality of what is committed.                            *)

\* Who passed the registry's check holds the role.
LEMMA CallerHasRole ==
  ASSUME NEW caller, NEW role, Chain!AssertActiveRole(caller, {role})
  PROVE  HasRole(Chain!StakeholderOf(caller), role)
BY DEF Chain!AssertActiveRole, Chain!Registry!AssertActiveRole, Chain!Registry!KnownCertificate,
       Chain!Registry!StakeholderByCertificate, Chain!StakeholderOf, HasRole

\* The records the methods write, by status and author.
LEMMA RecordParts ==
  /\ \A author : Chain!NewBatch(author).lastUpdatedBy = author
  /\ \A r \in Chain!Batch : \A author :
       /\ \A status : /\ Chain!Moved(r, status, author).status = status
                      /\ Chain!Moved(r, status, author).lastUpdatedBy = author
       /\ Chain!Held(r, author).status = "COLD_CHAIN_BREACH" /\ Chain!Held(r, author).lastUpdatedBy = author
       /\ Chain!Released(r, author).status = IF r.statusBeforeBreach = Absent
                                         THEN "IN_TRANSIT" ELSE r.statusBeforeBreach
       /\ Chain!Released(r, author).lastUpdatedBy = author
<1>1. \A author : Chain!NewBatch(author).lastUpdatedBy = author
  BY DEF Chain!NewBatch
<1>2. ASSUME NEW r \in Chain!Batch, NEW author
      PROVE  /\ \A status : /\ Chain!Moved(r, status, author).status = status
                            /\ Chain!Moved(r, status, author).lastUpdatedBy = author
             /\ Chain!Held(r, author).status = "COLD_CHAIN_BREACH" /\ Chain!Held(r, author).lastUpdatedBy = author
  BY DEF Chain!Batch, Chain!Moved, Chain!Held
<1>3. ASSUME NEW r \in Chain!Batch, NEW author
      PROVE  /\ Chain!Released(r, author).status = IF r.statusBeforeBreach = Absent
                                               THEN "IN_TRANSIT" ELSE r.statusBeforeBreach
             /\ Chain!Released(r, author).lastUpdatedBy = author
  BY DEF Chain!Batch, Chain!Released
<1> QED
  BY <1>1, <1>2, <1>3

\* The conjuncts of AuthorityAtCommit and EvidenceFinal on the chain's tables.
BatchesAuthored ==
  \A b \in Batches : batches'[b] # batches[b] =>
    HasRole(batches'[b].lastUpdatedBy, RoleFor(batches[b], batches'[b]))

EvidenceAuthored ==
  \A e \in EvidenceIds : evidence'[e] # evidence[e] =>
    /\ HasRole(evidence'[e].submittedBy, "ORACLE")
    /\ evidence[e] = Absent
    /\ batches[evidence'[e].batchId].status # "RECALLED"

\* One method after the other.
LEMMA PutAuthored ==
  ASSUME Chain!TypeOK, NEW b \in Batches, NEW r, Chain!PutBatch(b, r),
         HasRole(r.lastUpdatedBy, RoleFor(batches[b], r))
  PROVE  BatchesAuthored
<1>1. batches' = [batches EXCEPT ![b] = r]
  BY DEF Chain!PutBatch
<1>2. batches'[b] = r /\ \A x \in Batches : x # b => batches'[x] = batches[x]
  BY <1>1, TablesBefore
<1> QED
  BY <1>2 DEF BatchesAuthored

LEMMA LifecycleAuthored ==
  ASSUME Chain!TypeOK, Chain!HoldRemembersStage, NEW caller \in Certificates, NEW b \in Batches,
         Chain!LifecycleNext(caller, b)
  PROVE  BatchesAuthored /\ UNCHANGED evidence
<1> DEFINE author == Chain!StakeholderOf(caller)
<1>1. batches[b] # Absent => batches[b] \in Chain!Batch
  BY DEF Chain!TypeOK
<1>2. CASE Chain!CreateBatch(caller, b)
  <2>1. /\ HasRole(author, "FARM") /\ batches[b] = Absent /\ Chain!PutBatch(b, Chain!NewBatch(author))
        /\ UNCHANGED evidence
    BY <1>2, CallerHasRole DEF Chain!CreateBatch
  <2>2. RoleFor(batches[b], Chain!NewBatch(author)) = "FARM"
    BY <2>1 DEF RoleFor
  <2> QED
    BY <2>1, <2>2, RecordParts, PutAuthored
<1>3. ASSUME NEW role, NEW status, NEW next, Chain!TransitionBatch(caller, b, role, status, next),
             \/ role = "PROCESSOR" /\ status = "CREATED" /\ next = "PROCESSED"
             \/ role = "LOGISTICS" /\ status = "PROCESSED" /\ next = "IN_TRANSIT"
             \/ role = "RETAILER" /\ status = "IN_TRANSIT" /\ next = "DELIVERED"
      PROVE  BatchesAuthored /\ UNCHANGED evidence
  <2>1. /\ HasRole(author, role) /\ batches[b] # Absent /\ batches[b].status = status
        /\ Chain!PutBatch(b, Chain!Moved(batches[b], next, author))
        /\ UNCHANGED evidence
    BY <1>3, CallerHasRole DEF Chain!TransitionBatch
  <2>2. batches[b] \in Chain!Batch
    BY <1>1, <2>1
  <2>3. /\ Chain!Moved(batches[b], next, author).status = next
        /\ Chain!Moved(batches[b], next, author).lastUpdatedBy = author
    BY <2>2, RecordParts
  <2>4. RoleFor(batches[b], Chain!Moved(batches[b], next, author)) = role
    BY <1>3, <2>1, <2>3 DEF RoleFor
  <2> QED
    BY <2>1, <2>3, <2>4, PutAuthored
<1>4. CASE Chain!RecallBatch(caller, b)
  <2>1. /\ HasRole(author, "REGULATOR") /\ batches[b] # Absent
        /\ Chain!PutBatch(b, Chain!Moved(batches[b], "RECALLED", author))
        /\ UNCHANGED evidence
    BY <1>4, CallerHasRole DEF Chain!RecallBatch
  <2>2. /\ Chain!Moved(batches[b], "RECALLED", author).status = "RECALLED"
        /\ Chain!Moved(batches[b], "RECALLED", author).lastUpdatedBy = author
    BY <1>1, <2>1, RecordParts
  <2>3. RoleFor(batches[b], Chain!Moved(batches[b], "RECALLED", author)) = "REGULATOR"
    BY <2>1, <2>2 DEF RoleFor
  <2> QED
    BY <2>1, <2>2, <2>3, PutAuthored
<1> QED
  BY <1>2, <1>3, <1>4
  DEF Chain!LifecycleNext, Chain!RecordProcessingEvent, Chain!StartTransport, Chain!RecordDelivery

LEMMA EvidenceAuthoredStep ==
  ASSUME Chain!TypeOK, NEW caller \in Certificates, NEW b \in Batches, NEW e \in EvidenceIds,
         NEW hash \in Hashes, NEW s \in Statistics,
         Chain!SubmitTemperatureEvidence(caller, e, b, hash, s)
  PROVE  BatchesAuthored /\ EvidenceAuthored
<1> DEFINE author == Chain!StakeholderOf(caller)
           outcome == Chain!DeriveComplianceOutcome(s)
           new == [batchId |-> b, evidenceHash |-> hash, complianceOutcome |-> outcome,
                   submittedBy |-> author]
<1>1. /\ HasRole(author, "ORACLE") /\ evidence[e] = Absent
      /\ batches[b] # Absent /\ batches[b].status # "RECALLED"
      /\ evidence' = [evidence EXCEPT ![e] = new]
      /\ Chain!HoldIfUnsafe(b, outcome, author)
  BY CallerHasRole DEF Chain!SubmitTemperatureEvidence
<1> HIDE DEF outcome
<1>2. evidence'[e] = new /\ \A x \in EvidenceIds : x # e => evidence'[x] = evidence[x]
  BY <1>1, TablesBefore
<1>3. EvidenceAuthored
  BY <1>1, <1>2 DEF EvidenceAuthored
<1>4. CASE outcome = "UNSAFE"
  <2>1. Chain!PutBatch(b, Chain!Held(batches[b], author))
    BY <1>1, <1>4 DEF Chain!HoldIfUnsafe
  <2>2. batches[b] \in Chain!Batch
    BY <1>1 DEF Chain!TypeOK
  <2>3. /\ Chain!Held(batches[b], author).status = "COLD_CHAIN_BREACH"
        /\ Chain!Held(batches[b], author).lastUpdatedBy = author
    BY <2>2, RecordParts
  <2>4. RoleFor(batches[b], Chain!Held(batches[b], author)) = "ORACLE"
    BY <1>1, <2>3 DEF RoleFor
  <2> QED
    BY <1>1, <1>3, <2>1, <2>3, <2>4, PutAuthored
<1>5. CASE outcome # "UNSAFE"
  BY <1>1, <1>3, <1>5 DEF Chain!HoldIfUnsafe, BatchesAuthored
<1> QED
  BY <1>4, <1>5

\* The release of a hold is the regulator's, because a hold knows its stage.
LEMMA ResolveAuthored ==
  ASSUME Chain!TypeOK, Chain!HoldRemembersStage, NEW caller \in Certificates, NEW b \in Batches,
         Chain!ResolveTemperatureBreach(caller, b)
  PROVE  BatchesAuthored /\ UNCHANGED evidence
<1> DEFINE author == Chain!StakeholderOf(caller)
           r == Chain!Released(batches[b], author)
<1>1. /\ HasRole(author, "REGULATOR") /\ batches[b] # Absent
      /\ batches[b].status = "COLD_CHAIN_BREACH" /\ Chain!PutBatch(b, r) /\ UNCHANGED evidence
  BY CallerHasRole DEF Chain!ResolveTemperatureBreach
<1>2. batches[b] \in Chain!Batch
  BY <1>1 DEF Chain!TypeOK
<1>3. batches[b].statusBeforeBreach \in Chain!CustodyStages
  BY <1>1 DEF Chain!HoldRemembersStage
<1>4. r.status \in Chain!CustodyStages /\ r.lastUpdatedBy = author
  BY <1>2, <1>3, RecordParts DEF Chain!CustodyStages
<1>5. RoleFor(batches[b], r) = "REGULATOR"
  BY <1>1, <1>4 DEF RoleFor, Chain!CustodyStages
<1> QED
  BY <1>1, <1>4, <1>5, PutAuthored

LEMMA CommitAuthored ==
  ASSUME Chain!TypeOK, Chain!HoldRemembersStage, Chain!Next
  PROVE  BatchesAuthored /\ EvidenceAuthored
<1>1. UNCHANGED evidence => EvidenceAuthored
  BY DEF EvidenceAuthored
<1>2. CASE Chain!RegistryNext
  BY <1>2 DEF Chain!RegistryNext, Chain!chainVars, BatchesAuthored, EvidenceAuthored
<1>3. CASE Chain!ChainNext
  BY <1>1, <1>3, LifecycleAuthored, EvidenceAuthoredStep, ResolveAuthored
  DEF Chain!ChainNext, Chain!ComplianceNext
<1> QED
  BY <1>2, <1>3 DEF Chain!Next

EvidenceKept ==
  \A e \in EvidenceIds :
    /\ evidence[e] # Absent => evidence'[e] = evidence[e]
    /\ evidence'[e] # evidence[e] => batches[evidence'[e].batchId].status # "RECALLED"

LEMMA FinalStep == IInv /\ Chain!HoldRemembersStage /\ [Next]_vars => [EvidenceKept]_vars
<1> SUFFICES ASSUME IInv, Chain!HoldRemembersStage, [Next]_vars PROVE EvidenceKept
  OBVIOUS
<1>1. CASE UNCHANGED ledgerVars
  BY <1>1 DEF ledgerVars, EvidenceKept
<1>2. CASE Chain!Next
  BY <1>2, CommitAuthored DEF IInv, EvidenceAuthored, EvidenceKept
<1> QED
  BY <1>1, <1>2, ChannelStep

\* Anchored evidence is final, and a recall that won the race stays final, too.
THEOREM EvidenceIsFinal == Spec => EvidenceFinal
BY FinalStep, Invariance, HoldsRememberTheirStage, PTL DEF Spec, EvidenceFinal, EvidenceKept

Signed ==
  /\ \A b \in Batches :
       batches'[b] # batches[b] =>
         HasRole(batches'[b].lastUpdatedBy, RoleFor(batches[b], batches'[b]))
  /\ \A e \in EvidenceIds :
       evidence'[e] # evidence[e] => HasRole(evidence'[e].submittedBy, "ORACLE")
  /\ \A id \in StakeholderIds :
       (initialised /\ stakeholders'[id] # stakeholders[id]) =>
         HasRole(certificates[stakeholders'[id].updatedBy], Registry!Regulator)

LEMMA AuthorityStep == IInv /\ Chain!HoldRemembersStage /\ [Next]_vars => [Signed]_vars
<1> DEFINE RegulatorSigned == \A id \in StakeholderIds :
             (initialised /\ stakeholders'[id] # stakeholders[id]) =>
               HasRole(certificates[stakeholders'[id].updatedBy], Registry!Regulator)
<1>1. RP!TypeOK /\ [RP!Next]_(RP!vars) => RegulatorSigned
  <2> SUFFICES ASSUME RP!TypeOK, [RP!Next]_(RP!vars) PROVE RegulatorSigned
    OBVIOUS
  <2>1. CASE UNCHANGED RP!vars
    BY <2>1 DEF RP!vars
  <2>2. CASE ~ UNCHANGED RP!vars
    <3>1. RP!EditorAuthorised
      BY <2>2, RP!StepAudited, RPAssumptions
    <3> QED
      BY <3>1 DEF RP!EditorAuthorised, RP!ActiveRegulators, RP!Registered, HasRole,
         RP!Regulator, Registry!Regulator
  <2> QED
    BY <2>1, <2>2
<1>2. Chain!TypeOK => RP!TypeOK
  BY DEF Chain!TypeOK, Chain!Registry!TypeOK, RP!TypeOK, RP!Stakeholder, Chain!Registry!Stakeholder,
         RP!SensorKey, Chain!Registry!SensorKey
<1>3. IInv /\ [Next]_vars => RegulatorSigned
  BY <1>1, <1>2, RegistryStep DEF IInv
<1>4. IInv /\ Chain!HoldRemembersStage /\ [Next]_vars =>
        [BatchesAuthored /\ EvidenceAuthored]_vars
  <2> SUFFICES ASSUME IInv, Chain!HoldRemembersStage, [Next]_vars
               PROVE  BatchesAuthored /\ EvidenceAuthored
    OBVIOUS
  <2>1. CASE UNCHANGED ledgerVars
    BY <2>1 DEF ledgerVars, BatchesAuthored, EvidenceAuthored
  <2>2. CASE Chain!Next
    BY <2>2, CommitAuthored DEF IInv
  <2> QED
    BY <2>1, <2>2, ChannelStep
<1> QED
  BY <1>3, <1>4 DEF BatchesAuthored, EvidenceAuthored, Signed

\* Whoever signs a batch, an evidence or a stakeholder record holds the role
\* for it on the ledger the record is committed to.
THEOREM AuthorityHoldsAtCommit == Spec => AuthorityAtCommit
BY AuthorityStep, Invariance, HoldsRememberTheirStage, PTL DEF Spec, AuthorityAtCommit, Signed

-----------------------------------------------------------------------------
(* The channel of a seeded consortium.                                     *)

LEMMA SameSeeding ==
  ASSUME NEW regulator, NEW certificateOf, NEW roleOf, NEW keyOf
  PROVE  CP!SeededInit(regulator, certificateOf, roleOf, keyOf)
           <=> Chain!SeededInit(regulator, certificateOf, roleOf, keyOf)
BY Zenon DEF CP!SeededInit, Chain!SeededInit, CP!Cardinality, Chain!Cardinality,
             CP!Registry!CreateStakeholder, Chain!Registry!CreateStakeholder,
             CP!Registry!NewSensorKey, Chain!Registry!NewSensorKey

\* What the channel promises from an empty ledger, it promises from the
\* ledger that a completed seeding leaves.
THEOREM SeededChannelKeepsItsPromises ==
  ASSUME NEW CONSTANT regulator, NEW CONSTANT certificateOf, NEW CONSTANT roleOf,
         NEW CONSTANT keyOf, CP!Consortium(regulator, certificateOf, roleOf, keyOf)
  PROVE  Chain!SeededInit(regulator, certificateOf, roleOf, keyOf) /\ Idle /\ [][Next]_vars =>
           EveryCommitSerial /\ EvidenceFinal /\ AuthorityAtCommit /\ []NoLockout
<1> DEFINE Seeded == CP!SeededInit(regulator, certificateOf, roleOf, keyOf)
<1>1. Chain!SeededInit(regulator, certificateOf, roleOf, keyOf) => Seeded
  BY SameSeeding
<1>2. Seeded => CP!Good
  BY CP!SeededLedgerIsGood, CPAssumptions
<1>3. CP!Good => Chain!TypeOK /\ Chain!HoldRemembersStage /\ NoLockout
  <2> SUFFICES ASSUME CP!Good PROVE Chain!TypeOK /\ Chain!HoldRemembersStage /\ NoLockout
    OBVIOUS
  <2>1. CP!TypeOK /\ CP!HoldRemembersStage /\ CP!Registry!NoLockout
    BY CP!GoodMeans, CPAssumptions
  <2> QED
    BY <2>1, SameTyping
    DEF CP!HoldRemembersStage, Chain!HoldRemembersStage, CP!CustodyStages, Chain!CustodyStages,
        CP!Registry!NoLockout, NoLockout, Registry!NoLockout, CP!Registry!ActiveRegulators,
        Registry!ActiveRegulators, CP!Registry!Registered, Registry!Registered,
        CP!Registry!Regulator, Registry!Regulator
<1>4. CP!Good /\ Idle => IInv
  BY <1>3 DEF Idle, IInv, PendingOK
<1>5. IInv /\ [Next]_vars => IInv'
  BY ChannelStep
<1>6. IInv /\ CP!Good /\ [Next]_vars => CP!Good'
  BY CommitIsSupplyChain, CP!GoodStep, CPAssumptions
<1>7. IInv /\ [Next]_vars => [ledgerVars' # ledgerVars => Chain!Next]_vars
  BY ChannelStep
<1> HIDE DEF Seeded
<1> QED
  BY <1>1, <1>2, <1>3, <1>4, <1>5, <1>6, <1>7, FinalStep, AuthorityStep, PTL
  DEF EveryCommitSerial, EvidenceFinal, AuthorityAtCommit, EvidenceKept, Signed
=============================================================================
