---------------------------- MODULE FabricLedger ----------------------------
(***************************************************************************)
(* The channel as Fabric runs it.  A submitted transaction is simulated by *)
(* the endorsing peers on the ledger they have, which records every key    *)
(* the two chaincodes read and every key they would write; some time later *)
(* it is ordered, and each peer commits it only if nothing it read has     *)
(* been written since (docs/transaction-flow.md).  Between the two, other  *)
(* transactions commit, the orderer picks any order, and a proposal may be *)
(* lost for good.                                                          *)
(*                                                                         *)
(* A slot is one transaction in flight.  `stale` stands for the comparison *)
(* of key versions at validation: a key has the version it was read at as  *)
(* long as no committed transaction has written it.  A peer that endorses  *)
(* on an old ledger is a transaction that waits longer for its turn.       *)
(*                                                                         *)
(* Each transaction is an Ok predicate (the checks of the method, in this  *)
(* order, on the simulated ledger) and a result: the call, its read set    *)
(* and its writes.  The module shows that what commits is exactly what     *)
(* SupplyChain lets happen in one atomic step.                             *)
(***************************************************************************)
EXTENDS Integers, Sequences, FiniteSets

CONSTANTS
  StakeholderIds, Certificates, RegulatorCertificates, Roles, Sensors, PublicKeys, Absent,
  Batches, EvidenceIds, Hashes, Statistics,
  Slots,                   \* transactions that may be in flight at once
  NoTx,                    \* a slot that holds none
  Workload                 \* names of the transactions clients submit

VARIABLES
  initialised, activeRegulatorCount, stakeholders, certificates, sensorKeys,
  batches, history, evidence,
  pending                  \* slot -> endorsed transaction not yet decided

ledgerVars == <<initialised, activeRegulatorCount, stakeholders, certificates, sensorKeys,
                batches, history, evidence>>
vars == <<ledgerVars, pending>>

Registry == INSTANCE StakeholderRegistry
Chain == INSTANCE SupplyChain

\* What the two contracts assume of these constants.
ASSUME ChainAssumption ==
  /\ Statistics \subseteq {s \in [minCelsius : Int, maxCelsius : Int] : s.minCelsius <= s.maxCelsius}
  /\ Registry!Regulator \in Roles
  /\ RegulatorCertificates \subseteq Certificates
  /\ Absent \notin StakeholderIds \cup Registry!Stakeholder \cup Registry!SensorKey
  /\ Absent \notin Chain!Batch \cup Chain!Evidence \cup Chain!Statuses

-----------------------------------------------------------------------------
(* The keys of the world state, and a transaction as simulated.            *)

InitialisedKey == <<"registry", "initialised">>
CountKey == <<"registry", "activeRegulatorCount">>
StakeholderKey(id) == <<"stakeholder", id>>
CertificateKey(c) == <<"certificate", c>>
SensorKeyKey(s) == <<"sensorKey", s>>
BatchKey(b) == <<"batch", b>>
EvidenceKey(e) == <<"temperatureEvidence", e>>

\* A write is a pair of a key and its new value.
Result(call, reads, writes) ==
  [call |-> call, reads |-> reads, writes |-> writes, stale |-> FALSE]

KeysWritten(tx) == {w[1] : w \in tx.writes}

\* The value of a key after tx, `old` if tx leaves it alone.
After(tx, key, old) ==
  IF key \in KeysWritten(tx) THEN (CHOOSE w \in tx.writes : w[1] = key)[2] ELSE old

\* Defect: only the index entry of the caller is in the read set, as if the
\* registry were asked on another channel.
CallerReads_IndexOnly(caller) == {CertificateKey(caller)}

\* What every authorisation reads, in the chaincode itself and across
\* chaincodes on the same channel: the index entry and the caller's record.
CallerReads(caller) == {CertificateKey(caller), StakeholderKey(certificates[caller])}

\* Defect: the counter comes from the memory of the chaincode process.
CountRead_Cached(changes) == {}

\* The counter is read and written only when an active regulator is made or lost.
CountRead(changes) == IF changes THEN {CountKey} ELSE {}
CountWrite(changes, count) == IF changes THEN {<<CountKey, count>>} ELSE {}

-----------------------------------------------------------------------------
(* The registry's transactions.                                            *)

NewStakeholderWrites(id, role, c, caller) ==
  {<<StakeholderKey(id), Registry!CreateStakeholder(role, c, caller)>>, <<CertificateKey(c), id>>}

BootstrapOk(caller, id) ==
  /\ caller \in RegulatorCertificates
  /\ ~initialised
  /\ stakeholders[id] = Absent
  /\ certificates[caller] = Absent

Bootstrap(caller, id) ==
  Result(<<"bootstrapRegulator", caller, id>>,
         {InitialisedKey, StakeholderKey(id), CertificateKey(caller)},
         NewStakeholderWrites(id, Registry!Regulator, caller, caller)
           \cup {<<CountKey, 1>>, <<InitialisedKey, TRUE>>})

RegisterOk(caller, id, role, c) ==
  /\ Registry!RequireActiveRegulator(caller)
  /\ stakeholders[id] = Absent
  /\ certificates[c] = Absent
  /\ role = Registry!Regulator => Registry!CountReadable

Register(caller, id, role, c) ==
  LET regulator == role = Registry!Regulator IN
  Result(<<"registerStakeholder", caller, id, role, c>>,
         CallerReads(caller) \cup {StakeholderKey(id), CertificateKey(c)} \cup CountRead(regulator),
         NewStakeholderWrites(id, role, c, caller) \cup CountWrite(regulator, activeRegulatorCount + 1))

\* Updating a record: its key is read and written, the counter moves by
\* `change` when the update makes (+1) or unmakes (-1) an active regulator.
CountOk(change) == CASE change = 1 -> Registry!CountReadable
                     [] change = -1 -> Registry!CountReadable /\ Registry!LockoutGuard
                     [] OTHER -> TRUE

Update(call, caller, id, change, record) ==
  Result(call,
         CallerReads(caller) \cup {StakeholderKey(id)} \cup CountRead(change # 0),
         {<<StakeholderKey(id), record>>} \cup CountWrite(change # 0, activeRegulatorCount + change))

RoleChange(id, newRole) ==
  LET wasRegulator == stakeholders[id].role = Registry!Regulator IN
  CASE stakeholders[id].active /\ wasRegulator -> -1
    [] stakeholders[id].active /\ ~wasRegulator /\ newRole = Registry!Regulator -> 1
    [] OTHER -> 0

UpdateRoleOk(caller, id, newRole) ==
  /\ Registry!RequireActiveRegulator(caller)
  /\ stakeholders[id] # Absent
  /\ stakeholders[id].role # newRole
  /\ CountOk(RoleChange(id, newRole))

UpdateRole(caller, id, newRole) ==
  Update(<<"updateStakeholderRole", caller, id, newRole>>, caller, id, RoleChange(id, newRole),
         Registry!WithRole(stakeholders[id], caller, newRole))

SuspendOk(caller, id) ==
  /\ Registry!RequireActiveRegulator(caller)
  /\ stakeholders[id] # Absent
  /\ stakeholders[id].active
  /\ CountOk(IF stakeholders[id].role = Registry!Regulator THEN -1 ELSE 0)

Suspend(caller, id) ==
  Update(<<"suspendStakeholder", caller, id>>, caller, id,
         IF stakeholders[id].role = Registry!Regulator THEN -1 ELSE 0,
         Registry!WithActive(stakeholders[id], caller, FALSE))

ReactivateOk(caller, id) ==
  /\ Registry!RequireActiveRegulator(caller)
  /\ stakeholders[id] # Absent
  /\ ~stakeholders[id].active
  /\ CountOk(IF stakeholders[id].role = Registry!Regulator THEN 1 ELSE 0)

Reactivate(caller, id) ==
  Update(<<"reactivateStakeholder", caller, id>>, caller, id,
         IF stakeholders[id].role = Registry!Regulator THEN 1 ELSE 0,
         Registry!WithActive(stakeholders[id], caller, TRUE))

SensorResult(call, caller, s, record) ==
  Result(call, CallerReads(caller) \cup {SensorKeyKey(s)}, {<<SensorKeyKey(s), record>>})

RegisterSensorOk(caller, s) ==
  /\ Registry!RequireActiveRegulator(caller)
  /\ sensorKeys[s] = Absent

RegisterSensor(caller, s, key) ==
  SensorResult(<<"registerSensorKey", caller, s, key>>, caller, s,
               Registry!NewSensorKey(key, caller))

\* Revoking (from active) and reactivating (from revoked) a key.
SwitchSensorOk(caller, s, active) ==
  /\ Registry!RequireActiveRegulator(caller)
  /\ sensorKeys[s] # Absent
  /\ sensorKeys[s].active # active

SwitchSensor(caller, s, active) ==
  SensorResult(<<IF active THEN "reactivateSensorKey" ELSE "revokeSensorKey", caller, s>>,
               caller, s,
               [sensorKeys[s] EXCEPT !.active = active, !.updatedBy = certificates[caller]])

-----------------------------------------------------------------------------
(* The supply chain's transactions.                                        *)

\* Defect: the record is written without having been read in this transaction.
BatchResult_BlindWrite(call, caller, b, record) ==
  Result(call, CallerReads(caller), {<<BatchKey(b), record>>})

BatchResult(call, caller, b, record) ==
  Result(call, CallerReads(caller) \cup {BatchKey(b)}, {<<BatchKey(b), record>>})

CreateOk(caller, b) ==
  /\ Chain!AssertActiveRole(caller, {"FARM"})
  /\ batches[b] = Absent

Create(caller, b) ==
  BatchResult(<<"createBatch", caller, b>>, caller, b,
              Chain!NewBatch(Chain!StakeholderOf(caller)))

\* The three custody steps: the method, its role, the status it expects and
\* the status it writes.
Transitions ==
  {<<"recordProcessingEvent", "PROCESSOR", "CREATED", "PROCESSED">>,
   <<"startTransport", "LOGISTICS", "PROCESSED", "IN_TRANSIT">>,
   <<"recordDelivery", "RETAILER", "IN_TRANSIT", "DELIVERED">>}

TransitionOk(caller, b, t) ==
  /\ Chain!AssertActiveRole(caller, {t[2]})
  /\ batches[b] # Absent
  /\ batches[b].status = t[3]

Transition(caller, b, t) ==
  BatchResult(<<t[1], caller, b>>, caller, b,
              Chain!Moved(batches[b], t[4], Chain!StakeholderOf(caller)))

RecallOk(caller, b) ==
  /\ Chain!AssertActiveRole(caller, {"REGULATOR"})
  /\ batches[b] # Absent
  /\ batches[b].status # "RECALLED"

Recall(caller, b) ==
  BatchResult(<<"recallBatch", caller, b>>, caller, b,
              Chain!Moved(batches[b], "RECALLED", Chain!StakeholderOf(caller)))

ResolveOk(caller, b) ==
  /\ Chain!AssertActiveRole(caller, {"REGULATOR"})
  /\ batches[b] # Absent
  /\ batches[b].status = "COLD_CHAIN_BREACH"

Resolve(caller, b) ==
  BatchResult(<<"resolveTemperatureBreach", caller, b>>, caller, b,
              Chain!Released(batches[b], Chain!StakeholderOf(caller)))

\* Defect: the batch's existence is checked and its recall is not.
EvidenceOk_AfterRecall(caller, e, b) ==
  /\ Chain!AssertActiveRole(caller, {"ORACLE"})
  /\ evidence[e] = Absent
  /\ batches[b] # Absent

EvidenceOk(caller, e, b) ==
  /\ Chain!AssertActiveRole(caller, {"ORACLE"})
  /\ evidence[e] = Absent
  /\ batches[b] # Absent
  /\ batches[b].status # "RECALLED"

\* Compliant evidence reads the batch and does not write it.
SubmitEvidence(caller, e, b, hash, statistics) ==
  LET outcome == Chain!DeriveComplianceOutcome(statistics)
      by == Chain!StakeholderOf(caller)
  IN Result(<<"submitTemperatureEvidence", caller, e, b, hash, statistics>>,
            CallerReads(caller) \cup {EvidenceKey(e), BatchKey(b)},
            {<<EvidenceKey(e), [batchId |-> b, evidenceHash |-> hash,
                                complianceOutcome |-> outcome, submittedBy |-> by]>>}
              \cup (IF outcome = "UNSAFE"
                    THEN {<<BatchKey(b), Chain!Held(batches[b], by)>>} ELSE {}))

-----------------------------------------------------------------------------
(* Endorsement: a free slot takes a transaction the peers agreed on.       *)

Propose(s, tx) ==
  /\ tx.call[1] \in Workload
  /\ pending' = [pending EXCEPT ![s] = tx]
  /\ UNCHANGED ledgerVars

EndorseStakeholderTx(s, caller, id) ==
  /\ pending[s] = NoTx
  /\ \/ BootstrapOk(caller, id) /\ Propose(s, Bootstrap(caller, id))
     \/ \E role \in Roles, c \in Certificates :
          RegisterOk(caller, id, role, c) /\ Propose(s, Register(caller, id, role, c))
     \/ \E role \in Roles :
          UpdateRoleOk(caller, id, role) /\ Propose(s, UpdateRole(caller, id, role))
     \/ SuspendOk(caller, id) /\ Propose(s, Suspend(caller, id))
     \/ ReactivateOk(caller, id) /\ Propose(s, Reactivate(caller, id))

EndorseSensorTx(s, caller, sensor) ==
  /\ pending[s] = NoTx
  /\ \/ \E key \in PublicKeys :
          RegisterSensorOk(caller, sensor) /\ Propose(s, RegisterSensor(caller, sensor, key))
     \/ \E active \in BOOLEAN :
          SwitchSensorOk(caller, sensor, active) /\ Propose(s, SwitchSensor(caller, sensor, active))

EndorseBatchTx(s, caller, b) ==
  /\ pending[s] = NoTx
  /\ \/ CreateOk(caller, b) /\ Propose(s, Create(caller, b))
     \/ \E t \in Transitions :
          TransitionOk(caller, b, t) /\ Propose(s, Transition(caller, b, t))
     \/ RecallOk(caller, b) /\ Propose(s, Recall(caller, b))
     \/ ResolveOk(caller, b) /\ Propose(s, Resolve(caller, b))

EndorseEvidenceTx(s, caller, b) ==
  /\ pending[s] = NoTx
  /\ \E e \in EvidenceIds, hash \in Hashes, statistics \in Statistics :
       /\ EvidenceOk(caller, e, b)
       /\ Propose(s, SubmitEvidence(caller, e, b, hash, statistics))

-----------------------------------------------------------------------------
(* Ordering, validation and commit.                                        *)

\* Every other transaction in flight that read a key tx writes is outdated.
MarkStale(other, tx) == [other EXCEPT !.stale = @ \/ other.reads \cap KeysWritten(tx) # {}]

Apply(tx) ==
  /\ initialised' = After(tx, InitialisedKey, initialised)
  /\ activeRegulatorCount' = After(tx, CountKey, activeRegulatorCount)
  /\ stakeholders' = [id \in StakeholderIds |-> After(tx, StakeholderKey(id), stakeholders[id])]
  /\ certificates' = [c \in Certificates |-> After(tx, CertificateKey(c), certificates[c])]
  /\ sensorKeys' = [s \in Sensors |-> After(tx, SensorKeyKey(s), sensorKeys[s])]
  /\ batches' = [b \in Batches |-> After(tx, BatchKey(b), batches[b])]
  /\ history' = [b \in Batches |->
       IF BatchKey(b) \in KeysWritten(tx)
       THEN Append(history[b], After(tx, BatchKey(b), batches[b])) ELSE history[b]]
  /\ evidence' = [e \in EvidenceIds |-> After(tx, EvidenceKey(e), evidence[e])]

Commit(s) ==
  /\ pending[s] # NoTx
  /\ ~pending[s].stale
  /\ Apply(pending[s])
  /\ pending' = [x \in Slots |-> IF x = s \/ pending[x] = NoTx THEN NoTx
                                 ELSE MarkStale(pending[x], pending[s])]

\* An outdated transaction reaches its block and is marked invalid; one whose
\* client fails between endorsement and ordering reaches none.
Discard(s) ==
  /\ pending[s] # NoTx
  /\ pending' = [pending EXCEPT ![s] = NoTx]
  /\ UNCHANGED ledgerVars

-----------------------------------------------------------------------------

Idle == pending = [s \in Slots |-> NoTx]

Init == Chain!Init /\ Idle

Next ==
  \E s \in Slots :
    \/ Commit(s)
    \/ Discard(s)
    \/ \E caller \in Certificates :
         \/ \E id \in StakeholderIds : EndorseStakeholderTx(s, caller, id)
         \/ \E sensor \in Sensors : EndorseSensorTx(s, caller, sensor)
         \/ \E b \in Batches : EndorseBatchTx(s, caller, b) \/ EndorseEvidenceTx(s, caller, b)

Spec == Init /\ [][Next]_vars

-----------------------------------------------------------------------------
(* Properties.                                                             *)

\* Fabric's optimistic execution keeps the contracts' promise of one atomic
\* transaction after the other: every commit changes the ledger as one
\* method would that ran alone on the ledger it commits on, although it was
\* simulated on an earlier one.  (As a whole specification, from an empty
\* ledger, and as a step property, from any state of the ledger.)
ImplementsSupplyChain == Chain!Spec
EveryCommitSerial == [][ledgerVars' # ledgerVars => Chain!Next]_vars

\* The role that may turn the record of a batch into its next one.
RoleFor(old, new) ==
  IF old = Absent THEN "FARM"
  ELSE IF new.status = "RECALLED" THEN "REGULATOR"
  ELSE IF new.status = "COLD_CHAIN_BREACH" THEN "ORACLE"
  ELSE IF old.status = "COLD_CHAIN_BREACH" THEN "REGULATOR"
  ELSE [PROCESSED |-> "PROCESSOR", IN_TRANSIT |-> "LOGISTICS", DELIVERED |-> "RETAILER"][new.status]

HasRole(id, role) == /\ stakeholders[id] # Absent
                     /\ stakeholders[id].active
                     /\ stakeholders[id].role = role

\* A suspension or a change of role is effective at once: whoever a batch
\* record, an evidence record or a registry record names as its author holds
\* the role for it, and is active, on the very ledger the record is committed
\* to, and not only on the one it was endorsed on.
AuthorityAtCommit ==
  [][/\ \A b \in Batches :
          batches'[b] # batches[b] =>
            HasRole(batches'[b].lastUpdatedBy, RoleFor(batches[b], batches'[b]))
     /\ \A e \in EvidenceIds :
          evidence'[e] # evidence[e] => HasRole(evidence'[e].submittedBy, "ORACLE")
     /\ \A id \in StakeholderIds :
          (initialised /\ stakeholders'[id] # stakeholders[id]) =>
            HasRole(certificates[stakeholders'[id].updatedBy], Registry!Regulator)]_vars

\* Two regulators that suspend or demote each other at the same time, each on
\* a ledger where the other is still active, do not lock the consortium out.
NoLockout == Registry!NoLockout

\* Anchored evidence is final: no transaction, also no second submission that
\* was endorsed before the first one committed, replaces it, and none is
\* anchored for a batch that a racing recall withdrew first.
EvidenceFinal ==
  [][\A e \in EvidenceIds :
       /\ evidence[e] # Absent => evidence'[e] = evidence[e]
       /\ evidence'[e] # evidence[e] => batches[evidence'[e].batchId].status # "RECALLED"]_vars

============================================================================
