------------------------ MODULE StakeholderRegistry ------------------------
(***************************************************************************)
(* The stakeholder chaincode: the on-chain registry of who may act in      *)
(* which role, and of which public key belongs to which sensor             *)
(* (fabric/chaincode/stakeholder/src/contracts/StakeholderRegistryContract).*)
(*                                                                         *)
(* Every action is one whole transaction that commits: its conjuncts are   *)
(* the checks of the method in the order of the code, a method that throws *)
(* writes nothing and is a disabled action.  How a transaction is endorsed *)
(* on a snapshot and validated later is the subject of FabricLedger, which *)
(* refines this module.                                                    *)
(*                                                                         *)
(* Time stamps and transaction ids are left out: they are stored and never *)
(* read back by a method.  The identities a record names as its creator    *)
(* and last editor are kept.                                               *)
(***************************************************************************)
EXTENDS Naturals, FiniteSets

CONSTANTS
  StakeholderIds,          \* business identifiers a regulator may register
  Certificates,            \* certificate ids (Fabric client identities)
  RegulatorCertificates,   \* the certificates issued under RegulatorMSP
  Roles,                   \* role names parseRole accepts
  Sensors,                 \* sensor ids
  PublicKeys,              \* public keys parsePublicKey accepts
  Absent                   \* the empty value getState returns for a free key

Regulator == "REGULATOR"

Stakeholder ==
  [role : Roles, certificateId : Certificates, active : BOOLEAN,
   createdBy : Certificates, updatedBy : Certificates]

SensorKey ==
  [publicKey : PublicKeys, active : BOOLEAN,
   registeredBy : StakeholderIds, updatedBy : StakeholderIds]

ASSUME RolesAssumption == Regulator \in Roles

ASSUME CertificatesAssumption == RegulatorCertificates \subseteq Certificates

ASSUME AbsentAssumption == /\ Absent \notin StakeholderIds
                           /\ Absent \notin Stakeholder
                           /\ Absent \notin SensorKey

VARIABLES
  initialised,             \* registry.initialised holds a transaction id
  activeRegulatorCount,    \* registry.activeRegulatorCount, 0 while absent
  stakeholders,            \* the records under the stakeholder prefix
  certificates,            \* the certificate index: certificate -> stakeholder id
  sensorKeys               \* the records under the sensorKey prefix

vars == <<initialised, activeRegulatorCount, stakeholders, certificates, sensorKeys>>

TypeOK ==
  /\ initialised \in BOOLEAN
  /\ activeRegulatorCount \in Nat
  /\ stakeholders \in [StakeholderIds -> Stakeholder \cup {Absent}]
  /\ certificates \in [Certificates -> StakeholderIds \cup {Absent}]
  /\ sensorKeys \in [Sensors -> SensorKey \cup {Absent}]

-----------------------------------------------------------------------------
(* Lookups and authorisation.                                              *)

Registered == {id \in StakeholderIds : stakeholders[id] # Absent}

\* The record behind a certificate, for a certificate with an index entry
\* whose record exists (getStakeholderByCertificate throws otherwise).
KnownCertificate(c) == /\ certificates[c] # Absent
                       /\ stakeholders[certificates[c]] # Absent

StakeholderByCertificate(c) == stakeholders[certificates[c]]

RequireActiveStakeholder(caller) ==
  /\ KnownCertificate(caller)
  /\ StakeholderByCertificate(caller).active

\* Defect: the role is checked and the suspension is not.
RequireActiveRegulator_IgnoresSuspension(caller) ==
  /\ KnownCertificate(caller)
  /\ StakeholderByCertificate(caller).role = Regulator

RequireActiveRegulator(caller) ==
  /\ RequireActiveStakeholder(caller)
  /\ StakeholderByCertificate(caller).role = Regulator

\* The cross-chaincode question: may this certificate act in one of these
\* roles?  The certificate asked about must be the invoker's own.
AssertActiveRole(invoker, c, allowedRoles) ==
  /\ c = invoker
  /\ allowedRoles # {} /\ allowedRoles \subseteq Roles
  /\ KnownCertificate(c)
  /\ StakeholderByCertificate(c).active
  /\ StakeholderByCertificate(c).role \in allowedRoles

ActiveRegulators ==
  {id \in Registered : stakeholders[id].active /\ stakeholders[id].role = Regulator}

-----------------------------------------------------------------------------
(* The regulator counter.                                                  *)

\* getActiveRegulatorCount throws unless the stored counter is at least 1.
CountReadable == activeRegulatorCount >= 1

AddRegulator ==
  /\ CountReadable
  /\ activeRegulatorCount' = activeRegulatorCount + 1

\* Defect: the guard looks at the counter it is about to write off by one.
LockoutGuard_OffByOne == activeRegulatorCount >= 1

\* The final active regulator can be neither suspended nor demoted
\* (assertMoreThanOneActiveRegulator, and the bound the decrement checks).
LockoutGuard == /\ activeRegulatorCount > 1
                /\ activeRegulatorCount - 1 >= 1

RemoveRegulator ==
  /\ CountReadable
  /\ LockoutGuard
  /\ activeRegulatorCount' = activeRegulatorCount - 1

-----------------------------------------------------------------------------
(* Writing records.                                                        *)

CreateStakeholder(role, c, caller) ==
  [role |-> role, certificateId |-> c, active |-> TRUE,
   createdBy |-> caller, updatedBy |-> caller]

\* Defect: the index entry of a certificate in use is overwritten.
PutNewStakeholder_NoCertificateCheck(id, record) ==
  /\ stakeholders[id] = Absent
  /\ stakeholders' = [stakeholders EXCEPT ![id] = record]
  /\ certificates' = [certificates EXCEPT ![record.certificateId] = id]

\* One record per business id and per certificate; both keys are written.
PutNewStakeholder(id, record) ==
  /\ stakeholders[id] = Absent
  /\ certificates[record.certificateId] = Absent
  /\ stakeholders' = [stakeholders EXCEPT ![id] = record]
  /\ certificates' = [certificates EXCEPT ![record.certificateId] = id]

\* Defect: an edit rewrites the creation metadata as well.
Edited_RewritesCreator(record, caller) ==
  [record EXCEPT !.createdBy = caller, !.updatedBy = caller]

\* updateStakeholder without the change itself: creation metadata survives,
\* the editor is recorded.
Edited(record, caller) == [record EXCEPT !.updatedBy = caller]

WithRole(record, caller, role) == [Edited(record, caller) EXCEPT !.role = role]
WithActive(record, caller, active) == [Edited(record, caller) EXCEPT !.active = active]

PutStakeholder(id, record) ==
  /\ stakeholders' = [stakeholders EXCEPT ![id] = record]
  /\ UNCHANGED <<initialised, certificates, sensorKeys>>

-----------------------------------------------------------------------------
(* Transactions on stakeholders.                                           *)

Init ==
  /\ initialised = FALSE
  /\ activeRegulatorCount = 0
  /\ stakeholders = [id \in StakeholderIds |-> Absent]
  /\ certificates = [c \in Certificates |-> Absent]
  /\ sensorKeys = [s \in Sensors |-> Absent]

\* The one registration nobody vouches for.
BootstrapRegulator(caller, id) ==
  /\ caller \in RegulatorCertificates
  /\ ~initialised
  /\ PutNewStakeholder(id, CreateStakeholder(Regulator, caller, caller))
  /\ activeRegulatorCount' = 1
  /\ initialised' = TRUE
  /\ UNCHANGED sensorKeys

RegisterStakeholder(caller, id, role, c) ==
  /\ RequireActiveRegulator(caller)
  /\ PutNewStakeholder(id, CreateStakeholder(role, c, caller))
  /\ IF role = Regulator THEN AddRegulator ELSE UNCHANGED activeRegulatorCount
  /\ UNCHANGED <<initialised, sensorKeys>>

UpdateStakeholderRole(caller, id, newRole) ==
  /\ RequireActiveRegulator(caller)
  /\ stakeholders[id] # Absent
  /\ stakeholders[id].role # newRole
  /\ IF stakeholders[id].active /\ stakeholders[id].role = Regulator THEN RemoveRegulator
     ELSE IF stakeholders[id].active /\ newRole = Regulator THEN AddRegulator
     ELSE UNCHANGED activeRegulatorCount
  /\ PutStakeholder(id, WithRole(stakeholders[id], caller, newRole))

SuspendStakeholder(caller, id) ==
  /\ RequireActiveRegulator(caller)
  /\ stakeholders[id] # Absent
  /\ stakeholders[id].active
  /\ IF stakeholders[id].role = Regulator THEN RemoveRegulator
                                          ELSE UNCHANGED activeRegulatorCount
  /\ PutStakeholder(id, WithActive(stakeholders[id], caller, FALSE))

\* Defect: a reactivated regulator is not counted again.
ReactivateStakeholder_NotCounted(caller, id) ==
  /\ RequireActiveRegulator(caller)
  /\ stakeholders[id] # Absent
  /\ ~stakeholders[id].active
  /\ UNCHANGED activeRegulatorCount
  /\ PutStakeholder(id, WithActive(stakeholders[id], caller, TRUE))

ReactivateStakeholder(caller, id) ==
  /\ RequireActiveRegulator(caller)
  /\ stakeholders[id] # Absent
  /\ ~stakeholders[id].active
  /\ IF stakeholders[id].role = Regulator THEN AddRegulator
                                          ELSE UNCHANGED activeRegulatorCount
  /\ PutStakeholder(id, WithActive(stakeholders[id], caller, TRUE))

-----------------------------------------------------------------------------
(* Transactions on sensor keys.                                            *)

\* Defect: the audit fields take the caller's certificate for its stakeholder id.
NewSensorKey_ByCertificate(key, caller) ==
  [publicKey |-> key, active |-> TRUE, registeredBy |-> caller, updatedBy |-> caller]

NewSensorKey(key, caller) ==
  [publicKey |-> key, active |-> TRUE,
   registeredBy |-> certificates[caller], updatedBy |-> certificates[caller]]

PutSensorKey(s, record) ==
  /\ sensorKeys' = [sensorKeys EXCEPT ![s] = record]
  /\ UNCHANGED <<initialised, activeRegulatorCount, stakeholders, certificates>>

\* Defect: a second registration takes the place of a revoked key.
RegisterSensorKey_ReplacesRevoked(caller, s, key) ==
  /\ RequireActiveRegulator(caller)
  /\ sensorKeys[s] # Absent => ~sensorKeys[s].active
  /\ PutSensorKey(s, NewSensorKey(key, caller))

\* Never replaces a key: readings were signed with the one on the ledger.
RegisterSensorKey(caller, s, key) ==
  /\ RequireActiveRegulator(caller)
  /\ sensorKeys[s] = Absent
  /\ PutSensorKey(s, NewSensorKey(key, caller))

RevokeSensorKey(caller, s) ==
  /\ RequireActiveRegulator(caller)
  /\ sensorKeys[s] # Absent
  /\ sensorKeys[s].active
  /\ PutSensorKey(s, [sensorKeys[s] EXCEPT !.active = FALSE,
                                           !.updatedBy = certificates[caller]])

ReactivateSensorKey(caller, s) ==
  /\ RequireActiveRegulator(caller)
  /\ sensorKeys[s] # Absent
  /\ ~sensorKeys[s].active
  /\ PutSensorKey(s, [sensorKeys[s] EXCEPT !.active = TRUE,
                                           !.updatedBy = certificates[caller]])

-----------------------------------------------------------------------------

StakeholderNext(caller) ==
  \E id \in StakeholderIds :
    \/ BootstrapRegulator(caller, id)
    \/ \E role \in Roles, c \in Certificates : RegisterStakeholder(caller, id, role, c)
    \/ \E role \in Roles : UpdateStakeholderRole(caller, id, role)
    \/ SuspendStakeholder(caller, id)
    \/ ReactivateStakeholder(caller, id)

SensorNext(caller) ==
  \E s \in Sensors :
    \/ \E key \in PublicKeys : RegisterSensorKey(caller, s, key)
    \/ RevokeSensorKey(caller, s)
    \/ ReactivateSensorKey(caller, s)

Next == \E caller \in Certificates : StakeholderNext(caller) \/ SensorNext(caller)

Spec == Init /\ [][Next]_vars

-----------------------------------------------------------------------------
(* Properties.                                                             *)

\* The certificate index and the records agree: an index entry leads to a
\* record that carries this certificate, and every record is indexed under
\* its certificate.  Authorisation looks callers up through the index only.
IndexConsistent ==
  /\ \A c \in Certificates :
       certificates[c] # Absent =>
         /\ certificates[c] \in Registered
         /\ stakeholders[certificates[c]].certificateId = c
  /\ \A id \in Registered : certificates[stakeholders[id].certificateId] = id

\* The persisted counter, which is the only lockout guard the code consults,
\* is the number of active regulators, across registrations, promotions,
\* demotions, suspensions and reactivations in any order.
CountMatches == activeRegulatorCount = Cardinality(ActiveRegulators)

\* Nobody can lock the consortium out: once the registry is initialised
\* some certificate leads to an active regulator, for ever.
NoLockout == initialised => \E c \in Certificates : certificates[c] \in ActiveRegulators

\* "This narrowly scoped exception ... permanently closes itself": exactly
\* one record vouched for itself, and following who created whom from any
\* record ends there, so no group of records vouches only for each other.
Voucher(id) == certificates[stakeholders[id].createdBy]
Roots == {id \in Registered : Voucher(id) = id}

VouchedFor ==
  initialised =>
    /\ Cardinality(Roots) = 1
    /\ \A group \in (SUBSET Registered) \ {{}} :
         (\A id \in group : Voucher(id) \in group) => Roots \subseteq group

\* What the audit trail promises: a stakeholder record is never deleted, and
\* its certificate and creator never change; a sensor's key is never deleted
\* or replaced, also not after it was revoked.
RecordsKept ==
  /\ \A id \in Registered :
       /\ stakeholders'[id] # Absent
       /\ stakeholders'[id].certificateId = stakeholders[id].certificateId
       /\ stakeholders'[id].createdBy = stakeholders[id].createdBy
  /\ \A s \in Sensors :
       sensorKeys[s] # Absent =>
         /\ sensorKeys'[s] # Absent
         /\ sensorKeys'[s].publicKey = sensorKeys[s].publicKey
         /\ sensorKeys'[s].registeredBy = sensorKeys[s].registeredBy

RecordsPersist == [][RecordsKept]_vars

\* Whoever is named as the last editor of a record was, when the edit was
\* made, an active regulator: also when a regulator's edit takes away its
\* own right to make the next one.
EditorAuthorised ==
  /\ \A id \in StakeholderIds :
       (initialised /\ stakeholders'[id] # stakeholders[id]) =>
          certificates[stakeholders'[id].updatedBy] \in ActiveRegulators
  /\ \A s \in Sensors :
       sensorKeys'[s] # sensorKeys[s] => sensorKeys'[s].updatedBy \in ActiveRegulators

EditorWasRegulator == [][EditorAuthorised]_vars

============================================================================
