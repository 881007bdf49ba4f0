--------------------- MODULE StakeholderRegistryProofs ---------------------
(***************************************************************************)
(* Theorems about StakeholderRegistry, for any sets of identities,         *)
(* certificates, roles and sensors, finite or not.                         *)
(*                                                                         *)
(* CountMatches alone is not inductive: that a transaction changes the     *)
(* number of active regulators by what it adds to the counter needs the    *)
(* records it touches to be typed, the set of active regulators to be      *)
(* finite, and the empty registry to be really empty before the bootstrap. *)
(* NoLockout needs, besides, the certificate index to lead from some       *)
(* certificate to every registered identity.  VouchedFor needs that there  *)
(* is one root and that every set closed under vouchers contains it        *)
(* (VouchInv), which a new identity with a known voucher cannot break.     *)
(***************************************************************************)
EXTENDS StakeholderRegistry, FiniteSetTheorems, TLAPS

\* The registry is empty until somebody bootstraps it, and keeps a regulator
\* from then on.
EmptyUntilBootstrap ==
  IF initialised THEN activeRegulatorCount >= 1
                 ELSE /\ activeRegulatorCount = 0
                      /\ \A id \in StakeholderIds : stakeholders[id] = Absent

CountInv == /\ IsFiniteSet(ActiveRegulators)
            /\ CountMatches
            /\ EmptyUntilBootstrap

IInv == TypeOK /\ IndexConsistent /\ CountInv

-----------------------------------------------------------------------------
(* Type correctness.                                                       *)

\* Looking a caller up through the index, as every authorisation does, yields
\* a registered id and a well-formed record.
LEMMA CallerTyped ==
  ASSUME TypeOK, NEW caller \in Certificates, RequireActiveRegulator(caller)
  PROVE  /\ certificates[caller] \in Registered
         /\ stakeholders[certificates[caller]] \in Stakeholder
BY AbsentAssumption DEF TypeOK, RequireActiveRegulator, RequireActiveStakeholder,
   KnownCertificate, Registered

\* A record that is there is a stakeholder record.
LEMMA RecordTyped ==
  ASSUME TypeOK, NEW id \in StakeholderIds, stakeholders[id] # Absent
  PROVE  stakeholders[id] \in Stakeholder
BY DEF TypeOK

\* A new record is a record.
LEMMA CreatedTyped ==
  ASSUME NEW role \in Roles, NEW c \in Certificates, NEW caller \in Certificates
  PROVE  /\ CreateStakeholder(role, c, caller) \in Stakeholder
         /\ CreateStakeholder(role, c, caller).role = role
         /\ CreateStakeholder(role, c, caller).active
BY DEF CreateStakeholder, Stakeholder

\* What an edit writes: the certificate stays, so does every field but the
\* editor and the one that is changed.
LEMMA EditedFields ==
  ASSUME NEW r \in Stakeholder, NEW caller \in Certificates
  PROVE  /\ \A role \in Roles :
              /\ WithRole(r, caller, role) \in Stakeholder
              /\ WithRole(r, caller, role).certificateId = r.certificateId
              /\ WithRole(r, caller, role).active = r.active
              /\ WithRole(r, caller, role).role = role
         /\ \A a \in BOOLEAN :
              /\ WithActive(r, caller, a) \in Stakeholder
              /\ WithActive(r, caller, a).certificateId = r.certificateId
              /\ WithActive(r, caller, a).active = a
              /\ WithActive(r, caller, a).role = r.role
BY DEF Edited, Stakeholder, WithRole, WithActive

\* The counter stays a natural number.
LEMMA CounterTyped ==
  ASSUME TypeOK
  PROVE  /\ AddRegulator => activeRegulatorCount' \in Nat
         /\ RemoveRegulator => activeRegulatorCount' \in Nat
         /\ UNCHANGED activeRegulatorCount => activeRegulatorCount' \in Nat
BY DEF TypeOK, AddRegulator, RemoveRegulator, LockoutGuard

\* Writing a new stakeholder keeps both tables typed.
LEMMA PutNewTyped ==
  ASSUME TypeOK, NEW id \in StakeholderIds, NEW r \in Stakeholder, PutNewStakeholder(id, r)
  PROVE  /\ stakeholders' \in [StakeholderIds -> Stakeholder \cup {Absent}]
         /\ certificates' \in [Certificates -> StakeholderIds \cup {Absent}]
BY DEF TypeOK, PutNewStakeholder, Stakeholder

\* Writing an existing stakeholder keeps everything but the counter typed.
LEMMA PutTyped ==
  ASSUME TypeOK, NEW id \in StakeholderIds, NEW r \in Stakeholder, PutStakeholder(id, r),
         activeRegulatorCount' \in Nat
  PROVE  TypeOK'
BY DEF TypeOK, PutStakeholder

\* Every transaction writes well-formed state.
LEMMA TypeStep == TypeOK /\ [Next]_vars => TypeOK'
<1> SUFFICES ASSUME TypeOK, [Next]_vars PROVE TypeOK'
  OBVIOUS
<1> USE RolesAssumption, CertificatesAssumption
<1>1. CASE UNCHANGED vars
  BY <1>1 DEF TypeOK, vars
<1>2. ASSUME NEW caller \in Certificates, NEW id \in StakeholderIds, BootstrapRegulator(caller, id)
      PROVE  TypeOK'
  <2>1. CreateStakeholder(Regulator, caller, caller) \in Stakeholder
    BY CreatedTyped
  <2> QED
    BY <1>2, <2>1, PutNewTyped DEF BootstrapRegulator, TypeOK
<1>3. ASSUME NEW caller \in Certificates, NEW id \in StakeholderIds,
             NEW role \in Roles, NEW c \in Certificates, RegisterStakeholder(caller, id, role, c)
      PROVE  TypeOK'
  <2>1. CreateStakeholder(role, c, caller) \in Stakeholder
    BY CreatedTyped
  <2>2. activeRegulatorCount' \in Nat
    BY <1>3, CounterTyped DEF RegisterStakeholder
  <2> QED
    BY <1>3, <2>1, <2>2, PutNewTyped DEF RegisterStakeholder, TypeOK
<1>4. ASSUME NEW caller \in Certificates, NEW id \in StakeholderIds, NEW role \in Roles,
             UpdateStakeholderRole(caller, id, role)
      PROVE  TypeOK'
  <2>1. activeRegulatorCount' \in Nat
    BY <1>4, CounterTyped DEF UpdateStakeholderRole
  <2> QED
    BY <1>4, <2>1, RecordTyped, EditedFields, PutTyped DEF UpdateStakeholderRole
<1>5. ASSUME NEW caller \in Certificates, NEW id \in StakeholderIds, SuspendStakeholder(caller, id)
      PROVE  TypeOK'
  <2>1. activeRegulatorCount' \in Nat
    BY <1>5, CounterTyped DEF SuspendStakeholder
  <2>2. WithActive(stakeholders[id], caller, FALSE) \in Stakeholder
    BY <1>5, RecordTyped, EditedFields DEF SuspendStakeholder
  <2> QED
    BY <1>5, <2>1, <2>2, PutTyped DEF SuspendStakeholder
<1>6. ASSUME NEW caller \in Certificates, NEW id \in StakeholderIds,
             ReactivateStakeholder(caller, id)
      PROVE  TypeOK'
  <2>1. activeRegulatorCount' \in Nat
    BY <1>6, CounterTyped DEF ReactivateStakeholder
  <2>2. WithActive(stakeholders[id], caller, TRUE) \in Stakeholder
    BY <1>6, RecordTyped, EditedFields DEF ReactivateStakeholder
  <2> QED
    BY <1>6, <2>1, <2>2, PutTyped DEF ReactivateStakeholder
<1>7. ASSUME NEW caller \in Certificates, NEW s \in Sensors, SensorNext(caller)
      PROVE  TypeOK'
  <2>1. PICK t \in Sensors : \/ \E key \in PublicKeys : RegisterSensorKey(caller, t, key)
                             \/ RevokeSensorKey(caller, t)
                             \/ ReactivateSensorKey(caller, t)
    BY <1>7 DEF SensorNext
  <2>2. certificates[caller] \in StakeholderIds
    BY <2>1, CallerTyped DEF RegisterSensorKey, RevokeSensorKey, ReactivateSensorKey, Registered
  <2>3. ASSUME NEW r \in SensorKey, PutSensorKey(t, r)
        PROVE  TypeOK'
    BY <2>3 DEF TypeOK, PutSensorKey
  <2>4. ASSUME sensorKeys[t] # Absent, NEW a \in BOOLEAN
        PROVE  [sensorKeys[t] EXCEPT !.active = a, !.updatedBy = certificates[caller]]
                 \in SensorKey
    BY <2>2, <2>4 DEF TypeOK, SensorKey
  <2>5. \A key \in PublicKeys : NewSensorKey(key, caller) \in SensorKey
    BY <2>2 DEF NewSensorKey, SensorKey
  <2> QED
    BY <2>1, <2>3, <2>4, <2>5 DEF RegisterSensorKey, RevokeSensorKey, ReactivateSensorKey
<1> QED
  BY <1>1, <1>2, <1>3, <1>4, <1>5, <1>6, <1>7 DEF Next, StakeholderNext, SensorNext

\* The empty ledger is well-formed.
LEMMA InitTyped == Init => TypeOK
<1> SUFFICES ASSUME Init PROVE TypeOK
  OBVIOUS
<1>1. initialised \in BOOLEAN /\ activeRegulatorCount \in Nat
  BY DEF Init
<1>2. /\ stakeholders \in [StakeholderIds -> Stakeholder \cup {Absent}]
      /\ certificates \in [Certificates -> StakeholderIds \cup {Absent}]
      /\ sensorKeys \in [Sensors -> SensorKey \cup {Absent}]
  BY DEF Init
<1> QED
  BY <1>1, <1>2 DEF TypeOK

\* The ledger of the stakeholder chaincode only ever holds well-formed
\* records, index entries and counters.
THEOREM TypeCorrect == Spec => []TypeOK
BY InitTyped, TypeStep, PTL DEF Spec

-----------------------------------------------------------------------------
(* The certificate index.                                                  *)

\* Editing a registered stakeholder in place, without touching the index.
LEMMA IndexAfterEdit ==
  ASSUME TypeOK, TypeOK', IndexConsistent, NEW id \in Registered, NEW r \in Stakeholder,
         PutStakeholder(id, r), r.certificateId = stakeholders[id].certificateId
  PROVE  IndexConsistent'
<1>1. /\ certificates' = certificates
      /\ stakeholders' = [stakeholders EXCEPT ![id] = r]
      /\ r # Absent /\ stakeholders[id] # Absent /\ id \in StakeholderIds
  BY AbsentAssumption DEF PutStakeholder, Registered
<1>2. Registered' = Registered
  BY <1>1 DEF Registered, TypeOK
<1>3. \A x \in Registered : stakeholders'[x].certificateId = stakeholders[x].certificateId
  BY <1>1 DEF TypeOK, Registered
<1> QED
  BY <1>1, <1>2, <1>3 DEF IndexConsistent

\* Writing a new stakeholder together with its index entry.
LEMMA IndexAfterNew ==
  ASSUME TypeOK, TypeOK', IndexConsistent, NEW id \in StakeholderIds, NEW r \in Stakeholder,
         PutNewStakeholder(id, r)
  PROVE  IndexConsistent'
<1> DEFINE c == r.certificateId
<1>1. /\ c \in Certificates
      /\ r # Absent
      /\ stakeholders[id] = Absent
      /\ certificates[c] = Absent
  BY AbsentAssumption DEF PutNewStakeholder, Stakeholder
<1>2. /\ stakeholders' = [stakeholders EXCEPT ![id] = r]
      /\ certificates' = [certificates EXCEPT ![c] = id]
  BY DEF PutNewStakeholder
<1>3. Registered' = Registered \cup {id}
  BY <1>1, <1>2 DEF Registered, TypeOK
<1>4. id \notin Registered
  BY <1>1 DEF Registered
<1>5. ASSUME NEW x \in Certificates, certificates'[x] # Absent
      PROVE  /\ certificates'[x] \in Registered'
             /\ stakeholders'[certificates'[x]].certificateId = x
  <2>1. CASE x = c
    BY <2>1, <1>1, <1>2, <1>3 DEF TypeOK
  <2>2. CASE x # c
    <3>1. certificates'[x] = certificates[x]
      BY <2>2, <1>2 DEF TypeOK
    <3>2. certificates[x] \in Registered /\ certificates[x] # id
      BY <3>1, <1>4, <1>5 DEF IndexConsistent
    <3>3. stakeholders'[certificates[x]] = stakeholders[certificates[x]]
      BY <3>2, <1>2 DEF TypeOK, Registered
    <3> QED
      BY <3>1, <3>2, <3>3, <1>3, <1>5 DEF IndexConsistent
  <2> QED
    BY <2>1, <2>2
<1>6. ASSUME NEW x \in Registered'
      PROVE  certificates'[stakeholders'[x].certificateId] = x
  <2>1. CASE x = id
    BY <2>1, <1>1, <1>2 DEF TypeOK
  <2>2. CASE x # id
    <3>1. x \in Registered /\ stakeholders'[x] = stakeholders[x]
      BY <2>2, <1>2, <1>3 DEF TypeOK, Registered
    <3>2. certificates[stakeholders[x].certificateId] = x /\ x # Absent
      BY <3>1, AbsentAssumption DEF IndexConsistent, Registered
    <3>3. stakeholders[x].certificateId \in Certificates
      BY <3>1 DEF TypeOK, Registered, Stakeholder
    <3> QED
      BY <3>1, <3>2, <3>3, <1>1, <1>2 DEF TypeOK
  <2> QED
    BY <2>1, <2>2
<1> QED
  BY <1>5, <1>6 DEF IndexConsistent

-----------------------------------------------------------------------------
(* The number of active regulators.                                        *)

OnlyChanges(id) == \A x \in StakeholderIds \ {id} : stakeholders'[x] = stakeholders[x]

\* A transaction that touches one record changes the set of active regulators
\* by at most that one id, and its number accordingly.
LEMMA CountAfter ==
  ASSUME NEW id \in StakeholderIds, OnlyChanges(id),
         activeRegulatorCount \in Nat, IsFiniteSet(ActiveRegulators), CountMatches,
         \/ /\ id \notin ActiveRegulators /\ id \in ActiveRegulators'
            /\ activeRegulatorCount' = activeRegulatorCount + 1
         \/ /\ id \in ActiveRegulators /\ id \notin ActiveRegulators'
            /\ activeRegulatorCount' = activeRegulatorCount - 1
         \/ /\ id \in ActiveRegulators <=> id \in ActiveRegulators'
            /\ activeRegulatorCount' = activeRegulatorCount
  PROVE  IsFiniteSet(ActiveRegulators)' /\ CountMatches'
<1>0. \A x \in StakeholderIds : x # id => (x \in ActiveRegulators <=> x \in ActiveRegulators')
  BY DEF OnlyChanges, ActiveRegulators, Registered
<1>1. ActiveRegulators \subseteq StakeholderIds /\ ActiveRegulators' \subseteq StakeholderIds
  BY DEF ActiveRegulators, Registered
<1>2. CASE id \notin ActiveRegulators /\ id \in ActiveRegulators'
           /\ activeRegulatorCount' = activeRegulatorCount + 1
  <2>1. ActiveRegulators' = ActiveRegulators \cup {id}
    BY <1>0, <1>1, <1>2
  <2> QED
    BY <1>2, <2>1, FS_AddElement DEF CountMatches
<1>3. CASE id \in ActiveRegulators /\ id \notin ActiveRegulators'
           /\ activeRegulatorCount' = activeRegulatorCount - 1
  <2>1. ActiveRegulators' = ActiveRegulators \ {id}
    BY <1>0, <1>1, <1>3
  <2> QED
    BY <1>3, <2>1, FS_RemoveElement DEF CountMatches
<1>4. CASE (id \in ActiveRegulators <=> id \in ActiveRegulators')
           /\ activeRegulatorCount' = activeRegulatorCount
  <2>1. ActiveRegulators' = ActiveRegulators
    BY <1>0, <1>1, <1>4
  <2> QED
    BY <1>4, <2>1 DEF CountMatches
<1> QED
  BY <1>2, <1>3, <1>4

\* Membership of ActiveRegulators before and after a write of one record.
LEMMA RegulatorBefore ==
  ASSUME NEW id \in StakeholderIds, stakeholders[id] # Absent
  PROVE  id \in ActiveRegulators <=> stakeholders[id].active /\ stakeholders[id].role = Regulator
BY DEF ActiveRegulators, Registered

\* After the write the same holds of the new record.
LEMMA RegulatorAfter ==
  ASSUME TypeOK, NEW id \in StakeholderIds, NEW r \in Stakeholder,
         stakeholders' = [stakeholders EXCEPT ![id] = r]
  PROVE  /\ OnlyChanges(id)
         /\ id \in ActiveRegulators' <=> r.active /\ r.role = Regulator
BY AbsentAssumption DEF OnlyChanges, ActiveRegulators, Registered, TypeOK

\* An edit of one record that is counted as it should be preserves the
\* counter: the three branches of updateStakeholderRole, and both of
\* suspendStakeholder and reactivateStakeholder.
LEMMA CountAfterEdit ==
  ASSUME IInv, initialised, NEW id \in Registered, NEW r \in Stakeholder, PutStakeholder(id, r),
         LET was == stakeholders[id].active /\ stakeholders[id].role = Regulator
             is == r.active /\ r.role = Regulator
         IN \/ was /\ ~is /\ RemoveRegulator
            \/ ~was /\ is /\ AddRegulator
            \/ (was <=> is) /\ UNCHANGED activeRegulatorCount
  PROVE  CountInv'
<1>1. /\ id \in StakeholderIds
      /\ stakeholders[id] # Absent
      /\ stakeholders' = [stakeholders EXCEPT ![id] = r]
      /\ initialised'
      /\ activeRegulatorCount \in Nat /\ activeRegulatorCount >= 1
  BY DEF Registered, PutStakeholder, IInv, TypeOK, CountInv, EmptyUntilBootstrap
<1>2. /\ OnlyChanges(id)
      /\ id \in ActiveRegulators <=> stakeholders[id].active /\ stakeholders[id].role = Regulator
      /\ id \in ActiveRegulators' <=> r.active /\ r.role = Regulator
  BY <1>1, RegulatorBefore, RegulatorAfter DEF IInv
<1>3. \/ RemoveRegulator /\ id \in ActiveRegulators /\ id \notin ActiveRegulators'
      \/ AddRegulator /\ id \notin ActiveRegulators /\ id \in ActiveRegulators'
      \/ /\ UNCHANGED activeRegulatorCount
         /\ id \in ActiveRegulators <=> id \in ActiveRegulators'
  BY <1>2
<1>4. activeRegulatorCount' >= 1
  BY <1>1, <1>3 DEF RemoveRegulator, AddRegulator, LockoutGuard
<1>5. IsFiniteSet(ActiveRegulators)' /\ CountMatches'
  <2>1. \/ /\ id \notin ActiveRegulators /\ id \in ActiveRegulators'
           /\ activeRegulatorCount' = activeRegulatorCount + 1
        \/ /\ id \in ActiveRegulators /\ id \notin ActiveRegulators'
           /\ activeRegulatorCount' = activeRegulatorCount - 1
        \/ /\ id \in ActiveRegulators <=> id \in ActiveRegulators'
           /\ activeRegulatorCount' = activeRegulatorCount
    BY <1>3 DEF RemoveRegulator, AddRegulator
  <2> QED
    BY <1>1, <1>2, <2>1, CountAfter DEF IInv, CountInv
<1> QED
  BY <1>1, <1>4, <1>5 DEF CountInv, EmptyUntilBootstrap

\* A new record, counted if it is a regulator.
LEMMA CountAfterNew ==
  ASSUME IInv, NEW id \in StakeholderIds, NEW r \in Stakeholder, PutNewStakeholder(id, r),
         r.active, initialised',
         IF r.role = Regulator THEN activeRegulatorCount' = activeRegulatorCount + 1
                               ELSE initialised /\ UNCHANGED activeRegulatorCount
  PROVE  CountInv'
<1>1. /\ stakeholders[id] = Absent
      /\ stakeholders' = [stakeholders EXCEPT ![id] = r]
      /\ activeRegulatorCount \in Nat
  BY DEF PutNewStakeholder, IInv, TypeOK
<1>2. /\ OnlyChanges(id)
      /\ id \notin ActiveRegulators
      /\ id \in ActiveRegulators' <=> r.role = Regulator
  BY <1>1, RegulatorAfter DEF IInv, ActiveRegulators, Registered
<1>3. IsFiniteSet(ActiveRegulators)' /\ CountMatches'
  BY <1>1, <1>2, CountAfter DEF IInv, CountInv
<1>4. activeRegulatorCount' >= 1
  BY <1>1 DEF IInv, CountInv, EmptyUntilBootstrap
<1> QED
  BY <1>3, <1>4 DEF CountInv, EmptyUntilBootstrap

\* A caller that passes requireActiveRegulator proves the registry initialised.
LEMMA CallerMeansInitialised ==
  ASSUME IInv, NEW caller \in Certificates, RequireActiveRegulator(caller)
  PROVE  initialised
BY CallerTyped DEF IInv, CountInv, EmptyUntilBootstrap, Registered

-----------------------------------------------------------------------------
(* The inductive invariant.                                                *)

\* The empty ledger satisfies the inductive invariant.
LEMMA InvInit == Init => IInv
<1> SUFFICES ASSUME Init PROVE IInv
  OBVIOUS
<1>1. TypeOK
  BY InitTyped
<1>2. Registered = {} /\ ActiveRegulators = {}
  BY DEF Init, Registered, ActiveRegulators
<1>3. IndexConsistent
  BY <1>2 DEF IndexConsistent, Init
<1>4. CountInv
  BY <1>2, FS_EmptySet DEF CountInv, CountMatches, EmptyUntilBootstrap, Init
<1> QED
  BY <1>1, <1>3, <1>4 DEF IInv

\* Every transaction of the contract preserves it.
LEMMA InvStep == IInv /\ [Next]_vars => IInv'
<1> SUFFICES ASSUME IInv, [Next]_vars PROVE IInv'
  OBVIOUS
<1>0. TypeOK /\ TypeOK'
  BY TypeStep DEF IInv
<1>1. CASE UNCHANGED vars
  BY <1>0, <1>1 DEF IInv, vars, IndexConsistent, CountInv, CountMatches, EmptyUntilBootstrap,
     ActiveRegulators, Registered
<1>2. ASSUME NEW caller \in Certificates, NEW id \in StakeholderIds, BootstrapRegulator(caller, id)
      PROVE  IInv'
  <2>1. /\ CreateStakeholder(Regulator, caller, caller) \in Stakeholder
        /\ CreateStakeholder(Regulator, caller, caller).active
        /\ CreateStakeholder(Regulator, caller, caller).role = Regulator
    BY RolesAssumption, CreatedTyped
  <2>2. activeRegulatorCount' = activeRegulatorCount + 1 /\ initialised'
    BY <1>2 DEF BootstrapRegulator, IInv, CountInv, EmptyUntilBootstrap
  <2>3. PutNewStakeholder(id, CreateStakeholder(Regulator, caller, caller))
    BY <1>2 DEF BootstrapRegulator
  <2>4. CountInv'
    BY <2>1, <2>2, <2>3, CountAfterNew
  <2>5. IndexConsistent'
    BY <1>0, <2>1, <2>3, IndexAfterNew DEF IInv
  <2> QED
    BY <1>0, <2>4, <2>5 DEF IInv
<1>3. ASSUME NEW caller \in Certificates, NEW id \in StakeholderIds,
             NEW role \in Roles, NEW c \in Certificates, RegisterStakeholder(caller, id, role, c)
      PROVE  IInv'
  <2>1. /\ CreateStakeholder(role, c, caller) \in Stakeholder
        /\ CreateStakeholder(role, c, caller).active
        /\ CreateStakeholder(role, c, caller).role = role
    BY CreatedTyped
  <2>2. /\ initialised /\ initialised'
        /\ PutNewStakeholder(id, CreateStakeholder(role, c, caller))
    BY <1>3, CallerMeansInitialised DEF RegisterStakeholder
  <2>3. IF role = Regulator THEN activeRegulatorCount' = activeRegulatorCount + 1
                            ELSE UNCHANGED activeRegulatorCount
    BY <1>3 DEF RegisterStakeholder, AddRegulator
  <2>4. CountInv'
    BY <2>1, <2>2, <2>3, CountAfterNew
  <2>5. IndexConsistent'
    BY <1>0, <2>1, <2>2, IndexAfterNew DEF IInv
  <2> QED
    BY <1>0, <2>4, <2>5 DEF IInv
<1>4. ASSUME NEW caller \in Certificates, NEW id \in StakeholderIds, NEW role \in Roles,
             UpdateStakeholderRole(caller, id, role)
      PROVE  IInv'
  <2> DEFINE r == WithRole(stakeholders[id], caller, role)
  <2>1. /\ initialised /\ id \in Registered
        /\ stakeholders[id] \in Stakeholder
        /\ PutStakeholder(id, r)
        /\ stakeholders[id].role # role
    BY <1>0, <1>4, CallerMeansInitialised, RecordTyped
       DEF UpdateStakeholderRole, Registered
  <2>2. /\ r \in Stakeholder
        /\ r.certificateId = stakeholders[id].certificateId
        /\ r.active = stakeholders[id].active
        /\ r.role = role
    BY <2>1, EditedFields
  <2> HIDE DEF r
  <2>3. IF stakeholders[id].active /\ stakeholders[id].role = Regulator THEN RemoveRegulator
        ELSE IF stakeholders[id].active /\ role = Regulator THEN AddRegulator
        ELSE UNCHANGED activeRegulatorCount
    BY <1>4 DEF UpdateStakeholderRole
  <2>4. CountInv'
    BY <2>1, <2>2, <2>3, CountAfterEdit
  <2>5. IndexConsistent'
    BY <1>0, <2>1, <2>2, IndexAfterEdit DEF IInv
  <2> QED
    BY <1>0, <2>4, <2>5 DEF IInv
<1>5. ASSUME NEW caller \in Certificates, NEW id \in StakeholderIds, SuspendStakeholder(caller, id)
      PROVE  IInv'
  <2> DEFINE r == WithActive(stakeholders[id], caller, FALSE)
  <2>1. /\ initialised /\ id \in Registered
        /\ stakeholders[id] \in Stakeholder
        /\ stakeholders[id].active
        /\ PutStakeholder(id, r)
    BY <1>0, <1>5, CallerMeansInitialised, RecordTyped
       DEF SuspendStakeholder, Registered
  <2>2. /\ r \in Stakeholder
        /\ r.certificateId = stakeholders[id].certificateId
        /\ ~r.active
        /\ r.role = stakeholders[id].role
    BY <2>1, EditedFields
  <2> HIDE DEF r
  <2>3. IF stakeholders[id].role = Regulator THEN RemoveRegulator ELSE UNCHANGED activeRegulatorCount
    BY <1>5 DEF SuspendStakeholder
  <2>4. CountInv'
    BY <2>1, <2>2, <2>3, CountAfterEdit
  <2>5. IndexConsistent'
    BY <1>0, <2>1, <2>2, IndexAfterEdit DEF IInv
  <2> QED
    BY <1>0, <2>4, <2>5 DEF IInv
<1>6. ASSUME NEW caller \in Certificates, NEW id \in StakeholderIds,
             ReactivateStakeholder(caller, id)
      PROVE  IInv'
  <2> DEFINE r == WithActive(stakeholders[id], caller, TRUE)
  <2>1. /\ initialised /\ id \in Registered
        /\ stakeholders[id] \in Stakeholder
        /\ ~stakeholders[id].active
        /\ PutStakeholder(id, r)
    BY <1>0, <1>6, CallerMeansInitialised, RecordTyped
       DEF ReactivateStakeholder, Registered
  <2>2. /\ r \in Stakeholder
        /\ r.certificateId = stakeholders[id].certificateId
        /\ r.active
        /\ r.role = stakeholders[id].role
    BY <2>1, EditedFields
  <2> HIDE DEF r
  <2>3. IF stakeholders[id].role = Regulator THEN AddRegulator ELSE UNCHANGED activeRegulatorCount
    BY <1>6 DEF ReactivateStakeholder
  <2>4. CountInv'
    BY <2>1, <2>2, <2>3, CountAfterEdit
  <2>5. IndexConsistent'
    BY <1>0, <2>1, <2>2, IndexAfterEdit DEF IInv
  <2> QED
    BY <1>0, <2>4, <2>5 DEF IInv
<1>7. ASSUME NEW caller \in Certificates, SensorNext(caller)
      PROVE  IInv'
  <2>1. UNCHANGED <<initialised, activeRegulatorCount, stakeholders, certificates>>
    BY <1>7 DEF SensorNext, RegisterSensorKey, RevokeSensorKey, ReactivateSensorKey, PutSensorKey
  <2> QED
    BY <1>0, <2>1 DEF IInv, IndexConsistent, CountInv, CountMatches, EmptyUntilBootstrap,
       ActiveRegulators, Registered
<1> QED
  BY <1>1, <1>2, <1>3, <1>4, <1>5, <1>6, <1>7 DEF Next, StakeholderNext

-----------------------------------------------------------------------------
(* The theorems.                                                           *)

\* So it holds of every reachable ledger.
LEMMA Invariance == Spec => []IInv
BY InvInit, InvStep, PTL DEF Spec

\* The index that every authorisation goes through agrees with the records,
\* in every reachable ledger: certificates and identities match one to one.
THEOREM IndexIsConsistent == Spec => []IndexConsistent
<1>1. IInv => IndexConsistent
  BY DEF IInv
<1> QED
  BY <1>1, Invariance, PTL

\* The counter the lockout guard consults is the number of active regulators.
THEOREM CounterIsExact == Spec => []CountMatches
<1>1. IInv => CountMatches
  BY DEF IInv, CountInv
<1> QED
  BY <1>1, Invariance, PTL

\* The counter says that there is a regulator, the index leads to one.
LEMMA InvLockout == IInv => NoLockout
<1> SUFFICES ASSUME IInv, initialised
             PROVE  \E c \in Certificates : certificates[c] \in ActiveRegulators
  BY DEF NoLockout
<1>1. ActiveRegulators # {}
  BY FS_EmptySet DEF IInv, CountInv, CountMatches, EmptyUntilBootstrap
<1>2. PICK id \in ActiveRegulators : TRUE
  BY <1>1
<1>3. id \in Registered /\ stakeholders[id].certificateId \in Certificates
  BY <1>2 DEF ActiveRegulators, Registered, IInv, TypeOK, Stakeholder
<1> QED
  BY <1>2, <1>3 DEF IInv, IndexConsistent

\* An initialised registry always has a certificate that may administer it.
THEOREM NeverLockedOut == Spec => []NoLockout
BY InvLockout, Invariance, PTL

-----------------------------------------------------------------------------
(* What a transaction may never do.                                        *)

\* An edit keeps the certificate and the creator, and signs with the caller.
LEMMA EditKeepsProvenance ==
  ASSUME NEW r \in Stakeholder, NEW caller \in Certificates
  PROVE  /\ \A role \in Roles :
              /\ WithRole(r, caller, role).createdBy = r.createdBy
              /\ WithRole(r, caller, role).updatedBy = caller
         /\ \A a \in BOOLEAN :
              /\ WithActive(r, caller, a).createdBy = r.createdBy
              /\ WithActive(r, caller, a).updatedBy = caller
BY DEF Edited, Stakeholder, WithRole, WithActive

\* The three edits of a stakeholder have one shape: the caller is an active
\* regulator, and one record is replaced by one of the same provenance.
LEMMA EditShape ==
  ASSUME TypeOK, NEW caller \in Certificates, NEW id \in StakeholderIds,
         \/ \E role \in Roles : UpdateStakeholderRole(caller, id, role)
         \/ SuspendStakeholder(caller, id)
         \/ ReactivateStakeholder(caller, id)
  PROVE  /\ RequireActiveRegulator(caller)
         /\ id \in Registered
         /\ \E r \in Stakeholder :
              /\ PutStakeholder(id, r)
              /\ r.certificateId = stakeholders[id].certificateId
              /\ r.createdBy = stakeholders[id].createdBy
              /\ r.updatedBy = caller
<1>1. RequireActiveRegulator(caller) /\ stakeholders[id] # Absent
  BY DEF UpdateStakeholderRole, SuspendStakeholder, ReactivateStakeholder
<1>2. stakeholders[id] \in Stakeholder /\ id \in Registered
  BY <1>1, RecordTyped DEF Registered
<1>3. \/ \E role \in Roles : PutStakeholder(id, WithRole(stakeholders[id], caller, role))
      \/ \E a \in BOOLEAN : PutStakeholder(id, WithActive(stakeholders[id], caller, a))
  BY DEF UpdateStakeholderRole, SuspendStakeholder, ReactivateStakeholder
<1>4. CASE \E role \in Roles : PutStakeholder(id, WithRole(stakeholders[id], caller, role))
  BY <1>1, <1>2, <1>4, EditedFields, EditKeepsProvenance
<1>5. CASE \E a \in BOOLEAN : PutStakeholder(id, WithActive(stakeholders[id], caller, a))
  BY <1>1, <1>2, <1>5, EditedFields, EditKeepsProvenance
<1> QED
  BY <1>3, <1>4, <1>5

\* The three transactions on sensor keys likewise.
LEMMA SensorShape ==
  ASSUME TypeOK, NEW caller \in Certificates, SensorNext(caller)
  PROVE  /\ RequireActiveRegulator(caller)
         /\ UNCHANGED <<initialised, stakeholders, certificates>>
         /\ \E s \in Sensors, k \in SensorKey :
              /\ sensorKeys' = [sensorKeys EXCEPT ![s] = k]
              /\ k.updatedBy = certificates[caller]
              /\ sensorKeys[s] # Absent => /\ k.publicKey = sensorKeys[s].publicKey
                                           /\ k.registeredBy = sensorKeys[s].registeredBy
<1>1. PICK s \in Sensors : \/ \E key \in PublicKeys : RegisterSensorKey(caller, s, key)
                           \/ RevokeSensorKey(caller, s)
                           \/ ReactivateSensorKey(caller, s)
  BY DEF SensorNext
<1>2. RequireActiveRegulator(caller) /\ UNCHANGED <<initialised, stakeholders, certificates>>
  BY <1>1 DEF RegisterSensorKey, RevokeSensorKey, ReactivateSensorKey, PutSensorKey
<1>3. certificates[caller] \in StakeholderIds
  BY <1>2, CallerTyped DEF Registered
<1>4. CASE \E key \in PublicKeys : RegisterSensorKey(caller, s, key)
  <2>1. PICK key \in PublicKeys : RegisterSensorKey(caller, s, key)
    BY <1>4
  <2>2. /\ NewSensorKey(key, caller) \in SensorKey
        /\ NewSensorKey(key, caller).updatedBy = certificates[caller]
    BY <1>3 DEF NewSensorKey, SensorKey
  <2>3. sensorKeys[s] = Absent /\ sensorKeys' = [sensorKeys EXCEPT ![s] = NewSensorKey(key, caller)]
    BY <2>1 DEF RegisterSensorKey, PutSensorKey
  <2> QED
    BY <1>2, <2>2, <2>3
<1>5. CASE RevokeSensorKey(caller, s) \/ ReactivateSensorKey(caller, s)
  <2>1. sensorKeys[s] \in SensorKey
    BY <1>5 DEF RevokeSensorKey, ReactivateSensorKey, TypeOK
  <2>2. PICK a \in BOOLEAN :
          sensorKeys' = [sensorKeys EXCEPT ![s] =
             [sensorKeys[s] EXCEPT !.active = a, !.updatedBy = certificates[caller]]]
    BY <1>5 DEF RevokeSensorKey, ReactivateSensorKey, PutSensorKey
  <2> DEFINE k == [sensorKeys[s] EXCEPT !.active = a, !.updatedBy = certificates[caller]]
  <2>3. /\ k \in SensorKey
        /\ k.updatedBy = certificates[caller]
        /\ k.publicKey = sensorKeys[s].publicKey
        /\ k.registeredBy = sensorKeys[s].registeredBy
    BY <1>3, <2>1 DEF SensorKey
  <2> HIDE DEF k
  <2> QED
    BY <1>2, <2>2, <2>3 DEF k
<1> QED
  BY <1>1, <1>4, <1>5

\* And the two registrations: a free id is written, nothing else is replaced.
LEMMA NewShape ==
  ASSUME TypeOK, NEW caller \in Certificates, NEW id \in StakeholderIds,
         NEW role \in Roles, NEW c \in Certificates,
         PutNewStakeholder(id, CreateStakeholder(role, c, caller)), UNCHANGED sensorKeys
  PROVE  /\ RecordsKept
         /\ \A x \in StakeholderIds : stakeholders'[x] # stakeholders[x] =>
              stakeholders'[x].updatedBy = caller
<1>1. /\ stakeholders[id] = Absent
      /\ stakeholders' = [stakeholders EXCEPT ![id] = CreateStakeholder(role, c, caller)]
  BY DEF PutNewStakeholder
<1>2. CreateStakeholder(role, c, caller).updatedBy = caller
  BY DEF CreateStakeholder
<1>3. \A x \in StakeholderIds : x # id => stakeholders'[x] = stakeholders[x]
  BY <1>1 DEF TypeOK
<1>4. stakeholders'[id].updatedBy = caller
  BY <1>1, <1>2 DEF TypeOK
<1>5. id \notin Registered /\ Registered \subseteq StakeholderIds
  BY <1>1 DEF Registered
<1>6. \A x \in Registered : stakeholders'[x] = stakeholders[x] /\ stakeholders[x] # Absent
  BY <1>3, <1>5 DEF Registered
<1> QED
  BY <1>3, <1>4, <1>6 DEF RecordsKept

\* An active regulator is in the set the properties speak of.
LEMMA CallerIsActiveRegulator ==
  ASSUME TypeOK, NEW caller \in Certificates, RequireActiveRegulator(caller)
  PROVE  certificates[caller] \in ActiveRegulators
BY CallerTyped DEF ActiveRegulators, RequireActiveRegulator, RequireActiveStakeholder,
   StakeholderByCertificate, Registered

\* Every transaction keeps what the audit trail relies on, and is signed.
LEMMA StepAudited == TypeOK /\ [Next]_vars => [RecordsKept /\ EditorAuthorised]_vars
<1> SUFFICES ASSUME TypeOK, Next PROVE RecordsKept /\ EditorAuthorised
  OBVIOUS
<1>1. ASSUME NEW caller \in Certificates, NEW id \in StakeholderIds, BootstrapRegulator(caller, id)
      PROVE  RecordsKept /\ EditorAuthorised
  <2>1. /\ PutNewStakeholder(id, CreateStakeholder(Regulator, caller, caller))
        /\ UNCHANGED sensorKeys
        /\ ~initialised
    BY <1>1 DEF BootstrapRegulator
  <2> QED
    BY <2>1, RolesAssumption, NewShape DEF EditorAuthorised
<1>2. ASSUME NEW caller \in Certificates, NEW id \in StakeholderIds,
             NEW role \in Roles, NEW c \in Certificates, RegisterStakeholder(caller, id, role, c)
      PROVE  RecordsKept /\ EditorAuthorised
  <2>1. /\ PutNewStakeholder(id, CreateStakeholder(role, c, caller))
        /\ UNCHANGED sensorKeys
        /\ certificates[caller] \in ActiveRegulators
    BY <1>2, CallerIsActiveRegulator DEF RegisterStakeholder
  <2> QED
    BY <2>1, NewShape DEF EditorAuthorised
<1>3. ASSUME NEW caller \in Certificates, NEW id \in StakeholderIds,
             \/ \E role \in Roles : UpdateStakeholderRole(caller, id, role)
             \/ SuspendStakeholder(caller, id)
             \/ ReactivateStakeholder(caller, id)
      PROVE  RecordsKept /\ EditorAuthorised
  <2>1. PICK r \in Stakeholder :
          /\ PutStakeholder(id, r)
          /\ r.certificateId = stakeholders[id].certificateId
          /\ r.createdBy = stakeholders[id].createdBy
          /\ r.updatedBy = caller
    BY <1>3, EditShape
  <2>2. /\ stakeholders' = [stakeholders EXCEPT ![id] = r]
        /\ UNCHANGED sensorKeys
        /\ r # Absent
    BY <2>1, AbsentAssumption DEF PutStakeholder
  <2>3. certificates[caller] \in ActiveRegulators
    BY <1>3, EditShape, CallerIsActiveRegulator
  <2>4. RecordsKept
    BY <2>1, <2>2 DEF RecordsKept, TypeOK, Registered
  <2>5. EditorAuthorised
    BY <2>1, <2>2, <2>3 DEF EditorAuthorised, TypeOK
  <2> QED
    BY <2>4, <2>5
<1>4. ASSUME NEW caller \in Certificates, SensorNext(caller)
      PROVE  RecordsKept /\ EditorAuthorised
  <2>1. /\ UNCHANGED stakeholders
        /\ certificates[caller] \in ActiveRegulators
    BY <1>4, SensorShape, CallerIsActiveRegulator
  <2>2. PICK s \in Sensors, k \in SensorKey :
          /\ sensorKeys' = [sensorKeys EXCEPT ![s] = k]
          /\ k.updatedBy = certificates[caller]
          /\ sensorKeys[s] # Absent => /\ k.publicKey = sensorKeys[s].publicKey
                                       /\ k.registeredBy = sensorKeys[s].registeredBy
    BY <1>4, SensorShape
  <2>3. k # Absent
    BY AbsentAssumption
  <2>4. RecordsKept
    BY <2>1, <2>2, <2>3 DEF RecordsKept, TypeOK, Registered
  <2>5. EditorAuthorised
    BY <2>1, <2>2 DEF EditorAuthorised, TypeOK
  <2> QED
    BY <2>4, <2>5
<1> QED
  BY <1>1, <1>2, <1>3, <1>4 DEF Next, StakeholderNext

\* No record is ever deleted, no certificate, creator or sensor key replaced.
THEOREM RecordsNeverReplaced == Spec => RecordsPersist
BY TypeCorrect, StepAudited, PTL DEF Spec, RecordsPersist

\* Every edit after the bootstrap is signed by an active regulator.
THEOREM EditsAreAuthorised == Spec => EditorWasRegulator
BY TypeCorrect, StepAudited, PTL DEF Spec, EditorWasRegulator

-----------------------------------------------------------------------------
(* Who vouched for whom.  VouchedFor is not inductive by itself: that a    *)
(* new record does not close a circle needs every voucher to be registered *)
(* before the record it vouches for.                                       *)

VouchersKnown == \A id \in Registered : Voucher(id) \in Registered

Closed(group) == \A id \in group : Voucher(id) \in group

VouchInv ==
  initialised =>
    /\ VouchersKnown
    /\ \E root \in Registered : Roots = {root}
    /\ \A group \in (SUBSET Registered) \ {{}} : Closed(group) => Roots \subseteq group

\* Edits leave certificates and creators alone, and so the question.
LEMMA VouchSame ==
  ASSUME VouchInv, UNCHANGED initialised, Registered' = Registered,
         \A id \in Registered : Voucher(id)' = Voucher(id)
  PROVE  VouchInv'
<1>1. Roots' = Roots
  BY DEF Roots
<1>2. \A group \in SUBSET Registered : Closed(group)' <=> Closed(group)
  BY DEF Closed
<1> QED
  BY <1>1, <1>2 DEF VouchInv, VouchersKnown

\* What a registration adds to the relation.
LEMMA VoucherOfNew ==
  ASSUME TypeOK, NEW caller \in Certificates, NEW id \in StakeholderIds, NEW role \in Roles,
         NEW c \in Certificates, PutNewStakeholder(id, CreateStakeholder(role, c, caller))
  PROVE  /\ Registered' = Registered \cup {id} /\ id \notin Registered
         /\ certificates[c] = Absent /\ certificates'[c] = id
         /\ \A x \in Certificates : x # c => certificates'[x] = certificates[x]
         /\ Voucher(id)' = certificates'[caller]
         /\ VouchersKnown => \A x \in Registered : Voucher(x)' = Voucher(x)
<1> DEFINE r == CreateStakeholder(role, c, caller)
<1>1. r \in Stakeholder /\ r.certificateId = c /\ r.createdBy = caller /\ r # Absent
  BY CreatedTyped, AbsentAssumption DEF CreateStakeholder
<1> HIDE DEF r
<1>2. /\ stakeholders[id] = Absent /\ certificates[c] = Absent
      /\ stakeholders' = [stakeholders EXCEPT ![id] = r]
      /\ certificates' = [certificates EXCEPT ![c] = id]
  BY <1>1 DEF PutNewStakeholder, r
<1>3. /\ stakeholders'[id] = r /\ certificates'[c] = id
      /\ \A x \in StakeholderIds : x # id => stakeholders'[x] = stakeholders[x]
      /\ \A x \in Certificates : x # c => certificates'[x] = certificates[x]
  BY <1>2 DEF TypeOK
<1>4. Registered' = Registered \cup {id} /\ id \notin Registered
  BY <1>1, <1>2, <1>3 DEF Registered
<1>5. Voucher(id)' = certificates'[caller]
  BY <1>1, <1>3 DEF Voucher
<1>6. ASSUME VouchersKnown, NEW x \in Registered
      PROVE  Voucher(x)' = Voucher(x)
  <2>1. stakeholders'[x] = stakeholders[x] /\ stakeholders[x].createdBy \in Certificates
    BY <1>3, <1>4, RecordTyped DEF Registered, Stakeholder
  <2>2. certificates[stakeholders[x].createdBy] # Absent
    BY <1>6, AbsentAssumption DEF VouchersKnown, Voucher, Registered
  <2> QED
    BY <1>2, <1>3, <2>1, <2>2 DEF Voucher
<1> QED
  BY <1>2, <1>3, <1>4, <1>5, <1>6

\* The first record vouches for itself.
LEMMA VouchFirst ==
  ASSUME TypeOK, NEW caller \in Certificates, NEW id \in StakeholderIds, NEW role \in Roles,
         PutNewStakeholder(id, CreateStakeholder(role, caller, caller)), Registered = {}
  PROVE  VouchInv'
<1>1. Registered' = {id} /\ Voucher(id)' = id
  BY VoucherOfNew
<1>2. Roots' = {id}
  BY <1>1 DEF Roots
<1> QED
  BY <1>1, <1>2 DEF VouchInv, VouchersKnown, Closed

\* Every other record is vouched for by one that was there before.
LEMMA VouchNew ==
  ASSUME TypeOK, VouchInv, initialised, NEW caller \in Certificates, NEW id \in StakeholderIds,
         NEW role \in Roles, NEW c \in Certificates, certificates[caller] \in Registered,
         PutNewStakeholder(id, CreateStakeholder(role, c, caller))
  PROVE  VouchInv'
<1>1. /\ Registered' = Registered \cup {id} /\ id \notin Registered
      /\ \A x \in Registered : Voucher(x)' = Voucher(x)
  BY VoucherOfNew DEF VouchInv
<1>2. Voucher(id)' = certificates[caller]
  BY VoucherOfNew, AbsentAssumption DEF Registered
<1>3. \A x \in Registered : Voucher(x) \in Registered
  BY DEF VouchInv, VouchersKnown
<1>4. VouchersKnown'
  BY <1>1, <1>2, <1>3 DEF VouchersKnown
<1>5. Roots' = Roots
  BY <1>1, <1>2 DEF Roots
<1>6. ASSUME NEW group \in SUBSET (Registered \cup {id}), group # {}, Closed(group)'
      PROVE  Roots \subseteq group
  <2> DEFINE old == group \ {id}
  <2>1. old \subseteq Registered
    BY <1>1
  <2>2. old # {}
    BY <1>1, <1>2, <1>6 DEF Closed
  <2>3. Closed(old)
    BY <1>1, <1>3, <1>6, <2>1 DEF Closed
  <2> QED
    BY <2>1, <2>2, <2>3 DEF VouchInv
<1>7. \E root \in Registered' : Roots' = {root}
  BY <1>1, <1>5 DEF VouchInv
<1> QED
  BY <1>1, <1>4, <1>5, <1>6, <1>7 DEF VouchInv

LEMMA VouchStep == IInv /\ VouchInv /\ [Next]_vars => VouchInv'
<1> SUFFICES ASSUME IInv, VouchInv, [Next]_vars PROVE VouchInv'
  OBVIOUS
<1>0. TypeOK /\ TypeOK'
  BY TypeStep DEF IInv
<1>1. CASE UNCHANGED <<initialised, stakeholders, certificates>>
  BY <1>1, VouchSame DEF Registered, Voucher
<1>2. ASSUME NEW caller \in Certificates, NEW id \in StakeholderIds, BootstrapRegulator(caller, id)
      PROVE  VouchInv'
  <2>1. PutNewStakeholder(id, CreateStakeholder(Regulator, caller, caller)) /\ ~initialised
    BY <1>2 DEF BootstrapRegulator
  <2>2. Registered = {}
    BY <2>1 DEF IInv, CountInv, EmptyUntilBootstrap, Registered
  <2> QED
    BY <1>0, <2>1, <2>2, RolesAssumption, VouchFirst
<1>3. ASSUME NEW caller \in Certificates, NEW id \in StakeholderIds,
             NEW role \in Roles, NEW c \in Certificates, RegisterStakeholder(caller, id, role, c)
      PROVE  VouchInv'
  <2>1. /\ RequireActiveRegulator(caller)
        /\ PutNewStakeholder(id, CreateStakeholder(role, c, caller))
    BY <1>3 DEF RegisterStakeholder
  <2>2. certificates[caller] \in Registered
    BY <1>0, <2>1, CallerTyped
  <2>3. initialised
    BY <2>2 DEF IInv, CountInv, EmptyUntilBootstrap, Registered
  <2> QED
    BY <1>0, <2>1, <2>2, <2>3, VouchNew
<1>4. ASSUME NEW caller \in Certificates, NEW id \in StakeholderIds,
             \/ \E role \in Roles : UpdateStakeholderRole(caller, id, role)
             \/ SuspendStakeholder(caller, id)
             \/ ReactivateStakeholder(caller, id)
      PROVE  VouchInv'
  <2>1. id \in Registered
    BY <1>0, <1>4, EditShape
  <2>2. PICK r \in Stakeholder : PutStakeholder(id, r) /\ r.createdBy = stakeholders[id].createdBy
    BY <1>0, <1>4, EditShape
  <2>3. /\ stakeholders' = [stakeholders EXCEPT ![id] = r] /\ r # Absent
        /\ UNCHANGED <<initialised, certificates>>
    BY <2>2, AbsentAssumption DEF PutStakeholder
  <2>4. /\ stakeholders'[id] = r
        /\ \A x \in StakeholderIds : x # id => stakeholders'[x] = stakeholders[x]
    BY <1>0, <2>3 DEF TypeOK
  <2>5. Registered' = Registered
    BY <2>1, <2>3, <2>4 DEF Registered
  <2>6. \A x \in Registered : Voucher(x)' = Voucher(x)
    BY <2>2, <2>3, <2>4 DEF Voucher, Registered
  <2> QED
    BY <2>3, <2>5, <2>6, VouchSame
<1>5. ASSUME NEW caller \in Certificates, SensorNext(caller)
      PROVE  VouchInv'
  BY <1>0, <1>1, <1>5, SensorShape
<1>6. CASE UNCHANGED vars
  BY <1>1, <1>6 DEF vars
<1> QED
  BY <1>2, <1>3, <1>4, <1>5, <1>6 DEF Next, StakeholderNext

LEMMA VouchInvVouches == VouchInv => VouchedFor
<1> SUFFICES ASSUME VouchInv, initialised
             PROVE  /\ Cardinality(Roots) = 1
                    /\ \A group \in (SUBSET Registered) \ {{}} :
                         (\A id \in group : Voucher(id) \in group) => Roots \subseteq group
  BY DEF VouchedFor
<1>1. Cardinality(Roots) = 1
  BY FS_Singleton DEF VouchInv
<1> QED
  BY <1>1 DEF VouchInv, Closed

\* The self-registration stays the only one: whoever is registered was
\* vouched for along a chain that ends at the bootstrapped regulator.
THEOREM AllVouchedFor == Spec => []VouchedFor
<1>1. Init => VouchInv
  BY DEF Init, VouchInv
<1> QED
  BY <1>1, VouchInvVouches, VouchStep, Invariance, PTL DEF Spec

============================================================================
