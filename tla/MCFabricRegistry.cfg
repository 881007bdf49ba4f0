\* No batch exists: every transaction of the registry, two at a time.
SPECIFICATION Spec
CONSTANTS
  i1 = i1
  i2 = i2
  c1 = c1
  c2 = c2
  t1 = t1
  t2 = t2
  StakeholderIds = {i1, i2}
  Certificates = {c1, c2}
  RegulatorCertificates = {c1, c2}
  Roles = {"REGULATOR", "FARM"}
  Sensors = {s1}
  PublicKeys = {k1}
  Absent = Absent
  Batches = {}
  EvidenceIds = {}
  Hashes = {h1}
  Statistics <- MCStatistics
  Slots = {t1, t2}
  NoTx = NoTx
  Workload = {"bootstrapRegulator", "registerStakeholder", "updateStakeholderRole",
              "suspendStakeholder", "reactivateStakeholder",
              "registerSensorKey", "revokeSensorKey", "reactivateSensorKey"}
SYMMETRY MCSymmetry
INVARIANTS
  NoLockout
PROPERTIES
  ImplementsSupplyChain
