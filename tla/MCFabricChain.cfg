\* One batch from its creation to its recall, two pieces of evidence, two
\* transactions in flight.
SPECIFICATION MCSpec
CONSTANTS
  reg = reg
  reg2 = reg2
  farm = farm
  proc = proc
  orac = orac
  cReg = cReg
  cReg2 = cReg2
  cFarm = cFarm
  cProc = cProc
  cOrac = cOrac
  s1 = s1
  k1 = k1
  t1 = t1
  t2 = t2
  StakeholderIds = {reg, reg2, farm, proc, orac}
  Certificates = {cReg, cReg2, cFarm, cProc, cOrac}
  RegulatorCertificates = {cReg}
  Roles = {"REGULATOR", "FARM", "PROCESSOR", "ORACLE"}
  Sensors = {s1}
  PublicKeys = {k1}
  Absent = Absent
  Batches = {b1}
  EvidenceIds = {e1, e2}
  Hashes = {h1}
  Statistics <- MCStatistics
  Slots = {t1, t2}
  NoTx = NoTx
  Workload = {"createBatch", "recordProcessingEvent", "recallBatch",
              "submitTemperatureEvidence", "resolveTemperatureBreach",
              "suspendStakeholder", "reactivateStakeholder"}
SYMMETRY MCSymmetry
PROPERTIES
  EveryCommitSerial
  AuthorityAtCommit
  EvidenceFinal
