\* The same consortium, for one sentence of models/Batch.ts.
SPECIFICATION MCSpec
CONSTANTS
  b1 = b1
  b2 = b2
  reg = reg
  farm = farm
  proc = proc
  logi = logi
  shop = shop
  orac = orac
  cReg = cReg
  cFarm = cFarm
  cProc = cProc
  cLogi = cLogi
  cShop = cShop
  cOrac = cOrac
  s1 = s1
  k1 = k1
  StakeholderIds = {reg, farm, proc, logi, shop, orac}
  Certificates = {cReg, cFarm, cProc, cLogi, cShop, cOrac}
  RegulatorCertificates = {cReg}
  Roles = {"REGULATOR", "FARM", "PROCESSOR", "LOGISTICS", "RETAILER", "ORACLE"}
  Sensors = {s1}
  PublicKeys = {k1}
  Absent = Absent
  Batches = {b1, b2}
  EvidenceIds = {e1, e2, e3}
  Hashes = {h1}
  Statistics <- MCStatistics
SYMMETRY MCSymmetry
INVARIANTS
  StageAbsentUnlessBreach
