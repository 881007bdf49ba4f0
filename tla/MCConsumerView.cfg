\* Two batches and two pieces of evidence: two holds of one batch, one after
\* the other or one inside the other, or a hold of each; and one page.
SPECIFICATION MCSpec
CONSTANTS
  b1 = b1
  b2 = b2
  reg = reg
  farm = farm
  proc = proc
  logi = logi
  shop = shop
  orac = orac
  cReg = cReg
  cFarm = cFarm
  cProc = cProc
  cLogi = cLogi
  cShop = cShop
  cOrac = cOrac
  s1 = s1
  k1 = k1
  StakeholderIds = {reg, farm, proc, logi, shop, orac}
  Certificates = {cReg, cFarm, cProc, cLogi, cShop, cOrac}
  RegulatorCertificates = {cReg}
  Roles = {"REGULATOR", "FARM", "PROCESSOR", "LOGISTICS", "RETAILER", "ORACLE"}
  Sensors = {s1}
  PublicKeys = {k1}
  Absent = Absent
  Batches = {b1, b2}
  EvidenceIds = {e1, e2}
  Hashes = {h1}
  Host = cShop
  Unread = Unread
  Statistics <- MCStatistics
SYMMETRY MCSymmetry
INVARIANTS
  TypeOK
  HoldRemembersStage
  CustodyInOrder
  UnsafeEvidenceOnRecord
  ColdChainInferred
  PageHidesNothing
  PageWasTrue
PROPERTIES
  ImplementsCustody
