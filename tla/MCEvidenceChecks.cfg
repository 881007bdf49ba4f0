\* Two runs at once, or one run with an edit and a switch of the key; one check at a time.
SPECIFICATION Spec
CONSTANTS
  Sensor = s1
  Sensors = {s1, s2}
  PublicKeys = {k1, k2}
  Absent = Absent
  Tables <- MCTables
  FakeStatistics <- MCFakeStatistics
  FileRows = 2
  Allowances <- MCAllowances
INVARIANTS
  TypeOK
  CleanMeansMeasured
  AlarmsAreReal
  OracleTakesMeasured
  OutcomesAgree
SYMMETRY Keys
