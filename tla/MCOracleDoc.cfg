\* A sentence of runOracle.ts about marking a row FAILED.
SPECIFICATION Spec
CONSTANTS
  r1 = r1
  r2 = r2
  m1 = m1
  m2 = m2
  e1 = e1
  e2 = e2
  Runs = {r1, r2}
  ReadingSets = {m1}
  EvidenceIds = {e1}
  EvidenceIdOf <- OneId
  Transactions = {1, 2, 3, 4, 5}
  Absent = Absent
  MaxFaults = 1
PROPERTIES
  FailedOnlyWithoutRecord
