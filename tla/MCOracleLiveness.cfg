\* Two runs on the same readings and two failures; no symmetry, since the
\* properties are about what eventually happens.
\* Transactions: one for each anchor, for each run that waits and for each
\* run that gave up.
SPECIFICATION FairSpec
CONSTANTS
  r1 = r1
  r2 = r2
  m1 = m1
  m2 = m2
  e1 = e1
  e2 = e2
  Runs = {r1, r2}
  ReadingSets = {m1}
  EvidenceIds = {e1}
  EvidenceIdOf <- OneId
  Transactions = {1, 2, 3, 4, 5}
  Absent = Absent
  MaxFaults = 2
PROPERTIES
  RunsEnd
  Reconciled
