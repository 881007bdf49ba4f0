\* Two runs on two reading sets, or both on the same one, and one failure.
\* Transactions: one for each anchor, for each run that waits and for each
\* run that gave up.
SPECIFICATION Spec
CONSTANTS
  r1 = r1
  r2 = r2
  m1 = m1
  m2 = m2
  e1 = e1
  e2 = e2
  Runs = {r1, r2}
  ReadingSets = {m1, m2}
  EvidenceIds = {e1, e2}
  EvidenceIdOf <- TwoIds
  Transactions = {1, 2, 3, 4, 5}
  Absent = Absent
  MaxFaults = 1
SYMMETRY MCSymmetry
INVARIANTS
  TypeOK
  AnchoredRowsOnLedger
  ReadingsBehindEveryAnchor
