\* Three pieces of evidence among three events, two stops or failed writes.
SPECIFICATION FairSpec
CONSTANTS
  EvidenceIds = {e1, e2, e3}
  Absent = Absent
  MaxEvents = 3
  MaxFaults = 2
INVARIANTS
  TypeOK
  NoGap
  ArchivedInLedgerOrder
PROPERTIES
  EveryVerdictArchived
