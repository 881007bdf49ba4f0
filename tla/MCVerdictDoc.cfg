\* A sentence of verdictRepository.ts about replayed events.
SPECIFICATION Spec
CONSTANTS
  EvidenceIds = {e1, e2}
  Absent = Absent
  MaxEvents = 2
  MaxFaults = 2
PROPERTIES
  ReplayReproducesArchive
