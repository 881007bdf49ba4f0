\* Three business ids, three certificates (c3 is not of RegulatorMSP), a
\* regulator and an ordinary role, one sensor with two candidate keys.
SPECIFICATION Spec
CONSTANTS
  i1 = i1
  i2 = i2
  i3 = i3
  c1 = c1
  c2 = c2
  c3 = c3
  StakeholderIds = {i1, i2, i3}
  Certificates = {c1, c2, c3}
  RegulatorCertificates = {c1, c2}
  Roles = {"REGULATOR", "FARM"}
  Sensors = {s1}
  PublicKeys = {k1, k2}
  Absent = Absent
SYMMETRY MCSymmetry
INVARIANTS
  TypeOK
  IndexConsistent
  CountMatches
  NoLockout
  VouchedFor
PROPERTIES
  RecordsPersist
  EditorWasRegulator
