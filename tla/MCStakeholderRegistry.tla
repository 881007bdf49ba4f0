----------------------- MODULE MCStakeholderRegistry -----------------------
(* A registry of three identities for TLC: the certificates and the ids    *)
(* are interchangeable except for which certificates RegulatorMSP issued.  *)
EXTENDS StakeholderRegistry, TLC

CONSTANTS i1, i2, i3, c1, c2, c3

MCSymmetry == Permutations({i1, i2, i3}) \cup Permutations({c1, c2})
============================================================================
