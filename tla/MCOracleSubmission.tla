------------------------ MODULE MCOracleSubmission ------------------------
(* Two runs of the oracle for TLC, on two reading sets or on one.          *)
EXTENDS OracleSubmission, TLC

CONSTANTS r1, r2, m1, m2, e1, e2

TwoIds == m1 :> e1 @@ m2 :> e2
OneId == m1 :> e1

MCSymmetry == Permutations({r1, r2})
===========================================================================
