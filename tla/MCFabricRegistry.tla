-------------------------- MODULE MCFabricRegistry --------------------------
(* Two identities that may both be regulators, two transactions in flight, *)
(* from an empty ledger: the races of registry administration.             *)
EXTENDS FabricLedger, TLC

CONSTANTS i1, i2, c1, c2, t1, t2

MCSymmetry == Permutations({i1, i2}) \cup Permutations({c1, c2}) \cup Permutations({t1, t2})

MCStatistics == {[minCelsius |-> 0, maxCelsius |-> 5]}
============================================================================
