-------------------------- MODULE MCEvidenceChecks --------------------------
(* Two runs of two readings for TLC, on the limits of the safe range: 5.0004 *)
(* is 5.000 to the system, and safe; 5.0006 is 5.001, and a breach; -0.0004 *)
(* is zero, and safe.                                                       *)
EXTENDS EvidenceChecks, TLC

MCTables == {<<-4, 50004>>, <<32000, 50006>>}

MCFakeStatistics == {[minCelsius |-> 0, maxCelsius |-> 4000, readingCount |-> 2]}

Allowed(o, d, e, s, k) == [oracle |-> o, demo |-> d, edit |-> e, switch |-> s, keygen |-> k]

\* Two programs at once; one program, its database edited and its key switched.
MCAllowances == {Allowed(1, 1, 0, 0, 1), Allowed(0, 1, 1, 1, 1), Allowed(1, 0, 1, 1, 1)}

Keys == Permutations(PublicKeys)

=============================================================================
