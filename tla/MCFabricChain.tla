---------------------------- MODULE MCFabricChain ----------------------------
(* The seeded consortium with two regulators, transactions in flight: the   *)
(* races of custody steps, evidence, resolutions, recalls and suspensions. *)
EXTENDS FabricLedger, TLC

CONSTANTS reg, reg2, farm, proc, orac, cReg, cReg2, cFarm, cProc, cOrac, s1, k1, t1, t2

MCCertificateOf == (reg :> cReg) @@ (reg2 :> cReg2) @@ (farm :> cFarm) @@ (proc :> cProc)
                   @@ (orac :> cOrac)

MCRoleOf == (reg :> "REGULATOR") @@ (reg2 :> "REGULATOR") @@ (farm :> "FARM")
            @@ (proc :> "PROCESSOR") @@ (orac :> "ORACLE")

MCStatistics == {[minCelsius |-> 0, maxCelsius |-> 5], [minCelsius |-> 2, maxCelsius |-> 6]}

MCInit == /\ Chain!SeededInit(reg, MCCertificateOf, MCRoleOf, s1 :> k1)
          /\ Idle

\* Who is suspended and reactivated, and by whom, is a bound of this model.
Suspendable == {reg2, proc, orac}
NextBounded ==
  /\ Next
  /\ \A s \in Slots :
       pending'[s] # NoTx /\ pending'[s].call[1] \in {"suspendStakeholder", "reactivateStakeholder"} =>
         pending'[s].call[2] = cReg /\ pending'[s].call[3] \in Suspendable

MCSpec == MCInit /\ [][NextBounded]_vars

MCSymmetry == Permutations(Slots) \cup Permutations(EvidenceIds)
============================================================================
