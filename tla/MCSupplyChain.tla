--------------------------- MODULE MCSupplyChain ---------------------------
(* The seeded consortium of six companies for TLC.  The registry runs of    *)
(* MCStakeholderRegistry cover its administration; here the regulator only *)
(* suspends and reactivates identities while the batches move.             *)
EXTENDS SupplyChain, TLC

CONSTANTS b1, b2, reg, farm, proc, logi, shop, orac, cReg, cFarm, cProc, cLogi, cShop, cOrac,
          s1, k1

MCCertificateOf == (reg :> cReg) @@ (farm :> cFarm) @@ (proc :> cProc)
                   @@ (logi :> cLogi) @@ (shop :> cShop) @@ (orac :> cOrac)

MCRoleOf == (reg :> "REGULATOR") @@ (farm :> "FARM") @@ (proc :> "PROCESSOR")
            @@ (logi :> "LOGISTICS") @@ (shop :> "RETAILER") @@ (orac :> "ORACLE")

MCStatistics == {[minCelsius |-> 0, maxCelsius |-> 5], [minCelsius |-> 2, maxCelsius |-> 6]}

MCInit == SeededInit(reg, MCCertificateOf, MCRoleOf, s1 :> k1)

Suspensions ==
  \E id \in {orac, logi} :
    /\ \/ Registry!SuspendStakeholder(cReg, id)
       \/ Registry!ReactivateStakeholder(cReg, id)
    /\ UNCHANGED chainVars

MCNext == ChainNext \/ Suspensions

MCSpec == MCInit /\ [][MCNext]_vars

MCSymmetry == Permutations(EvidenceIds) \cup Permutations(Batches)
============================================================================
