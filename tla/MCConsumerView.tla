--------------------------- MODULE MCConsumerView ---------------------------
(* The seeded consortium of MCSupplyChain with the retailer's public page. *)
EXTENDS ConsumerView, TLC

CONSTANTS b1, b2, reg, farm, proc, logi, shop, orac, cReg, cFarm, cProc, cLogi, cShop, cOrac, s1, k1

MCCertificateOf == (reg :> cReg) @@ (farm :> cFarm) @@ (proc :> cProc)
                   @@ (logi :> cLogi) @@ (shop :> cShop) @@ (orac :> cOrac)

MCRoleOf == (reg :> "REGULATOR") @@ (farm :> "FARM") @@ (proc :> "PROCESSOR")
            @@ (logi :> "LOGISTICS") @@ (shop :> "RETAILER") @@ (orac :> "ORACLE")

MCStatistics == {[minCelsius |-> 0, maxCelsius |-> 5], [minCelsius |-> 2, maxCelsius |-> 6]}

MCInit == SeededInit(reg, MCCertificateOf, MCRoleOf, s1 :> k1) /\ page = Unread

\* The registry runs cover its administration; here the regulator suspends
\* and reactivates the retailer, who acts last and hosts the page.
Suspensions ==
  /\ \/ Registry!SuspendStakeholder(cReg, shop)
     \/ Registry!ReactivateStakeholder(cReg, shop)
  /\ UNCHANGED chainVars

\* One batch goes through everything; the other, created and checked beside
\* it, shows what must not leak from one batch to the other.
Transactions ==
  \E caller \in Certificates :
    \/ LifecycleNext(caller, b1)
    \/ CreateBatch(caller, b2)
    \/ \E b \in Batches : ComplianceNext(caller, b)

MCNext == ((Transactions \/ Suspensions) /\ UNCHANGED page) \/ PageNext

MCSpec == MCInit /\ [][MCNext]_pageVars

MCSymmetry == Permutations(EvidenceIds)
=============================================================================
