------------------------- MODULE MCVerdictArchive -------------------------
(* The listener on a short ledger, for TLC.                                *)
EXTENDS VerdictArchive, TLC
===========================================================================
