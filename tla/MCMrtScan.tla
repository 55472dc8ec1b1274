----------------------------- MODULE MCMrtScan -----------------------------
(* MrtScan over the sources of MCInputs. *)
EXTENDS MrtScan, MCInputs
=============================================================================
