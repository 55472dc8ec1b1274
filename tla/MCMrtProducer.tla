--------------------------- MODULE MCMrtProducer ---------------------------
(* MrtProducer over the sources of MCInputs. *)
EXTENDS MrtProducer, MCInputs
=============================================================================
