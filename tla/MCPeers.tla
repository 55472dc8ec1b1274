------------------------------ MODULE MCPeers ------------------------------
(* Peers over the sources of MCInputs. *)
EXTENDS Peers, MCInputs
=============================================================================
