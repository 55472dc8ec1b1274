------------------------------ MODULE MCColumns -----------------------------
(* Columns over two ASNs, and addresses on both sides of the sign bit. *)
EXTENDS Columns

MCPaths == {<<>>, <<1>>, <<2, 1>>}

Prefix(v, bits, mask) == [ip |-> [v |-> v, bits |-> bits], mask |-> mask]

MCPrefixes == {Prefix(4, 1, 1), Prefix(6, 0, 0), Prefix(6, 3, 2), Prefix(6, 4, 2), Prefix(6, 4, 3)}
=============================================================================
