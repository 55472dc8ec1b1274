------------------------------ MODULE MCScalars -----------------------------
(* Scalars over four ASNs, and a number on either side of their range. *)
EXTENDS Scalars

MCElements == -1 .. 4

Digits(n) == [kind |-> "digits", number |-> n, left |-> FALSE, right |-> FALSE]

\* Numbers in range and out of it, with a sign, with spaces, and a name.
MCParts == {Digits(n) : n \in {0, 3, 4}}
  \cup {[Digits(3) EXCEPT !.kind = "signed"], [Digits(0) EXCEPT !.kind = "other"]}
  \cup {[Digits(1) EXCEPT !.left = l, !.right = r] : l, r \in BOOLEAN}

MCTexts == UNION {[1 .. n -> MCParts] : n \in 1 .. 3}
             \cup [1 .. 4 -> {Digits(0), Digits(3)}]
=============================================================================
