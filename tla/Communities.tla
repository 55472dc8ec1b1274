---------------------------- MODULE Communities ----------------------------
(***************************************************************************)
(* A community string, read by community_parse and is_large_community.     *)
(*                                                                         *)
(* A string is the sequence of its parts, split at the colons.  A part is  *)
(* digits, digits with a plus sign, or anything else, and may have spaces  *)
(* on either side.                                                         *)
(***************************************************************************)
EXTENDS Integers, Sequences

CONSTANT Modulus  \* the number of values of a u32; 2^32 in the code

ASSUME ModulusAssumption == Modulus \in Nat \ {0}

Parts == [kind : {"digits", "signed", "other"}, number : Nat, left : BOOLEAN, right : BOOLEAN]

\* Only the outer spaces go.
Trim(text) ==
  [i \in DOMAIN text |->
     [text[i] EXCEPT !.left = i # 1 /\ @, !.right = i # Len(text) /\ @]]

\* What parses as a u32: a sign is read over, a number out of range is not.
IsU32(part) == part.kind # "other" /\ ~part.left /\ ~part.right /\ part.number < Modulus

\* Mutant of CommunityParse: what follows the second part is not looked at.
CommunityParseLoose(text) ==
  LET parts == Trim(text) IN
  IF Len(parts) >= 2 /\ IsU32(parts[1]) /\ IsU32(parts[2])
  THEN [asn |-> parts[1].number, value |-> parts[2].number, valid |-> TRUE]
  ELSE [asn |-> 0, value |-> 0, valid |-> FALSE]

\* The struct cell of a standard community; of anything else a NULL one, whose
\* children are zero.
CommunityParse(text) ==
  LET parts == Trim(text) IN
  IF Len(parts) = 2 /\ IsU32(parts[1]) /\ IsU32(parts[2])
  THEN [asn |-> parts[1].number, value |-> parts[2].number, valid |-> TRUE]
  ELSE [asn |-> 0, value |-> 0, valid |-> FALSE]

IsLargeCommunity(text) ==
  LET parts == Trim(text) IN
  Len(parts) = 3 /\ \A i \in 1 .. 3 : IsU32(parts[i])

\* A community of the communities column, as the decoder writes it.
Canonical(numbers) ==
  [i \in DOMAIN numbers |->
     [kind |-> "digits", number |-> numbers[i], left |-> FALSE, right |-> FALSE]]
=============================================================================
