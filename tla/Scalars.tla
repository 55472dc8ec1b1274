------------------------------- MODULE Scalars ------------------------------
(***************************************************************************)
(* The scalar functions, for one row of their input: path_length,          *)
(* origin_asn, as_path_prepends and path_contains over an as_path cell,    *)
(* community_parse and is_large_community over a string.  The SQL          *)
(* functions are separate; those of one kind read their cell in the same   *)
(* way, so one step here reads it, and the loop over the neighbours of a   *)
(* path is the only one.                                                   *)
(***************************************************************************)
EXTENDS Communities, FiniteSets

CONSTANTS
  Null,      \* a NULL cell or element
  Elements,  \* the BIGINTs a list or the asn argument may hold
  MaxLen,    \* bounds the length of a list
  Texts      \* the strings that may be taken for a community

ASSUME NullAssumption == Null \notin Int
ASSUME ElementsAssumption == Elements \subseteq Int
ASSUME MaxLenAssumption == MaxLen \in Nat
ASSUME TextsAssumption == Texts \subseteq Seq(Parts) /\ Null \notin Texts

Asns == 0 .. Modulus - 1

\* The lists with at most MaxLen elements, NULL elements among them.
Lists == UNION {[1 .. n -> Elements \cup {Null}] : n \in 0 .. MaxLen}

VARIABLES
  cell,      \* the list the functions are given, or NULL
  asn,       \* the second argument of path_contains
  text,      \* the string the functions are given, or NULL
  path,      \* the cell as a Vec<u32>
  at,        \* the window of as_path_prepends looked at next
  prepends,  \* those counted so far
  result,    \* the results
  pc         \* "read", "count" or "done"

vars == <<cell, asn, text, path, at, prepends, result, pc>>

NoResult == [length |-> Null, origin |-> Null, prepends |-> Null, contains |-> Null,
             parsed |-> Null, large |-> Null]

Init ==
  /\ \/ cell \in Lists \cup {Null} /\ asn \in Elements \cup {Null} /\ text = Null
     \/ cell = Null /\ asn = Null /\ text \in Texts
  /\ path = <<>>
  /\ at = 1
  /\ prepends = 0
  /\ result = NoResult
  /\ pc = "read"

\* Mutant of U32: ASNs are two bytes wide.
U16(e) == IF e = Null THEN 0 ELSE e % (Modulus \div 2)

\* A BIGINT as a u32, a NULL element as zero.
U32(e) == IF e = Null THEN 0 ELSE e % Modulus

Read ==
  /\ pc = "read" /\ text = Null
  /\ IF cell = Null
     THEN pc' = "done" /\ UNCHANGED path
     ELSE pc' = "count" /\ path' = [i \in DOMAIN cell |-> U32(cell[i])]
  /\ UNCHANGED <<cell, asn, text, at, prepends, result>>

\* NULL for a NULL string, as Read has it.
ReadCommunity ==
  /\ pc = "read" /\ text # Null
  /\ result' = [result EXCEPT !.parsed = CommunityParse(text), !.large = IsLargeCommunity(text)]
  /\ pc' = "done"
  /\ UNCHANGED <<cell, asn, text, path, at, prepends>>

\* Mutant of CountWindow: the last two are not compared.
CountWindowShort ==
  /\ pc = "count" /\ at < Len(path)
  /\ prepends' = IF path[at] = path[at + 1] /\ at + 1 < Len(path) THEN prepends + 1 ELSE prepends
  /\ at' = at + 1
  /\ UNCHANGED <<cell, asn, text, path, result, pc>>

CountWindow ==
  /\ pc = "count" /\ at < Len(path)
  /\ prepends' = IF path[at] = path[at + 1] THEN prepends + 1 ELSE prepends
  /\ at' = at + 1
  /\ UNCHANGED <<cell, asn, text, path, result, pc>>

PathLength == Len(path)

Origin == IF path = <<>> THEN Null ELSE path[Len(path)]

\* NULL for a NULL asn, although the path is there.
Asn == IF asn = Null THEN Null ELSE U32(asn)
Contains == IF Asn = Null THEN Null ELSE \E i \in DOMAIN path : path[i] = Asn

Finish ==
  /\ pc = "count" /\ at >= Len(path)
  /\ result' = [result EXCEPT !.length = PathLength, !.origin = Origin,
                               !.prepends = prepends, !.contains = Contains]
  /\ pc' = "done"
  /\ UNCHANGED <<cell, asn, text, path, at, prepends>>

Done == pc = "done" /\ UNCHANGED vars

Next == Read \/ ReadCommunity \/ CountWindow \/ Finish \/ Done

Spec == Init /\ [][Next]_vars

---------------------------------------------------------------------------
(* Properties *)

\* A run of equal ASNs starts where the path does and where the ASN changes.
RunStarts == {i \in DOMAIN path : i = 1 \/ path[i] # path[i - 1]}

\* The number of prepends is the length less the number of runs
\* (aspath.rs:21-24), whatever was padded and where.
PrependsAreRepeats ==
  pc = "done" /\ cell # Null => result.prepends = Len(path) - Cardinality(RunStarts)

\* path_contains finds every BIGINT that is there (path.rs:235, aspath.rs:35), and
\* what it finds and is not there is due to a number that is no ASN, or to a NULL:
\* one that has the low bits of the other (arrow_io.rs:309).  So over lists of ASNs
\* it is exact: none is mistaken for another, a four-byte one for its low bytes say.
ContainsExact ==
  pc = "done" /\ cell # Null /\ asn # Null =>
    /\ (\E i \in DOMAIN cell : cell[i] = asn) => result.contains
    /\ result.contains =>
         \E i \in DOMAIN cell :
           cell[i] = asn \/ (~({cell[i], asn} \subseteq Asns) /\ U32(cell[i]) = U32(asn))

\* The communities a row holds are told apart and read back (community.rs:8-12,
\* 24-25): as the decoder writes them, two numbers parse to themselves and are
\* not large, three are large and do not parse, and nothing is both.
CommunitiesToldApart ==
  pc = "done" /\ text # Null =>
    /\ ~(result.parsed.valid /\ result.large)
    /\ \A a, b \in Asns :
         text = Canonical(<<a, b>>) => result.parsed = [asn |-> a, value |-> b, valid |-> TRUE]
    /\ \A a, b, c \in Asns : text = Canonical(<<a, b, c>>) => result.large
=============================================================================
