-------------------------------- MODULE Globs -------------------------------
(***************************************************************************)
(* Globs over object keys, as list_glob uses them: which keys a pattern    *)
(* matches, and the prefix the bucket is listed under.                     *)
(*                                                                         *)
(* A key is the sequence of its segments, the names between the slashes.   *)
(* A pattern is a sequence of segments as well: a literal one, one with    *)
(* wildcards, given by the names that fit it, or a deep one, "**".  A      *)
(* pattern that ends in "**" is written with a last segment any name fits. *)
(***************************************************************************)
EXTENDS Integers, Sequences, FiniteSetsExt

Segment(kind, text, names) == [kind |-> kind, text |-> text, names |-> names]
Literal(name) == Segment("literal", name, {name})
Wildcard(text, names) == Segment("wild", text, names)
Deep == Segment("deep", "**", {})

Segments == [kind : {"literal", "wild", "deep"}, text : STRING, names : SUBSET STRING]

IsPattern(pattern) ==
  /\ pattern \in Seq(Segments)
  /\ \A i \in 1 .. Len(pattern) :
       pattern[i].kind = "literal" => pattern[i].names = {pattern[i].text}
  /\ pattern # <<>> => pattern[Len(pattern)].kind # "deep"

WildAt(pattern) == {i \in 1 .. Len(pattern) : pattern[i].kind # "literal"}

\* Mutant of Fits: a wildcard crosses a slash.
FitsAcross(segment, key, from, to) ==
  IF segment.kind = "literal" THEN to = from + 1 /\ key[to] \in segment.names ELSE from <= to

\* The segment takes the part of the key between two places.
Fits(segment, key, from, to) ==
  IF segment.kind = "deep" THEN from <= to ELSE to = from + 1 /\ key[to] \in segment.names

\* cut[i] is how much of the key the first i segments of the pattern take.
GlobMatches(pattern, key) ==
  \E cut \in [0 .. Len(pattern) -> 0 .. Len(key)] :
    /\ cut[0] = 0 /\ cut[Len(pattern)] = Len(key)
    /\ \A i \in 1 .. Len(pattern) : Fits(pattern[i], key, cut[i - 1], cut[i])

\* Mutant of HeadLength: the prefix reaches into the first wildcard's segment.
HeadLengthPastSlash(pattern) ==
  IF WildAt(pattern) = {} THEN Len(pattern) ELSE Min(WildAt(pattern))

\* The segments before the first one with a wildcard.
HeadLength(pattern) ==
  IF WildAt(pattern) = {} THEN Len(pattern) ELSE Min(WildAt(pattern)) - 1

GlobPrefix(pattern) == [i \in 1 .. HeadLength(pattern) |-> pattern[i].text]

\* A listing has the keys below its prefix.
Below(prefix, key) ==
  Len(prefix) < Len(key) /\ \A i \in 1 .. Len(prefix) : key[i] = prefix[i]
=============================================================================
