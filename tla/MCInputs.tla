------------------------------ MODULE MCInputs -----------------------------
(***************************************************************************)
(* Small sources for TLC.  A source is built from a word of record shapes, *)
(* an ending and a record width, so that offsets of one source fall on     *)
(* boundaries of another and between them.                                 *)
(***************************************************************************)
EXTENDS MrtStream

CONSTANTS p1, p2

MCPeers == {p1, p2}
MCViews == {"", "v1"}

Shapes == [pitA |-> [kind |-> "pit", view |-> "v1", peers |-> <<p1, p2>>],
           pitB |-> [kind |-> "pit", view |-> "", peers |-> <<p2>>],
           rib |-> [kind |-> "rib", refs |-> <<2, 1>>],
           msg |-> [kind |-> "msg", peer |-> p1, elems |-> <<"announce", "withdraw">>],
           keep |-> [kind |-> "msg", peer |-> p2, elems |-> <<>>],
           dump |-> [kind |-> "dump", peer |-> p2, elems |-> <<"announce">>],
           state |-> [kind |-> "state", peer |-> p2],
           bad |-> [kind |-> "bad"]]

Words(shapes, n) == UNION {[1 .. m -> shapes] : m \in 0 .. n}

\* Ends: clean, torn after a few bytes of a record, torn without a byte read.
Endings == {"eof", "torn", "io"}

WithEnd(record, end) == [f \in DOMAIN record \cup {"end"} |-> IF f = "end" THEN end ELSE record[f]]

Ending(ending, end) ==
  CASE ending = "eof" -> [kind |-> "eof"]
    [] ending = "torn" -> [kind |-> "torn", end |-> end + 1]
    [] ending = "io" -> [kind |-> "torn", end |-> end]

Source(word, width, ending) ==
  Append([i \in DOMAIN word |-> WithEnd(Shapes[word[i]], width * i)],
         Ending(ending, width * Len(word)))

SourcesOf(words, widths, endings) ==
  {Source(w, width, e) : w \in words, width \in widths, e \in endings}

Pairs(first, second) == {<<a, b>> : a \in first, b \in second}

\* One source of up to three records, or of two records of any shape.
Singles == {<<a>> : a \in SourcesOf(Words({"pitA", "pitB", "rib", "bad"}, 3), {2}, Endings)
                          \cup SourcesOf(Words(DOMAIN Shapes, 2), {2}, Endings)}

\* Two sources: every short first one, with second ones whose records end
\* before, on and after the offsets the first one leaves behind.
Firsts == SourcesOf(Words({"pitA", "rib", "state", "bad"}, 2), {2}, Endings)

Seconds == SourcesOf({<<>>, <<"msg", "msg">>, <<"pitA", "rib">>, <<"bad", "msg">>, <<"msg", "bad">>},
                     {2, 3}, {"eof", "torn"})

AllInputs == {<<>>} \cup Singles \cup Pairs(Firsts, Seconds)

\* Longer scans, of up to four sources, empty ones among them.
LongScans ==
  LET short == SourcesOf(Words({"pitA", "rib", "state"}, 2), {2}, {"eof"})
      long == SourcesOf({<<"pitA", "rib", "msg", "rib">>, <<"pitA", "bad", "pitB", "rib">>}, {2}, Endings)
      empty == Source(<<>>, 2, "eof")
  IN {<<a>> : a \in short \cup long}
     \cup {<<a, empty, b>> : a \in short, b \in long}
     \cup {<<a, b, empty, a>> : a \in long, b \in {Source(<<"rib", "state">>, 3, "torn")}}

LongAndShort == LongScans \cup AllInputs

\* What the repository's own fixtures look like: no error, or a torn tail.
TornPairs == {input \in Pairs(Firsts, Seconds) : ~Has(input, {"bad"})}

BadSingles == {input \in Singles : ~Has(input, {"torn"})}

\* One or two routing tables, of two collectors.
Tables ==
  LET table == SourcesOf({<<"pitA">>, <<"pitB">>, <<"pitA", "rib">>, <<"pitB", "rib">>}, {2}, {"eof"})
  IN {<<a>> : a \in table} \cup Pairs(table, table)
=============================================================================
