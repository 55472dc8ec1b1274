-------------------------- MODULE MrtStreamProofs --------------------------
(***************************************************************************)
(* Facts about the data of a scan, for every source: what the decoder      *)
(* holds after a prefix of the records, and what rows a record has.        *)
(***************************************************************************)
EXTENDS MrtStream, EnumerationsProofs

---------------------------------------------------------------------------
(* The last PEER_INDEX_TABLE *)

\* Among the first i records there is a last PEER_INDEX_TABLE, or none at all.
LEMMA LastPitExists ==
  ASSUME NEW source, NEW i \in Nat
  PROVE  \E k \in 0 .. i : IsLastPit(k, source, i)
<1> DEFINE Wrong == {n \in Nat : ~ \E k \in 0 .. n : IsLastPit(k, source, n)}
<1>1. SUFFICES ASSUME Wrong # {} PROVE FALSE
  OBVIOUS
<1>2. PICK n \in Wrong : \A m \in Wrong : n <= m
  <2> HIDE DEF Wrong
  <2>1. Wrong \subseteq Nat
    BY DEF Wrong
  <2> QED  BY <1>1, <2>1, LeastNumber
<1>3. n # 0
  <2>1. IsLastPit(0, source, 0)
    BY DEF IsLastPit
  <2> QED  BY <2>1
<1>4. PICK k \in 0 .. n - 1 : IsLastPit(k, source, n - 1)
  <2>1. n - 1 \in Nat /\ n - 1 \notin Wrong
    BY <1>2, <1>3
  <2> QED  BY <2>1
<1>5. CASE source[n].kind = "pit"
  <2>1. IsLastPit(n, source, n)
    BY <1>5 DEF IsLastPit
  <2> QED  BY <2>1
<1>6. CASE source[n].kind # "pit"
  <2>1. IsLastPit(k, source, n)
    BY <1>3, <1>4, <1>6 DEF IsLastPit
  <2>2. k \in 0 .. n
    OBVIOUS
  <2> QED  BY <2>1, <2>2
<1> QED  BY <1>5, <1>6

\* ... and only one.
LEMMA LastPitUnique ==
  ASSUME NEW source, NEW i \in Nat, NEW k \in 0 .. i, NEW m \in 0 .. i,
         IsLastPit(k, source, i), IsLastPit(m, source, i)
  PROVE  k = m
<1>1. CASE k < m
  BY <1>1 DEF IsLastPit
<1>2. CASE m < k
  BY <1>2 DEF IsLastPit
<1> QED  BY <1>1, <1>2

\* LastPit, a choice, is that one.
LEMMA LastPitIs ==
  ASSUME NEW source, NEW i \in Nat
  PROVE  LastPit(source, i) \in 0 .. i /\ IsLastPit(LastPit(source, i), source, i)
BY LastPitExists DEF LastPit

\* One record further it is the new record or the same as before.
LEMMA LastPitStep ==
  ASSUME NEW source, NEW i \in Nat
  PROVE  /\ source[i + 1].kind = "pit" => LastPit(source, i + 1) = i + 1
         /\ source[i + 1].kind # "pit" => LastPit(source, i + 1) = LastPit(source, i)
<1>1. LastPit(source, i) \in 0 .. i /\ IsLastPit(LastPit(source, i), source, i)
  BY LastPitIs
<1>2. /\ LastPit(source, i + 1) \in 0 .. i + 1
      /\ IsLastPit(LastPit(source, i + 1), source, i + 1)
  BY LastPitIs, i + 1 \in Nat
<1>3. ASSUME source[i + 1].kind = "pit" PROVE LastPit(source, i + 1) = i + 1
  BY <1>2, <1>3 DEF IsLastPit
<1>4. ASSUME source[i + 1].kind # "pit" PROVE LastPit(source, i + 1) = LastPit(source, i)
  <2>1. LastPit(source, i) \in 0 .. i + 1
    BY <1>1
  <2>2. IsLastPit(LastPit(source, i), source, i + 1)
    BY <1>1, <1>4 DEF IsLastPit
  <2> QED  BY <1>2, <2>1, <2>2, LastPitUnique, i + 1 \in Nat
<1> QED  BY <1>3, <1>4

---------------------------------------------------------------------------
(* The decoder after a prefix *)

\* A source is begun with a fresh decoder.
LEMMA DecoderAtStart ==
  ASSUME NEW source
  PROVE  DecoderAt(source, 0) = FreshDecoder
BY LastPitIs DEF DecoderAt

\* Feeding one more record to the decoder of a prefix gives the decoder of the
\* longer prefix.
LEMMA DecoderAtStep ==
  ASSUME NEW source, NEW i \in Nat
  PROVE  DecoderAt(source, i + 1) = Primed(DecoderAt(source, i), source[i + 1])
<1>1. CASE source[i + 1].kind = "pit"
  <2>1. LastPit(source, i + 1) = i + 1
    BY <1>1, LastPitStep
  <2>2. DecoderAt(source, i + 1) = Primed(FreshDecoder, source[i + 1])
    BY <2>1, i + 1 # 0 DEF DecoderAt
  <2> QED  BY <1>1, <2>2 DEF Primed
<1>2. CASE source[i + 1].kind # "pit"
  <2>1. LastPit(source, i + 1) = LastPit(source, i)
    BY <1>2, LastPitStep
  <2>2. DecoderAt(source, i + 1) = DecoderAt(source, i)
    BY <2>1 DEF DecoderAt
  <2> QED  BY <1>2, <2>2 DEF Primed
<1> QED  BY <1>1, <1>2

\* A view name and a peer table replace each other whole.
LEMMA PrimedType ==
  ASSUME NEW record \in Record, NEW decoder \in Decoder
  PROVE  Primed(decoder, record) \in Decoder
<1>1. CASE record.kind = "pit"
  <2>1. record \in PeerIndexTable
    BY <1>1 DEF Record, Parsed, RibEntries, Message, TableDump, StateChange, Recoverable, CleanEnd, Torn
  <2> QED  BY <1>1, <2>1 DEF Primed, Decoder, PeerIndexTable
<1> QED  BY <1>1 DEF Primed

\* A fresh decoder has no view and no table.
LEMMA FreshDecoderType == FreshDecoder \in Decoder
BY DEF FreshDecoder, Decoder

\* After any prefix of a source the decoder is well formed.
LEMMA DecoderAtType ==
  ASSUME NEW source \in Seq(Record), NEW i \in 0 .. Len(source)
  PROVE  DecoderAt(source, i) \in Decoder
<1>1. CASE LastPit(source, i) = 0
  BY <1>1, FreshDecoderType DEF DecoderAt
<1>2. CASE LastPit(source, i) # 0
  <2>1. LastPit(source, i) \in 1 .. Len(source)
    BY <1>2, LastPitIs
  <2>2. source[LastPit(source, i)] \in Record
    BY <2>1
  <2> QED  BY <1>2, <2>2, FreshDecoderType, PrimedType DEF DecoderAt
<1> QED  BY <1>1, <1>2

---------------------------------------------------------------------------
(* The rows of a record *)

\* The rows come from the record at hand, in the order of its entries.
RowsOfRecord(rows, s, j) ==
  /\ rows \in Seq(Row)
  /\ \A n \in 1 .. Len(rows) : rows[n].src = s /\ rows[n].rec = j
  /\ \A m, n \in 1 .. Len(rows) : m < n => rows[m].k < rows[n].k

\* The rows of a record name it and are in the order of its entries.
LEMMA RecordRowsType ==
  ASSUME NEW s \in Nat, NEW j \in Nat, NEW record \in Record, NEW decoder \in Decoder
  PROVE  RowsOfRecord(RecordRows(s, j, record, decoder), s, j)
<1>1. CASE record.kind = "rib"
  <2> DEFINE S == Resolved(record.refs, decoder.table)
             q == Ascending(S)
             size == Cardinality(S)
             rows == [n \in 1 .. size |->
                        RowAt(s, j, q[n], "announce",
                              decoder.table[record.refs[q[n]]], decoder.view)]
  <2>1. record.refs \in Seq(Nat)
    BY <1>1 DEF Record, Parsed, PeerIndexTable, RibEntries, Message, TableDump, StateChange,
                Recoverable, CleanEnd, Torn
  <2>2. S \in SUBSET (1 .. Len(record.refs))
    BY <2>1 DEF Resolved
  <2>3. /\ size \in Nat
        /\ q \in [1 .. size -> S]
        /\ \A m, n \in 1 .. size : m < n => q[m] < q[n]
    <3> HIDE DEF S
    <3>1. Len(record.refs) \in Nat
      BY <2>1
    <3>2. S \subseteq Nat /\ IsFiniteSet(S)
      BY <2>2, <3>1, IndexesFinite
    <3> QED  BY <3>2, AscendingIs DEF Lists
  <2>4. RecordRows(s, j, record, decoder) = rows
    BY <1>1, <2>3 DEF RecordRows
  <2>5. \A n \in 1 .. size : q[n] \in Nat /\ decoder.table[record.refs[q[n]]] \in Peers
    <3> SUFFICES ASSUME NEW n \in 1 .. size
                 PROVE  q[n] \in Nat /\ decoder.table[record.refs[q[n]]] \in Peers
      OBVIOUS
    <3>1. q[n] \in S
      <4> HIDE DEF S, q, size
      <4> QED  BY <2>3
    <3>2. q[n] \in 1 .. Len(record.refs)
      BY <2>2, <3>1
    <3>3. record.refs[q[n]] \in DOMAIN decoder.table
      BY <3>1 DEF Resolved
    <3>4. decoder.table \in Seq(Peers)
      BY DEF Decoder
    <3> HIDE DEF q
    <3> QED  BY <3>2, <3>3, <3>4
  <2>6. \A n \in 1 .. size : rows[n] \in Row
    BY <2>5 DEF Row, RowAt, Decoder, RowTypes, Elems
  <2>7. rows \in Seq(Row) /\ Len(rows) = size
    BY <2>3, <2>6
  <2> HIDE DEF S, q, size
  <2>8. \A n \in 1 .. size : rows[n].src = s /\ rows[n].rec = j /\ rows[n].k = q[n]
    BY DEF RowAt
  <2> HIDE DEF rows
  <2> QED  BY <2>3, <2>4, <2>7, <2>8 DEF RowsOfRecord
<1>2. CASE record.kind \in {"msg", "dump"}
  <2> DEFINE rows == [n \in 1 .. Len(record.elems) |->
                        RowAt(s, j, n, record.elems[n], record.peer, decoder.view)]
  <2>1. record.elems \in Seq(Elems) /\ record.peer \in Peers
    <3>1. record \in Message \/ record \in TableDump
      BY <1>2 DEF Record, Parsed, PeerIndexTable, RibEntries, Message, TableDump, StateChange,
                  Recoverable, CleanEnd, Torn
    <3>2. CASE record \in Message
      BY <3>2 DEF Message
    <3>3. CASE record \in TableDump
      <4>1. record.peer \in Peers /\ record.elems = <<"announce">>
        BY <3>3 DEF TableDump
      <4>2. <<"announce">> \in Seq(Elems)
        BY DEF Elems
      <4> QED  BY <4>1, <4>2
    <3> QED  BY <3>1, <3>2, <3>3
  <2>2. RecordRows(s, j, record, decoder) = rows
    BY <1>2, <2>1 DEF RecordRows
  <2>3. \A n \in 1 .. Len(record.elems) : rows[n] \in Row
    BY <2>1 DEF Row, RowAt, Decoder, RowTypes
  <2>4. rows \in Seq(Row) /\ Len(rows) = Len(record.elems)
    <3>1. Len(record.elems) \in Nat
      BY <2>1
    <3>2. rows \in [1 .. Len(record.elems) -> Row]
      <4> DEFINE row(n) == RowAt(s, j, n, record.elems[n], record.peer, decoder.view)
      <4>1. \A n \in 1 .. Len(record.elems) : row(n) \in Row
        BY <2>3
      <4> HIDE DEF row
      <4>2. [n \in 1 .. Len(record.elems) |-> row(n)] \in [1 .. Len(record.elems) -> Row]
        BY <4>1
      <4> QED  BY <4>2 DEF row
    <3> HIDE DEF rows
    <3> QED  BY <3>1, <3>2
  <2>5. \A n \in 1 .. Len(record.elems) : rows[n].src = s /\ rows[n].rec = j /\ rows[n].k = n
    BY DEF RowAt
  <2> HIDE DEF rows
  <2> QED  BY <2>2, <2>4, <2>5 DEF RowsOfRecord
<1>3. CASE record.kind = "state"
  <2> DEFINE row == RowAt(s, j, 1, "state_change", record.peer, decoder.view)
  <2>1. record.peer \in Peers
    BY <1>3 DEF Record, Parsed, PeerIndexTable, RibEntries, Message, TableDump, StateChange,
                Recoverable, CleanEnd, Torn
  <2>2. RecordRows(s, j, record, decoder) = <<row>>
    BY <1>3 DEF RecordRows
  <2>3. row \in Row /\ row.src = s /\ row.rec = j
    BY <2>1 DEF Row, RowAt, Decoder, RowTypes
  <2> HIDE DEF row
  <2> QED  BY <2>2, <2>3 DEF RowsOfRecord
<1>4. CASE record.kind \notin {"rib", "msg", "dump", "state"}
  <2>1. RecordRows(s, j, record, decoder) = <<>>
    BY <1>4 DEF RecordRows
  <2> QED  BY <2>1 DEF RowsOfRecord
<1> QED  BY <1>1, <1>2, <1>3, <1>4

\* An error row is the one row of its outcome.
LEMMA ErrorRowType ==
  ASSUME NEW s \in Nat, NEW j \in Nat
  PROVE  /\ ErrorRow(s, j) \in Row
         /\ RowsOfRecord(<<ErrorRow(s, j)>>, s, j)
<1>1. ErrorRow(s, j) \in Row /\ ErrorRow(s, j).src = s /\ ErrorRow(s, j).rec = j
  BY DEF ErrorRow, RowAt, Row, RowTypes
<1> QED  BY <1>1 DEF RowsOfRecord
=============================================================================
