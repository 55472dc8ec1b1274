----------------------------- MODULE MrtStream -----------------------------
(***************************************************************************)
(* The data of a scan: MRT sources as sequences of records, the decoder    *)
(* that turns records into rows, and the rows a single uninterrupted pass  *)
(* would return.  Everything here is a constant-level definition; the      *)
(* producers that read the sources are in MrtProducer and Peers.           *)
(*                                                                         *)
(* A source is the sequence of outcomes `next_record` has on its           *)
(* decompressed bytes: parsed records, recoverable failures ("bad"), and   *)
(* one terminal outcome, a clean end ("eof") or a short read or other I/O  *)
(* error ("torn").  `end` is the byte count of the CountingReader once     *)
(* that outcome has been returned.                                         *)
(***************************************************************************)
EXTENDS Integers, Sequences, Enumerations

CONSTANTS
  Peers,   \* the (peer_ip, peer_asn) pairs that can occur
  NoPeer,  \* the NULL peer of an error row
  Views,   \* the RIB view names a PEER_INDEX_TABLE may carry ("" among them)
  NoView   \* the NULL view name

Elems == {"announce", "withdraw"}
RowTypes == Elems \cup {"state_change", "error"}

---------------------------------------------------------------------------
(* Records.  A BGP4MP message, a state change and an entry of the old TABLE_DUMP *)
(* format name their peer; the entries of a TABLE_DUMP_V2 RIB refer to a table.  *)

PeerIndexTable == [kind : {"pit"}, end : Nat \ {0}, view : Views, peers : Seq(Peers)]
RibEntries == [kind : {"rib"}, end : Nat \ {0}, refs : Seq(Nat)]
Message == [kind : {"msg"}, end : Nat \ {0}, peer : Peers, elems : Seq(Elems)]
TableDump == [kind : {"dump"}, end : Nat \ {0}, peer : Peers, elems : {<<"announce">>}]
StateChange == [kind : {"state"}, end : Nat \ {0}, peer : Peers]
Parsed == PeerIndexTable \cup RibEntries \cup Message \cup TableDump \cup StateChange

Recoverable == [kind : {"bad"}, end : Nat \ {0}]
CleanEnd == [kind : {"eof"}]
Torn == [kind : {"torn"}, end : Nat]
Record == Parsed \cup Recoverable \cup CleanEnd \cup Torn

DataKinds == {"pit", "rib", "msg", "dump", "state"}
ErrorKinds == {"bad", "torn"}
EndKinds == {"eof", "torn"}

\* The byte offset once the first i outcomes of a source have been read.
EndAt(source, i) == IF i = 0 THEN 0 ELSE source[i].end

\* Records are self-delimiting and never empty, so offsets grow with every
\* record; an I/O error may consume nothing.
IsSource(source) ==
  /\ source \in Seq(Record)
  /\ Len(source) >= 1
  /\ \A i \in 1 .. Len(source) : source[i].kind \in EndKinds <=> i = Len(source)
  /\ \A i \in 1 .. Len(source) - 1 : EndAt(source, i - 1) < source[i].end
  /\ source[Len(source)].kind = "torn" =>
       EndAt(source, Len(source) - 1) <= source[Len(source)].end

---------------------------------------------------------------------------
(* The decoder *)

Decoder == [view : Views \cup {NoView}, table : Seq(Peers)]

FreshDecoder == [view |-> NoView, table |-> <<>>]

\* A PEER_INDEX_TABLE replaces the view name and the peer table; no other
\* record changes the decoder.
Primed(decoder, record) ==
  IF record.kind = "pit"
  THEN [view |-> IF record.view = "" THEN NoView ELSE record.view,
        table |-> record.peers]
  ELSE decoder

\* A row, named by where it comes from: entry k of record rec of source src.
Row == [src : Nat, rec : Nat, k : Nat, type : RowTypes,
        peer : Peers \cup {NoPeer}, view : Views \cup {NoView}]

RowAt(s, j, k, type, peer, view) ==
  [src |-> s, rec |-> j, k |-> k, type |-> type, peer |-> peer, view |-> view]

\* A RIB entry whose peer index the table does not resolve yields no row.
Resolved(refs, table) == {k \in DOMAIN refs : refs[k] \in DOMAIN table}

RecordRows(s, j, record, decoder) ==
  CASE record.kind = "rib" ->
         LET hits == Ascending(Resolved(record.refs, decoder.table))
         IN [n \in DOMAIN hits |->
               RowAt(s, j, hits[n], "announce",
                     decoder.table[record.refs[hits[n]]], decoder.view)]
    [] record.kind \in {"msg", "dump"} ->
         [n \in DOMAIN record.elems |->
            RowAt(s, j, n, record.elems[n], record.peer, decoder.view)]
    [] record.kind = "state" ->
         <<RowAt(s, j, 1, "state_change", record.peer, decoder.view)>>
    [] OTHER -> <<>>

\* The row that reports a failure has every other column at its default.
ErrorRow(s, j) == RowAt(s, j, 1, "error", NoPeer, NoView)

---------------------------------------------------------------------------
(* One uninterrupted pass over a source: what any scan is measured by *)

\* k is the last PEER_INDEX_TABLE among the first i records (0: there is none).
IsLastPit(k, source, i) ==
  /\ k = 0 \/ source[k].kind = "pit"
  /\ \A m \in k + 1 .. i : source[m].kind # "pit"

LastPit(source, i) == CHOOSE k \in 0 .. i : IsLastPit(k, source, i)

DecoderAt(source, i) ==
  IF LastPit(source, i) = 0 THEN FreshDecoder
  ELSE Primed(FreshDecoder, source[LastPit(source, i)])

\* The rows outcome j of source s stands for.
RowsAt(sources, s, j) ==
  LET source == sources[s] IN
  IF source[j].kind \in ErrorKinds THEN <<ErrorRow(s, j)>>
  ELSE RecordRows(s, j, source[j], DecoderAt(source, j - 1))

\* Scan order: by source, by record within it, by entry within that.
Precedes(r1, r2) ==
  \/ r1.src < r2.src
  \/ r1.src = r2.src /\ r1.rec < r2.rec
  \/ r1.src = r2.src /\ r1.rec = r2.rec /\ r1.k < r2.k

Has(sources, kinds) ==
  \E s \in DOMAIN sources : \E j \in DOMAIN sources[s] : sources[s][j].kind \in kinds
=============================================================================
