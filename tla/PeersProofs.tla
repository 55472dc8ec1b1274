---------------------------- MODULE PeersProofs ----------------------------
(***************************************************************************)
(* What the peers table function returns, for every set of inputs: each    *)
(* peer a route or state-change row names, under a collector it was seen   *)
(* under: that of the place where it first comes up.                       *)
(***************************************************************************)
EXTENDS Peers, MrtStreamProofs

\* The place of a mention is before the record that is read next.
Read(m) == m[1] < idx \/ (m[1] = idx /\ m[2] < reader)

\* The collector of a peer is the view where it is mentioned first.
OfFirstMention(p) ==
  \E m \in Mentions(p) :
    /\ \A o \in Mentions(p) : m[1] < o[1] \/ (m[1] = o[1] /\ m[2] <= o[2])
    /\ found[p] = DecoderAt(sources[m[1]], m[2]).view

\* Everything mentioned so far is found; nothing else is; and the decoder of
\* the source being read is in step with it.
PeersInv ==
  /\ sources \in Inputs
  /\ TypeOK
  /\ reader # 0 =>
       /\ view = DecoderAt(sources[idx], reader - 1).view
       /\ \A i \in 1 .. reader - 1 : sources[idx][i].kind # "bad"
  /\ \A p \in DOMAIN found : OfFirstMention(p)
  /\ \A p : \A m \in Mentions(p) : Read(m) => p \in DOMAIN found
  /\ Done => idx > Len(sources)

\* The sources and the outcome at hand.
LEMMA SourceFacts ==
  ASSUME sources \in Inputs, NEW s \in DOMAIN sources
  PROVE  /\ DOMAIN sources = 1 .. Len(sources) /\ Len(sources) \in Nat
         /\ sources[s] \in Seq(Record) /\ Len(sources[s]) \in Nat \ {0}
         /\ DOMAIN sources[s] = 1 .. Len(sources[s])
         /\ \A j \in DOMAIN sources[s] :
              /\ sources[s][j] \in Record
              /\ sources[s][j].kind \in EndKinds <=> j = Len(sources[s])
<1>1. sources \in Seq(Seq(Record)) /\ IsSource(sources[s])
  BY InputsAssumption
<1>2. sources[s] \in Seq(Record) /\ Len(sources[s]) \in Nat \ {0}
  BY <1>1 DEF IsSource
<1>3. \A j \in 1 .. Len(sources[s]) : sources[s][j].kind \in EndKinds <=> j = Len(sources[s])
  BY <1>1 DEF IsSource
<1> QED  BY <1>1, <1>2, <1>3

\* A mention is a place in the sources, with a record that names the peer.
LEMMA MentionFacts ==
  ASSUME sources \in Inputs, NEW p, NEW m \in Mentions(p)
  PROVE  /\ m[1] \in DOMAIN sources /\ m[2] \in DOMAIN sources[m[1]]
         /\ m[1] \in Nat \ {0} /\ m[2] \in Nat \ {0}
         /\ p \in PeersOf(sources[m[1]][m[2]])
         /\ \A i \in 1 .. m[2] : sources[m[1]][i].kind # "bad"
<1>1. PICK s \in DOMAIN sources : m \in {s} \X DOMAIN sources[s]
  BY DEF Mentions
<1>2. m[1] = s /\ m[2] \in DOMAIN sources[s]
  BY <1>1
<1>3. p \in PeersOf(sources[m[1]][m[2]]) /\ \A i \in 1 .. m[2] : sources[m[1]][i].kind # "bad"
  BY DEF Mentions
<1> QED  BY <1>2, <1>3, SourceFacts

\* The type of what a record tells: peers and a view that exist.
LEMMA PeersOfType ==
  ASSUME NEW record \in Record, NEW name \in Views \cup {NoView}
  PROVE  /\ PeersOf(record) \subseteq Peers
         /\ Primed([view |-> name, table |-> <<>>], record).view \in Views \cup {NoView}
<1>1. [view |-> name, table |-> <<>>] \in Decoder
  BY DEF Decoder
<1>2. Primed([view |-> name, table |-> <<>>], record) \in Decoder
  BY <1>1, PrimedType
<1>3. PeersOf(record) \subseteq Peers
  <2>1. CASE record.kind = "pit"
    <3>1. record.peers \in Seq(Peers)
      BY <2>1 DEF Record, Parsed, PeerIndexTable, RibEntries, Message, TableDump, StateChange,
                  Recoverable, CleanEnd, Torn
    <3> QED  BY <2>1, <3>1 DEF PeersOf
  <2>2. CASE record.kind \in {"msg", "state"}
    BY <2>2 DEF PeersOf, Record, Parsed, PeerIndexTable, RibEntries, Message, TableDump,
                StateChange, Recoverable, CleanEnd, Torn
  <2> QED  BY <2>1, <2>2 DEF PeersOf
<1> QED  BY <1>2, <1>3 DEF Decoder

\* The view of a decoder depends on the view before and the record alone.
LEMMA ViewStep ==
  ASSUME NEW source, NEW j \in Nat, NEW name, name = DecoderAt(source, j).view
  PROVE  Primed([view |-> name, table |-> <<>>], source[j + 1]).view = DecoderAt(source, j + 1).view
BY DecoderAtStep DEF Primed

\* Before the first source nothing is found, and nothing has been read.
LEMMA InitPeers == Init => PeersInv
<1> SUFFICES ASSUME Init PROVE PeersInv
  OBVIOUS
<1>1. /\ sources \in Inputs /\ idx = 1 /\ reader = 0 /\ view = NoView /\ DOMAIN found = {}
      /\ pc = "collecting"
  BY DEF Init
<1>2. Len(sources) \in Nat
  BY <1>1, InputsAssumption
<1>3. \A p : \A m \in Mentions(p) : ~ Read(m)
  BY <1>1, MentionFacts DEF Read
<1> QED  BY <1>1, <1>2, <1>3 DEF PeersInv, TypeOK, Done

\* One step of the collection, action by action.
LEMMA StepPeers == PeersInv /\ [Next]_vars => PeersInv'
<1> SUFFICES ASSUME PeersInv, [Next]_vars PROVE PeersInv'
  OBVIOUS
<1>1. sources \in Inputs /\ Len(sources) \in Nat /\ TypeOK /\ idx \in Nat /\ reader \in Nat
  BY InputsAssumption DEF PeersInv, TypeOK
<1>2. sources' = sources
  BY DEF Next, Work, Open, OpenFails, Collect, SourceEnds, Batch, NoMore, Ended, vars
<1>3. /\ \A p : Mentions(p)' = Mentions(p)
      /\ UNCHANGED found => \A p : OfFirstMention(p)' <=> OfFirstMention(p)
  BY <1>2 DEF Mentions, OfFirstMention
<1>4. ASSUME reader # 0
      PROVE  /\ idx \in DOMAIN sources /\ reader \in DOMAIN sources[idx]
             /\ DOMAIN sources[idx] = 1 .. Len(sources[idx]) /\ Len(sources[idx]) \in Nat
             /\ DOMAIN sources = 1 .. Len(sources)
             /\ Outcome \in Record
             /\ Outcome.kind \in EndKinds <=> reader = Len(sources[idx])
  <2>1. idx \in 1 .. Len(sources) /\ reader \in 1 .. Len(sources[idx])
    BY <1>1, <1>4 DEF TypeOK
  <2>2. idx \in DOMAIN sources
    BY <1>1, <2>1, InputsAssumption
  <2> QED  BY <1>1, <2>1, <2>2, SourceFacts DEF Outcome
<1>5. CASE Open
  <2>1. idx \in DOMAIN sources
    BY <1>1, <1>5, InputsAssumption DEF Open, TypeOK
  <2>2. 1 \in 1 .. Len(sources[idx])
    BY <1>1, <2>1, SourceFacts
  <2>3. TypeOK'
    BY <1>1, <1>2, <1>5, <2>2 DEF Open, TypeOK
  <2>4. view' = DecoderAt(sources[idx], 0).view
    BY <1>5, DecoderAtStart DEF Open, FreshDecoder
  <2>5. \A p : \A m \in Mentions(p) : Read(m)' => Read(m)
    BY <1>1, <1>5, MentionFacts DEF Open, Read
  <2> QED  BY <1>1, <1>2, <1>3, <1>5, <2>3, <2>4, <2>5 DEF Open, PeersInv, Done
<1>6. CASE OpenFails \/ Batch \/ NoMore
  <2>1. UNCHANGED <<sources, idx, reader, view, found>>
    BY <1>6 DEF OpenFails, Batch, NoMore
  <2>2. \A m : Read(m)' <=> Read(m)
    BY <2>1 DEF Read
  <2>3. TypeOK' /\ (Done' => idx' > Len(sources'))
    BY <1>6, <2>1 DEF PeersInv, TypeOK, Done, OpenFails, Batch, NoMore
  <2> QED  BY <1>1, <1>2, <1>3, <2>1, <2>2, <2>3 DEF PeersInv
<1>7. CASE Collect
  <2>1. /\ reader # 0 /\ Outcome.kind \in DataKinds /\ reader' = reader + 1
        /\ view' = Primed([view |-> view, table |-> <<>>], Outcome).view
        /\ found' = [p \in DOMAIN found \cup PeersOf(Outcome) |->
                       IF p \in DOMAIN found THEN found[p] ELSE view']
        /\ UNCHANGED <<idx, pc>> /\ pc = "collecting"
    BY <1>7 DEF Collect
  <2>2. view' = DecoderAt(sources[idx], reader).view
    <3>1. view = DecoderAt(sources[idx], reader - 1).view
      BY <2>1 DEF PeersInv
    <3>2. reader - 1 \in Nat /\ (reader - 1) + 1 = reader
      BY <1>1, <2>1
    <3> QED  BY <2>1, <3>1, <3>2, ViewStep DEF Outcome
  <2>3. Outcome.kind # "bad" /\ reader # Len(sources[idx])
    BY <1>4, <2>1 DEF DataKinds, EndKinds
  <2>4. TypeOK'
    <3>1. reader + 1 \in 1 .. Len(sources[idx])
      <4>1. reader \in 1 .. Len(sources[idx]) /\ Len(sources[idx]) \in Nat
        BY <1>4, <2>1
      <4> QED  BY <2>3, <4>1
    <3>2. view' \in Views \cup {NoView} /\ PeersOf(Outcome) \subseteq Peers
      BY <1>1, <1>4, <2>1, PeersOfType DEF TypeOK
    <3>3. /\ DOMAIN found' \subseteq Peers
          /\ \A p \in DOMAIN found' : found'[p] \in Views \cup {NoView}
      BY <1>1, <2>1, <3>2 DEF TypeOK
    <3>4. /\ idx' \in 1 .. Len(sources') + 1 /\ idx' <= Len(sources')
          /\ reader' \in Nat /\ reader' \in 1 .. Len(sources'[idx'])
          /\ pc' \in {"collecting", "batch", "ended", "failed"}
      <4>1. idx \in 1 .. Len(sources)
        BY <1>4, <2>1
      <4> QED  BY <1>1, <1>2, <2>1, <3>1, <4>1
    <3> QED  BY <3>2, <3>3, <3>4 DEF TypeOK
  <2>5. \A i \in 1 .. reader : sources[idx][i].kind # "bad"
    BY <1>1, <2>1, <2>3 DEF PeersInv, Outcome
  <2>6. ASSUME NEW p \in DOMAIN found' PROVE OfFirstMention(p)'
    <3>1. CASE p \in DOMAIN found
      <4>1. OfFirstMention(p) /\ found'[p] = found[p]
        BY <2>1, <3>1 DEF PeersInv
      <4> QED  BY <1>2, <1>3, <4>1 DEF OfFirstMention
    <3>2. CASE p \notin DOMAIN found
      <4> DEFINE here == <<idx, reader>>
      <4>1. p \in PeersOf(Outcome) /\ found'[p] = DecoderAt(sources[idx], reader).view
        BY <2>1, <2>2, <3>2
      <4>2. here \in Mentions(p)
        <5>1. here \in UNION {{s} \X DOMAIN sources[s] : s \in DOMAIN sources}
          BY <1>4, <2>1
        <5> QED  BY <2>5, <4>1, <5>1 DEF Mentions, Outcome
      <4>3. ASSUME NEW o \in Mentions(p)
            PROVE  idx < o[1] \/ (idx = o[1] /\ reader <= o[2])
        <5>1. ~ Read(o)
          BY <3>2, <4>3 DEF PeersInv
        <5> QED  BY <1>1, <4>3, <5>1, MentionFacts DEF Read
      <4>4. here[1] = idx /\ here[2] = reader
        OBVIOUS
      <4> QED  BY <1>2, <1>3, <4>1, <4>2, <4>3, <4>4 DEF OfFirstMention
    <3> QED  BY <3>1, <3>2
  <2>7. ASSUME NEW p, NEW m \in Mentions(p), Read(m)' PROVE p \in DOMAIN found'
    <3>1. Read(m) \/ (m[1] = idx /\ m[2] = reader)
      BY <1>1, <2>1, <2>7, MentionFacts DEF Read
    <3>2. CASE Read(m)
      BY <2>1, <3>2 DEF PeersInv
    <3>3. CASE m[1] = idx /\ m[2] = reader
      BY <1>1, <2>1, <3>3, MentionFacts DEF Outcome
    <3> QED  BY <3>1, <3>2, <3>3
  <2>8. (reader' - 1 = reader) /\ ~ Done'
    BY <1>1, <2>1 DEF Done
  <2> QED  BY <1>1, <1>2, <1>3, <2>1, <2>2, <2>4, <2>5, <2>6, <2>7, <2>8 DEF PeersInv
<1>8. CASE SourceEnds
  <2>1. /\ reader # 0 /\ Outcome.kind \notin DataKinds /\ reader' = 0 /\ idx' = idx + 1
        /\ UNCHANGED <<view, found, pc>> /\ pc = "collecting"
    BY <1>8 DEF SourceEnds
  <2>2. TypeOK'
    <3>1. idx + 1 \in 1 .. Len(sources) + 1
      <4>1. idx \in 1 .. Len(sources)
        BY <1>4, <2>1
      <4> QED  BY <1>1, <4>1
    <3> QED  BY <1>1, <1>2, <2>1, <3>1 DEF TypeOK
  <2>3. Outcome.kind \in {"bad", "eof", "torn"}
    BY <1>4, <2>1 DEF Record, Parsed, PeerIndexTable, RibEntries, Message, TableDump,
                      StateChange, Recoverable, CleanEnd, Torn, DataKinds
  <2>4. ASSUME NEW p, NEW m \in Mentions(p), Read(m)' PROVE Read(m)
    <3>1. /\ m[1] \in Nat /\ m[2] \in Nat \ {0} /\ m[2] \in DOMAIN sources[m[1]]
          /\ p \in PeersOf(sources[m[1]][m[2]])
          /\ \A i \in 1 .. m[2] : sources[m[1]][i].kind # "bad"
      BY <1>1, MentionFacts
    <3>2. m[1] < idx \/ m[1] = idx
      BY <1>1, <2>1, <2>4, <3>1 DEF Read
    <3>3. CASE m[1] = idx
      <4>1. SUFFICES ASSUME ~ (m[2] < reader) PROVE FALSE
        BY <3>3 DEF Read
      <4>2. reader \in 1 .. m[2]
        BY <1>1, <2>1, <3>1, <4>1
      <4>3. Outcome.kind \in EndKinds
        BY <2>3, <3>1, <3>3, <4>2 DEF Outcome, EndKinds
      <4>4. m[2] = reader
        <5>1. m[2] \in 1 .. Len(sources[idx])
          BY <1>4, <2>1, <3>1, <3>3
        <5>2. reader = Len(sources[idx])
          BY <1>4, <2>1, <4>3
        <5> QED  BY <1>4, <2>1, <4>2, <5>1, <5>2
      <4>5. PeersOf(Outcome) = {}
        BY <4>3 DEF PeersOf, EndKinds
      <4> QED  BY <3>1, <3>3, <4>4, <4>5 DEF Outcome
    <3> QED  BY <3>2, <3>3 DEF Read
  <2> QED  BY <1>1, <1>2, <1>3, <2>1, <2>2, <2>4 DEF PeersInv, Done
<1>9. CASE Ended \/ UNCHANGED vars
  <2>1. UNCHANGED vars
    BY <1>9 DEF Ended
  <2>2. \A m : Read(m)' <=> Read(m)
    BY <2>1 DEF Read, vars
  <2>3. TypeOK' /\ (Done' => idx' > Len(sources'))
    BY <2>1 DEF PeersInv, TypeOK, Done, vars
  <2> QED  BY <1>1, <1>2, <1>3, <2>1, <2>2, <2>3 DEF PeersInv, vars
<1> QED  BY <1>5, <1>6, <1>7, <1>8, <1>9 DEF Next, Work

\* The fields keep their types; the reader never runs past its source.
THEOREM PeersTypeCorrect == Spec => []TypeOK
<1>1. PeersInv => TypeOK
  BY DEF PeersInv
<1> QED  BY <1>1, InitPeers, StepPeers, PTL DEF Spec

\* No row pairs a peer with a collector it was not seen under, and a peer that
\* was seen under one collector only is listed with it.
THEOREM TriplesListed == Spec => []RowsAreTriples
<1>1. PeersInv => RowsAreTriples
  <2> SUFFICES ASSUME PeersInv, Done PROVE
        /\ Rows \subseteq Triples
        /\ \A t \in Triples : (\A u \in Triples : u[1] = t[1] => u = t) => t \in Rows
    BY DEF RowsAreTriples
  <2>1. ASSUME NEW p \in DOMAIN found PROVE <<p, found[p]>> \in Triples
    <3>1. PICK m \in Mentions(p) : found[p] = DecoderAt(sources[m[1]], m[2]).view
      BY DEF PeersInv, OfFirstMention
    <3>2. p \in Peers
      BY DEF PeersInv, TypeOK
    <3> QED  BY <3>1, <3>2 DEF Triples
  <2>2. Rows \subseteq Triples
    BY <2>1 DEF Rows
  <2>3. ASSUME NEW t \in Triples, \A u \in Triples : u[1] = t[1] => u = t
        PROVE  t \in Rows
    <3>1. PICK p \in Peers : \E m \in Mentions(p) : t = <<p, DecoderAt(sources[m[1]], m[2]).view>>
      BY DEF Triples
    <3>2. PICK m \in Mentions(p) : t = <<p, DecoderAt(sources[m[1]], m[2]).view>>
      BY <3>1
    <3>3. Read(m)
      <4>1. m[1] \in 1 .. Len(sources) /\ Len(sources) \in Nat
        BY MentionFacts, InputsAssumption DEF PeersInv
      <4>2. idx > Len(sources) /\ idx \in Nat
        BY <4>1 DEF PeersInv, TypeOK
      <4> QED  BY <4>1, <4>2 DEF Read
    <3>4. p \in DOMAIN found
      BY <3>3 DEF PeersInv
    <3>5. <<p, found[p]>> = t
      <4>1. t[1] = p /\ <<p, found[p]>>[1] = p
        BY <3>2
      <4> QED  BY <2>1, <2>3, <3>4, <4>1
    <3> QED  BY <3>4, <3>5 DEF Rows
  <2> QED  BY <2>2, <2>3
<1> QED  BY <1>1, InitPeers, StepPeers, PTL DEF Spec
---------------------------------------------------------------------------
(* The agreement with the other two table functions *)

\* The peer of a RIB entry is one of the table the decoder holds.
LEMMA RibPeer ==
  ASSUME NEW s, NEW j, NEW record \in Record, record.kind = "rib", NEW state \in Decoder,
         NEW n \in DOMAIN RecordRows(s, j, record, state)
  PROVE  \E i \in DOMAIN state.table : RecordRows(s, j, record, state)[n].peer = state.table[i]
<1> DEFINE S == Resolved(record.refs, state.table)
           hits == Ascending(S)
<1>1. record.refs \in Seq(Nat)
  BY DEF Record, Parsed, PeerIndexTable, RibEntries, Message, TableDump, StateChange,
         Recoverable, CleanEnd, Torn
<1>2. hits \in [1 .. Cardinality(S) -> S]
  <2>1. S \in SUBSET (1 .. Len(record.refs)) /\ Len(record.refs) \in Nat
    BY <1>1 DEF Resolved
  <2> HIDE DEF S
  <2>2. S \subseteq Nat /\ IsFiniteSet(S)
    BY <2>1, IndexesFinite
  <2> QED  BY <2>2, AscendingIs DEF Lists
<1>3. RecordRows(s, j, record, state)
        = [k \in DOMAIN hits |->
             RowAt(s, j, hits[k], "announce", state.table[record.refs[hits[k]]], state.view)]
  BY DEF RecordRows
<1> HIDE DEF hits
<1>4. n \in DOMAIN hits /\ hits[n] \in S
  BY <1>2, <1>3
<1>5. record.refs[hits[n]] \in DOMAIN state.table
  BY <1>4 DEF Resolved
<1>6. RecordRows(s, j, record, state)[n].peer = state.table[record.refs[hits[n]]]
  BY <1>3, <1>4 DEF RowAt
<1> QED  BY <1>5, <1>6

\* Every row that is not an error row names a peer that is mentioned at its
\* record or, for a RIB entry, at the PEER_INDEX_TABLE before it.
LEMMA RowsMention ==
  ASSUME sources \in Inputs, ~Has(sources, {"bad", "dump"}),
         NEW s \in DOMAIN sources, NEW j \in DOMAIN sources[s],
         NEW n \in DOMAIN RowsAt(sources, s, j), RowsAt(sources, s, j)[n].type # "error"
  PROVE  \E m \in Mentions(RowsAt(sources, s, j)[n].peer) : m[1] = s
<1> DEFINE source == sources[s]
           record == source[j]
           state == DecoderAt(source, j - 1)
           peer == RowsAt(sources, s, j)[n].peer
<1>1. /\ source \in Seq(Record) /\ j \in 1 .. Len(source) /\ record \in Record
      /\ DOMAIN source = 1 .. Len(source) /\ Len(source) \in Nat
  BY SourceFacts
<1>2. \A i \in 1 .. Len(source) : source[i].kind \notin {"bad", "dump"}
  BY <1>1 DEF Has
<1>3. ASSUME NEW k \in 1 .. Len(source), peer \in PeersOf(source[k])
      PROVE  \E m \in Mentions(peer) : m[1] = s
  <2> DEFINE m == <<s, k>>
  <2>1. m \in UNION {{t} \X DOMAIN sources[t] : t \in DOMAIN sources}
    BY <1>1, <1>3
  <2>2. \A i \in 1 .. k : source[i].kind # "bad"
    BY <1>1, <1>2
  <2>3. m[1] = s /\ m[2] = k
    OBVIOUS
  <2> HIDE DEF m, peer
  <2>4. m \in Mentions(peer)
    BY <1>3, <2>1, <2>2, <2>3 DEF Mentions
  <2> QED  BY <2>3, <2>4
<1>4. record.kind \notin ErrorKinds
  <2> SUFFICES ASSUME record.kind \in ErrorKinds PROVE FALSE
    OBVIOUS
  <2>1. RowsAt(sources, s, j) = <<ErrorRow(s, j)>>
    BY DEF RowsAt
  <2> QED  BY <2>1 DEF ErrorRow, RowAt
<1>5. RowsAt(sources, s, j) = RecordRows(s, j, record, state)
  BY <1>4 DEF RowsAt
<1>6. state \in Decoder
  <2>1. j - 1 \in 0 .. Len(source)
    BY <1>1
  <2> QED  BY <1>1, <2>1, DecoderAtType
<1>7. CASE record.kind = "rib"
  <2>1. PICK i \in DOMAIN state.table : peer = state.table[i]
    BY <1>1, <1>5, <1>6, <1>7, RibPeer
  <2> DEFINE k == LastPit(source, j - 1)
  <2>2. k \in 0 .. j - 1 /\ IsLastPit(k, source, j - 1)
    <3>1. j - 1 \in Nat
      BY <1>1
    <3> QED  BY <3>1, LastPitIs
  <2>3. k # 0
    BY <2>1 DEF DecoderAt, FreshDecoder
  <2>4. k \in 1 .. Len(source) /\ source[k].kind = "pit"
    BY <1>1, <2>2, <2>3 DEF IsLastPit
  <2>5. state.table = source[k].peers
    BY <2>3, <2>4 DEF DecoderAt, Primed
  <2>6. peer \in PeersOf(source[k])
    BY <2>1, <2>4, <2>5 DEF PeersOf
  <2> QED  BY <1>3, <2>4, <2>6
<1>8. CASE record.kind = "msg"
  <2>1. peer = record.peer
    BY <1>5, <1>8 DEF RecordRows, RowAt
  <2> QED  BY <1>1, <1>3, <1>8, <2>1 DEF PeersOf
<1>9. CASE record.kind = "state"
  <2>1. RowsAt(sources, s, j) = <<RowAt(s, j, 1, "state_change", record.peer, state.view)>>
    BY <1>5, <1>9 DEF RecordRows
  <2>2. peer = record.peer
    BY <2>1 DEF RowAt
  <2> QED  BY <1>1, <1>3, <1>9, <2>2 DEF PeersOf
<1>10. CASE record.kind \notin {"rib", "msg", "dump", "state"}
  <2>1. RecordRows(s, j, record, state) = <<>>
    BY <1>10 DEF RecordRows
  <2> QED  BY <1>5, <2>1
<1> QED  BY <1>1, <1>2, <1>7, <1>8, <1>9, <1>10

\* Without bad records, every peer of a row the other two table functions have
\* is listed, through any number of sources and tables.
THEOREM AllPeersListed == Spec => []EveryPeerListed
<1>1. PeersInv => EveryPeerListed
  <2> SUFFICES ASSUME PeersInv, Done, ~Has(sources, {"bad", "dump"}), NEW p \in ScanPeers
               PROVE  p \in DOMAIN found
    BY DEF EveryPeerListed
  <2>1. PICK row \in ScanRows : row.type # "error" /\ p = row.peer
    BY DEF ScanPeers
  <2>2. PICK s \in DOMAIN sources : \E j \in DOMAIN sources[s] :
          row \in {RowsAt(sources, s, j)[n] : n \in DOMAIN RowsAt(sources, s, j)}
    BY DEF ScanRows
  <2>3. PICK j \in DOMAIN sources[s] : \E n \in DOMAIN RowsAt(sources, s, j) :
          row = RowsAt(sources, s, j)[n]
    BY <2>2
  <2>4. PICK m \in Mentions(p) : m[1] = s
    BY <2>1, <2>3, RowsMention DEF PeersInv
  <2>5. m[1] < idx
    <3>1. s \in 1 .. Len(sources) /\ Len(sources) \in Nat /\ idx \in Nat /\ idx > Len(sources)
      BY InputsAssumption DEF PeersInv, TypeOK
    <3> QED  BY <2>4, <3>1
  <2> QED  BY <2>5 DEF PeersInv, Read
<1> QED  BY <1>1, InitPeers, StepPeers, PTL DEF Spec
=============================================================================
