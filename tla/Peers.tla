------------------------------- MODULE Peers -------------------------------
(***************************************************************************)
(* PeersProducer of peers.rs: the one batch of the peers table function,   *)
(* collected eagerly from every source by its first next_batch call.       *)
(*                                                                         *)
(* Each action is one turn of the two nested loops.  `seen` and `rows` of  *)
(* the code are one variable: `found` gives each peer seen the collector   *)
(* its row carries.  The order of the rows is left out, because the peers  *)
(* of one PEER_INDEX_TABLE come out of a hash map in any order.            *)
(***************************************************************************)
EXTENDS MrtStream

CONSTANT Inputs  \* the sequences of sources the function may be bound to

ASSUME InputsAssumption ==
  \A input \in Inputs :
    /\ input \in Seq(Seq(Record))
    /\ \A s \in DOMAIN input : IsSource(input[s])

VARIABLES
  sources,  \* the bound sources
  idx,      \* the source being read, counted from 1
  reader,   \* 0: no open reader; else the outcome next_record returns next
  view,     \* the view name of this source's decoder
  found,    \* the collector of every peer seen so far
  pc        \* "collecting", "batch" (the one batch is out), "ended" or "failed"

vars == <<sources, idx, reader, view, found, pc>>

\* The fields keep their types: the index never points past the sources, and
\* every row names a peer and a view that exist.
TypeOK ==
  /\ idx \in 1 .. Len(sources) + 1
  /\ reader \in Nat
  /\ reader # 0 => idx <= Len(sources) /\ reader \in 1 .. Len(sources[idx])
  /\ view \in Views \cup {NoView}
  /\ DOMAIN found \subseteq Peers
  /\ \A p \in DOMAIN found : found[p] \in Views \cup {NoView}
  /\ pc \in {"collecting", "batch", "ended", "failed"}

Init ==
  /\ sources \in Inputs
  /\ idx = 1
  /\ reader = 0
  /\ view = NoView
  /\ found = <<>>
  /\ pc = "collecting"

Outcome == sources[idx][reader]

\* Mutant of PeersOf: state changes name no peer.
PeersOfRoutes(record) ==
  CASE record.kind = "pit" -> {record.peers[i] : i \in DOMAIN record.peers}
    [] record.kind = "msg" -> {record.peer}
    [] OTHER -> {}

\* The peers peer_rows finds in a record.
PeersOf(record) ==
  CASE record.kind = "pit" -> {record.peers[i] : i \in DOMAIN record.peers}
    [] record.kind \in {"msg", "state"} -> {record.peer}
    [] OTHER -> {}

\* Mutant of Open: no test for the end of the sources.
OpenPastEnd ==
  /\ pc = "collecting" /\ reader = 0
  /\ reader' = 1
  /\ view' = NoView
  /\ UNCHANGED <<sources, idx, found, pc>>

Open ==
  /\ pc = "collecting" /\ reader = 0 /\ idx <= Len(sources)
  /\ reader' = 1
  /\ view' = NoView
  /\ UNCHANGED <<sources, idx, found, pc>>

OpenFails ==
  /\ pc = "collecting" /\ reader = 0 /\ idx <= Len(sources)
  /\ pc' = "failed"
  /\ UNCHANGED <<sources, idx, reader, view, found>>

\* Mutant of Collect: a record's own peers get the view of the table before it.
CollectUnnamed ==
  /\ pc = "collecting" /\ reader # 0
  /\ Outcome.kind \in DataKinds
  /\ view' = Primed([view |-> view, table |-> <<>>], Outcome).view
  /\ found' = [p \in DOMAIN found \cup PeersOf(Outcome) |->
                 IF p \in DOMAIN found THEN found[p] ELSE view]
  /\ reader' = reader + 1
  /\ UNCHANGED <<sources, idx, pc>>

\* The rows of a record carry the view name in force once it is decoded; a peer
\* seen before keeps the row it has.
Collect ==
  /\ pc = "collecting" /\ reader # 0
  /\ Outcome.kind \in DataKinds
  /\ view' = Primed([view |-> view, table |-> <<>>], Outcome).view
  /\ found' = [p \in DOMAIN found \cup PeersOf(Outcome) |->
                 IF p \in DOMAIN found THEN found[p] ELSE view']
  /\ reader' = reader + 1
  /\ UNCHANGED <<sources, idx, pc>>

\* Mutant of SourceEnds: a source with an unread tail is tried again.
SourceRetried ==
  /\ pc = "collecting" /\ reader # 0
  /\ Outcome.kind \notin DataKinds
  /\ reader' = 0
  /\ idx' = IF Outcome.kind = "torn" THEN idx ELSE idx + 1
  /\ UNCHANGED <<sources, view, found, pc>>

\* Whatever is not a record ends the loop over this source.
SourceEnds ==
  /\ pc = "collecting" /\ reader # 0
  /\ Outcome.kind \notin DataKinds
  /\ reader' = 0
  /\ idx' = idx + 1
  /\ UNCHANGED <<sources, view, found, pc>>

\* The rows become one batch, an empty one included.
Batch ==
  /\ pc = "collecting" /\ reader = 0 /\ idx > Len(sources)
  /\ pc' = "batch"
  /\ UNCHANGED <<sources, idx, reader, view, found>>

\* The next call finds the sources taken.
NoMore ==
  /\ pc = "batch"
  /\ pc' = "ended"
  /\ UNCHANGED <<sources, idx, reader, view, found>>

Work == Open \/ OpenFails \/ Collect \/ SourceEnds \/ Batch \/ NoMore

Ended == pc \in {"ended", "failed"} /\ UNCHANGED vars

Next == Work \/ Ended

Spec == Init /\ [][Next]_vars

FairSpec == Spec /\ WF_vars(Work)

---------------------------------------------------------------------------
(* Properties *)

\* The rows of one pass of read_rib or read_updates over the sources.
ScanRows ==
  UNION {UNION {{RowsAt(sources, s, j)[n] : n \in DOMAIN RowsAt(sources, s, j)}
                : j \in DOMAIN sources[s]} : s \in DOMAIN sources}

ScanPeers == {row.peer : row \in {r \in ScanRows : r.type # "error"}}

\* The places a peer is named at, before the first bad record of a source.
Mentions(p) ==
  {m \in UNION {{s} \X DOMAIN sources[s] : s \in DOMAIN sources} :
     /\ p \in PeersOf(sources[m[1]][m[2]])
     /\ \A i \in 1 .. m[2] : sources[m[1]][i].kind # "bad"}

Done == pc \in {"batch", "ended"}

\* The two table functions agree: every peer a route or state-change row of the
\* same sources is attributed to is listed, unless a bad record hides it (or the
\* rows are those of TABLE_DUMP records, which peer_rows does not look at).
EveryPeerListed ==
  Done /\ ~Has(sources, {"bad", "dump"}) => ScanPeers \subseteq DOMAIN found

\* The (peer, collector) pairs a reading of the sources meets: every mention of
\* a peer, with the view in force where it is made.
Triples ==
  UNION {{<<p, DecoderAt(sources[m[1]], m[2]).view>> : m \in Mentions(p)} : p \in Peers}

Rows == {<<p, found[p]>> : p \in DOMAIN found}

\* peers.rs:1, "the distinct (peer_ip, peer_asn, collector) triples seen", as far
\* as the code keeps it: no row pairs a peer with a collector it was not seen
\* under, through any number of sources and tables, and a peer seen under one
\* collector only is listed with it.  (EveryTripleListed is the rest of it.)
RowsAreTriples ==
  Done =>
    /\ Rows \subseteq Triples
    /\ \A t \in Triples : (\A u \in Triples : u[1] = t[1] => u = t) => t \in Rows

\* The collection ends, whatever the sources hold (peers.rs:154-161).
CollectionEnds == <>(pc \in {"ended", "failed"})

---------------------------------------------------------------------------
(* What the documentation says, and the code does not keep *)

\* The function lists every distinct (peer_ip, peer_asn, collector) triple seen
\* (peers.rs:1, 33-34): a peer once for each of its collectors, and those behind
\* a bad record too, for only a clean end or a torn tail ends a source
\* (peers.rs:155).
EveryTripleListed ==
  Done => \A s \in DOMAIN sources : \A j \in DOMAIN sources[s] :
            PeersOf(sources[s][j]) \X {DecoderAt(sources[s], j).view} \subseteq Rows
=============================================================================
