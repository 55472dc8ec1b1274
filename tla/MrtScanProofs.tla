--------------------------- MODULE MrtScanProofs ---------------------------
(***************************************************************************)
(* The producer and what a client receives from it, for every set of       *)
(* inputs, every batch size and any number of responses.                   *)
(*                                                                         *)
(* First the producer alone: its types, its decoder in step with the       *)
(* stream, its checkpoints on boundaries and moving on.  Then the scan:    *)
(* only genuine rows; each at most once and in scan order, unless a bad    *)
(* record can be read again after a resume; all of them, unless a resume   *)
(* can go past a torn source.  A safe scan is an implementation of         *)
(* RowStream.                                                              *)
(***************************************************************************)
EXTENDS MrtScan, MrtStreamProofs

---------------------------------------------------------------------------
(* The producer *)

\* Every parsed or failed outcome carries the offset behind it; only the last
\* outcome ends the source.
LEMMA OutcomeFacts ==
  ASSUME NEW input \in Inputs, NEW s \in 1 .. Len(input), NEW j \in 1 .. Len(input[s])
  PROVE  /\ IsSource(input[s])
         /\ Len(input[s]) \in Nat \ {0}
         /\ input[s][j] \in Record
         /\ input[s][j].kind \in EndKinds <=> j = Len(input[s])
         /\ input[s][j].kind # "eof" => input[s][j].end \in Nat
         /\ input[s][j].kind \notin EndKinds => input[s][j].end \in Nat \ {0}
<1>1. input \in Seq(Seq(Record)) /\ IsSource(input[s])
  BY InputsAssumption
<1>2. input[s] \in Seq(Record) /\ input[s][j] \in Record
  BY <1>1
<1>3. Len(input[s]) \in Nat \ {0}
  BY <1>2
<1>4. input[s][j].kind \in EndKinds <=> j = Len(input[s])
  BY <1>1 DEF IsSource
<1>5. /\ input[s][j].kind # "eof" => input[s][j].end \in Nat
      /\ input[s][j].kind \notin EndKinds => input[s][j].end \in Nat \ {0}
  BY <1>2 DEF Record, Parsed, PeerIndexTable, RibEntries, Message, TableDump, StateChange,
              Recoverable, CleanEnd, Torn, EndKinds
<1> QED  BY <1>1, <1>2, <1>3, <1>4, <1>5

\* The types of the fields; the token may point past the sources, as it does
\* when a later listing is shorter.
FieldsOK ==
  /\ strict \in BOOLEAN
  /\ transport \in {"stdio", "http"}
  /\ idx \in 1 .. Len(sources) + 1
  /\ reader \in Nat
  /\ reader # 0 => idx <= Len(sources) /\ reader \in 1 .. Len(sources[idx])
  /\ decoder \in Decoder
  /\ offset \in Nat
  /\ skipTo \in Nat
  /\ done \in BOOLEAN
  /\ pending \in Seq(Row)
  /\ token \in [idx : Nat, offset : Nat]
  /\ token = NoToken \/ token.idx >= 1
  /\ pc \in {"idle", "pulling", "batch", "finished", "failed"}

\* What every step relies on: the types, and the decoder that belongs to the
\* position (it decides what rows a record has, hence what is pending).
CoreInv == sources \in Inputs /\ FieldsOK /\ DecoderInSync

IInv == sources \in Inputs /\ TypeOK /\ DecoderInSync

\* The two differ in the bound on the token alone.
LEMMA CoreOfIInv ==
  IInv <=> CoreInv /\ (token = NoToken \/ token.idx \in 1 .. Len(sources) + 1)
<1>1. TypeOK <=> FieldsOK /\ (token = NoToken \/ token.idx \in 1 .. Len(sources) + 1)
  BY DEF TypeOK, FieldsOK
<1> QED  BY <1>1 DEF IInv, CoreInv

\* A producer that has read nothing is in step with every stream.
LEMMA InitIInv == Init => IInv
<1> SUFFICES ASSUME Init PROVE IInv
  OBVIOUS
<1>1. sources \in Inputs
  BY DEF Init
<1>2. Len(sources) \in Nat
  BY <1>1, InputsAssumption
<1>3. idx \in 1 .. Len(sources) + 1
  BY <1>2 DEF Init
<1>4. /\ reader = 0 /\ decoder \in Decoder /\ offset \in Nat /\ skipTo \in Nat
      /\ token \in [idx : Nat, offset : Nat] /\ token = NoToken
  BY FreshDecoderType DEF Init, NoToken, NoSkip
<1>5. strict \in BOOLEAN /\ done \in BOOLEAN
  BY DEF Init
<1>6. /\ transport \in {"stdio", "http"} /\ pending \in Seq(Row)
      /\ pc \in {"idle", "pulling", "batch", "finished", "failed"}
  BY DEF Init
<1> QED  BY <1>1, <1>3, <1>4, <1>5, <1>6 DEF IInv, TypeOK, DecoderInSync

\* Over unchanged sources the cut of the restored index has no effect.
LEMMA RebuildPosition ==
  ASSUME TypeOK, Len(sources) \in Nat, Rebuild(sources)
  PROVE  IF token = NoToken
         THEN Position(1, FALSE, NoSkip)
         ELSE Position(token.idx, token.idx > Len(sources), token.offset)
<1>1. CASE token = NoToken
  BY <1>1 DEF Rebuild
<1>2. CASE token # NoToken
  <2>1. RestoredIdx(sources) = token.idx
    BY <1>2 DEF TypeOK, RestoredIdx
  <2> QED  BY <1>2, <2>1 DEF Rebuild
<1> QED  BY <1>1, <1>2

\* One step of the producer, action by action.
LEMMA StepCore == CoreInv /\ [Next]_vars => CoreInv'
<1> SUFFICES ASSUME CoreInv, [Next]_vars PROVE CoreInv'
  OBVIOUS
<1> USE DEF CoreInv
<1>1. sources \in Inputs /\ Len(sources) \in Nat
  BY InputsAssumption
<1>2. ASSUME reader # 0
      PROVE  /\ idx \in 1 .. Len(sources) /\ reader \in 1 .. Len(sources[idx])
             /\ IsSource(sources[idx])
             /\ Outcome \in Record
             /\ Outcome.kind \in EndKinds <=> reader = Len(sources[idx])
             /\ Outcome.kind # "eof" => Outcome.end \in Nat
             /\ Len(sources[idx]) \in Nat
  <2>1. idx \in 1 .. Len(sources) /\ reader \in 1 .. Len(sources[idx])
    BY <1>1, <1>2 DEF FieldsOK
  <2> QED  BY <1>1, <2>1, OutcomeFacts DEF Outcome
<1>3. ASSUME reader # 0
      PROVE  /\ decoder = DecoderAt(sources[idx], reader - 1)
             /\ DecoderAt(sources[idx], reader) = Primed(decoder, Outcome)
  <2>1. reader - 1 \in Nat
    BY <1>2, <1>3
  <2>2. DecoderAt(sources[idx], (reader - 1) + 1)
          = Primed(DecoderAt(sources[idx], reader - 1), sources[idx][(reader - 1) + 1])
    BY <2>1, DecoderAtStep
  <2>3. (reader - 1) + 1 = reader
    BY <1>2, <1>3
  <2> QED  BY <1>3, <2>2, <2>3 DEF DecoderInSync, Outcome
<1>4. CASE Request
  <2>1. UNCHANGED <<bound, pending, token>> /\ pc' \in {"finished", "pulling"}
    BY <1>4 DEF Request
  <2>2. CASE transport = "http"
    <3>1. Rebuild(sources)
      BY <1>4, <2>2 DEF Request
    <3>2. /\ decoder' \in Decoder /\ offset' = 0 /\ reader' = 0
          /\ idx' \in 1 .. Len(sources) + 1 /\ skipTo' \in Nat /\ done' \in BOOLEAN
      <4>1. decoder' \in Decoder /\ offset' = 0
        BY <3>1, FreshDecoderType DEF Rebuild
      <4>2. CASE token = NoToken
        <5>1. Position(1, FALSE, NoSkip)
          BY <3>1, <4>2 DEF Rebuild
        <5>2. reader' = 0 /\ idx' \in 1 .. Len(sources) + 1 /\ skipTo' \in Nat
          BY <1>1, <5>1 DEF Position, NoSkip
        <5>3. done' \in BOOLEAN
          BY <5>1 DEF Position
        <5> QED  BY <4>1, <5>2, <5>3
      <4>3. CASE token # NoToken
        <5>1. Position(RestoredIdx(sources), RestoredIdx(sources) > Len(sources), token.offset)
          BY <3>1, <4>3 DEF Rebuild
        <5>2. RestoredIdx(sources) \in 1 .. Len(sources) + 1 /\ token.offset \in Nat
          BY <1>1, <4>3 DEF FieldsOK, RestoredIdx
        <5> QED  BY <1>1, <4>1, <5>1, <5>2 DEF Position
      <4> QED  BY <4>2, <4>3
    <3> QED  BY <2>1, <3>2 DEF FieldsOK, DecoderInSync, bound
  <2>3. CASE transport # "http"
    BY <1>4, <2>1, <2>3 DEF Request, FieldsOK, DecoderInSync, bound, fields
  <2> QED  BY <2>2, <2>3
<1>5. CASE OpenCurrent
  <2>1. idx \in 1 .. Len(sources)
    BY <1>1, <1>5 DEF OpenCurrent, FieldsOK
  <2>2. 1 \in 1 .. Len(sources[idx])
    <3>1. sources[idx] \in Seq(Record) /\ Len(sources[idx]) >= 1
      BY <1>1, <2>1, InputsAssumption DEF IsSource
    <3> QED  BY <3>1
  <2>3. FieldsOK'
    BY <1>5, <2>1, <2>2, FreshDecoderType DEF OpenCurrent, FieldsOK, bound
  <2>4. DecoderInSync'
    BY <1>5, DecoderAtStart DEF OpenCurrent, DecoderInSync, bound
  <2> QED  BY <1>5, <2>3, <2>4 DEF OpenCurrent, bound
<1>6. CASE OpenFails
  BY <1>6 DEF OpenFails, FieldsOK, DecoderInSync, bound, fields
<1>7. CASE Exhausted
  BY <1>7 DEF Exhausted, FieldsOK, DecoderInSync, bound
<1>8. CASE ReadRecord
  <2>1. reader # 0 /\ Outcome.kind \in DataKinds
    BY <1>8 DEF ReadRecord
  <2>2. reader + 1 \in 1 .. Len(sources[idx]) /\ Outcome.end \in Nat
    BY <1>2, <2>1 DEF DataKinds, EndKinds
  <2>3. decoder' \in Decoder
    BY <1>2, <1>8, <2>1, PrimedType DEF ReadRecord, FieldsOK
  <2>4. RecordRows(idx, reader, Outcome, decoder) \in Seq(Row)
    BY <1>2, <2>1, RecordRowsType DEF RowsOfRecord, FieldsOK
  <2>5. pending' \in Seq(Row) /\ skipTo' \in Nat /\ pc' \in {"pulling", "batch"}
    <3>1. CASE skipTo # NoSkip /\ offset' <= skipTo
      BY <1>8, <3>1 DEF ReadRecord, FieldsOK
    <3>2. CASE ~ (skipTo # NoSkip /\ offset' <= skipTo)
      <4>1. /\ skipTo' = 0 /\ pc' = AfterRows(pending')
            /\ pending' = pending \o RecordRows(idx, reader, Outcome, decoder)
        BY <1>8, <3>2 DEF ReadRecord, NoSkip
      <4>2. pending' \in Seq(Row)
        BY <2>4, <4>1, ConcatProperties DEF FieldsOK
      <4> QED  BY <4>1, <4>2 DEF AfterRows
    <3> QED  BY <3>1, <3>2
  <2>6. FieldsOK'
    BY <1>2, <1>8, <2>1, <2>2, <2>3, <2>5 DEF ReadRecord, FieldsOK, bound
  <2>7. DecoderInSync'
    BY <1>2, <1>3, <1>8, <2>1 DEF ReadRecord, DecoderInSync, bound
  <2> QED  BY <1>8, <2>6, <2>7 DEF ReadRecord, bound
<1>9. CASE CleanEndOfSource
  <2>1. idx + 1 \in 1 .. Len(sources) + 1
    BY <1>1, <1>2, <1>9 DEF CleanEndOfSource
  <2> QED  BY <1>9, <2>1 DEF CleanEndOfSource, Advance, FieldsOK, DecoderInSync, bound, NoSkip
<1>10. CASE StrictError
  BY <1>10 DEF StrictError, FieldsOK, DecoderInSync, bound, fields
<1>11. ASSUME CaptureError
       PROVE  /\ offset' \in Nat /\ pending' \in Seq(Row) /\ pc' \in {"pulling", "batch"}
              /\ reader # 0
              /\ UNCHANGED <<bound, decoder, done, token>>
  <2>1. reader # 0 /\ Outcome.kind # "eof"
    BY <1>11 DEF CaptureError, ErrorKinds
  <2>2. offset' \in Nat
    BY <1>2, <1>11, <2>1 DEF CaptureError
  <2>3. ErrorRow(idx, reader) \in Row
    <3>1. idx \in Nat /\ reader \in Nat
      BY <1>2, <2>1
    <3> QED  BY <3>1, ErrorRowType
  <2>4. pending' \in Seq(Row)
    BY <1>11, <2>3 DEF CaptureError, FieldsOK
  <2> QED  BY <1>11, <2>1, <2>2, <2>4 DEF CaptureError, AfterRows
<1>12. CASE RecoverableError
  <2>1. CaptureError /\ Outcome.kind = "bad"
    BY <1>12 DEF RecoverableError
  <2>2. reader + 1 \in 1 .. Len(sources[idx])
    BY <1>2, <1>11, <2>1 DEF EndKinds
  <2>3. FieldsOK'
    BY <1>2, <1>11, <1>12, <2>1, <2>2 DEF RecoverableError, FieldsOK, bound, NoSkip
  <2>4. DecoderInSync'
    BY <1>2, <1>3, <1>11, <1>12, <2>1 DEF RecoverableError, DecoderInSync, Primed, bound
  <2> QED  BY <1>11, <2>1, <2>3, <2>4 DEF bound
<1>13. CASE TornError
  <2>1. CaptureError
    BY <1>13 DEF TornError
  <2>2. idx + 1 \in 1 .. Len(sources) + 1
    BY <1>1, <1>2, <1>11, <2>1
  <2> QED  BY <1>11, <1>13, <2>1, <2>2 DEF TornError, Advance, FieldsOK, DecoderInSync, bound, NoSkip
<1>14. CASE Emit
  <2>1. token' \in [idx : Nat, offset : Nat] /\ (token' = NoToken \/ token'.idx >= 1)
    BY <1>14 DEF Emit, FieldsOK
  <2> QED  BY <1>14, <2>1 DEF Emit, FieldsOK, DecoderInSync, bound, fields
<1>15. CASE UNCHANGED vars
  BY <1>15 DEF vars, FieldsOK, DecoderInSync, Outcome
<1> QED
  BY <1>4, <1>5, <1>6, <1>7, <1>8, <1>9, <1>10, <1>12, <1>13, <1>14, <1>15
     DEF Next, Pull, Ended

\* Over unchanged sources the token stays within them.
LEMMA StepIInv == IInv /\ [Next]_vars => IInv'
<1> SUFFICES ASSUME IInv, [Next]_vars PROVE IInv'
  OBVIOUS
<1>1. CoreInv'
  BY CoreOfIInv, StepCore
<1>2. sources' = sources
  BY DEF Next, vars, Request, Pull, Emit, Ended, OpenCurrent, OpenFails, Exhausted,
     ReadRecord, CleanEndOfSource, StrictError, RecoverableError, TornError, CaptureError, bound
<1>3. token' = token \/ token'.idx = idx
  BY DEF Next, vars, Request, Pull, Emit, Ended, OpenCurrent, OpenFails, Exhausted,
     ReadRecord, CleanEndOfSource, StrictError, RecoverableError, TornError, CaptureError
<1>4. token' = NoToken \/ token'.idx \in 1 .. Len(sources') + 1
  BY <1>2, <1>3 DEF IInv, TypeOK
<1> QED  BY <1>1, <1>4 DEF IInv, CoreInv, TypeOK, FieldsOK

\* Every field keeps its type: the reader never runs past the outcome that
\* ends a source, and a restored index never past the sources.
THEOREM TypeCorrect == Spec => []TypeOK
<1>1. IInv => TypeOK
  BY DEF IInv
<1> QED  BY <1>1, InitIInv, StepIInv, PTL DEF Spec

\* At every record, after any number of resumes and in every source, the
\* decoder is the one a single pass would have there.
THEOREM DecoderSynchronised == Spec => []DecoderInSync
<1>1. IInv => DecoderInSync
  BY DEF IInv
<1> QED  BY <1>1, InitIInv, StepIInv, PTL DEF Spec
---------------------------------------------------------------------------
(* Genuine rows *)

\* A row that one pass over the input has at the place it names.
Genuine(input, row) ==
  /\ row.src \in DOMAIN input /\ row.rec \in DOMAIN input[row.src]
  /\ row \in Range(RowsAt(input, row.src, row.rec))

AllGenuine(input, rows) ==
  /\ rows \in Seq(Row)
  /\ \A n \in 1 .. Len(rows) : Genuine(input, rows[n])

\* Genuine rows behind genuine rows are genuine.
LEMMA ConcatGenuine ==
  ASSUME NEW input, NEW a, NEW b, AllGenuine(input, a), AllGenuine(input, b)
  PROVE  AllGenuine(input, a \o b)
<1>1. /\ a \o b \in Seq(Row) /\ Len(a \o b) = Len(a) + Len(b)
      /\ \A i \in 1 .. Len(a) + Len(b) :
           (a \o b)[i] = IF i <= Len(a) THEN a[i] ELSE b[i - Len(a)]
  BY ConcatProperties DEF AllGenuine
<1>2. ASSUME NEW i \in 1 .. Len(a \o b) PROVE Genuine(input, (a \o b)[i])
  <2>1. Len(a) \in Nat /\ Len(b) \in Nat
    BY DEF AllGenuine
  <2>2. CASE i <= Len(a)
    BY <1>1, <2>1, <2>2 DEF AllGenuine
  <2>3. CASE ~ (i <= Len(a))
    <3>1. i - Len(a) \in 1 .. Len(b) /\ (a \o b)[i] = b[i - Len(a)]
      BY <1>1, <2>1, <2>3
    <3> QED  BY <3>1 DEF AllGenuine
  <2> QED  BY <2>2, <2>3
<1> QED  BY <1>1, <1>2 DEF AllGenuine

\* What a producer in step with the stream takes from a record is what a
\* single pass takes from it.
LEMMA RowsOfOutcome ==
  ASSUME CoreInv, reader # 0
  PROVE  /\ Outcome.kind \in DataKinds =>
              /\ RecordRows(idx, reader, Outcome, decoder) = RowsAt(sources, idx, reader)
              /\ AllGenuine(sources, RecordRows(idx, reader, Outcome, decoder))
         /\ Outcome.kind \in ErrorKinds =>
              /\ <<ErrorRow(idx, reader)>> = RowsAt(sources, idx, reader)
              /\ AllGenuine(sources, <<ErrorRow(idx, reader)>>)
<1>1. /\ idx \in DOMAIN sources /\ reader \in DOMAIN sources[idx]
      /\ idx \in Nat /\ reader \in Nat /\ Outcome \in Record /\ decoder \in Decoder
  <2>1. sources \in Inputs /\ Len(sources) \in Nat /\ sources \in Seq(Seq(Record))
    BY InputsAssumption DEF CoreInv
  <2>2. idx \in 1 .. Len(sources) /\ reader \in 1 .. Len(sources[idx])
    BY <2>1 DEF CoreInv, FieldsOK
  <2>3. sources[idx] \in Seq(Record)
    BY <2>1, <2>2
  <2> QED  BY <2>1, <2>2, <2>3 DEF Outcome, CoreInv, FieldsOK
<1>2. ASSUME NEW rows, rows = RowsAt(sources, idx, reader), RowsOfRecord(rows, idx, reader)
      PROVE  AllGenuine(sources, rows)
  <2> SUFFICES ASSUME NEW n \in 1 .. Len(rows) PROVE Genuine(sources, rows[n])
    BY <1>2 DEF RowsOfRecord, AllGenuine
  <2>1. rows[n].src = idx /\ rows[n].rec = reader
    BY <1>2 DEF RowsOfRecord
  <2>2. rows[n] \in Range(rows)
    BY <1>2 DEF RowsOfRecord, Range
  <2> QED  BY <1>1, <1>2, <2>1, <2>2 DEF Genuine
<1>3. ASSUME Outcome.kind \in DataKinds
      PROVE  RecordRows(idx, reader, Outcome, decoder) = RowsAt(sources, idx, reader)
  BY <1>3 DEF RowsAt, Outcome, DataKinds, ErrorKinds, CoreInv, DecoderInSync
<1>4. ASSUME Outcome.kind \in ErrorKinds
      PROVE  <<ErrorRow(idx, reader)>> = RowsAt(sources, idx, reader)
  BY <1>4 DEF RowsAt, Outcome
<1>5. RowsOfRecord(RecordRows(idx, reader, Outcome, decoder), idx, reader)
  BY <1>1, RecordRowsType
<1>6. RowsOfRecord(<<ErrorRow(idx, reader)>>, idx, reader)
  BY <1>1, ErrorRowType
<1> QED  BY <1>2, <1>3, <1>4, <1>5, <1>6

\* An empty batch has none that is not.
LEMMA EmptyGenuine == \A input : AllGenuine(input, <<>>)
BY DEF AllGenuine

\* No step puts a row that is not genuine into a batch.
LEMMA StepPending ==
  CoreInv /\ AllGenuine(sources, pending) /\ [Next]_vars => AllGenuine(sources, pending')
<1> SUFFICES ASSUME CoreInv, AllGenuine(sources, pending), [Next]_vars
             PROVE  AllGenuine(sources, pending')
  OBVIOUS
<1>1. CASE UNCHANGED pending \/ pending' = <<>>
  BY <1>1, EmptyGenuine
<1>2. CASE ReadRecord
  <2>1. AllGenuine(sources, pending \o RecordRows(idx, reader, Outcome, decoder))
    BY <1>2, RowsOfOutcome, ConcatGenuine DEF ReadRecord
  <2> QED  BY <1>2, <2>1 DEF ReadRecord
<1>3. CASE RecoverableError \/ TornError
  <2>1. CaptureError
    BY <1>3 DEF RecoverableError, TornError
  <2>2. AllGenuine(sources, pending \o <<ErrorRow(idx, reader)>>)
    BY <2>1, RowsOfOutcome, ConcatGenuine DEF CaptureError
  <2>3. Append(pending, ErrorRow(idx, reader)) = pending \o <<ErrorRow(idx, reader)>>
    BY DEF AllGenuine
  <2> QED  BY <2>1, <2>2, <2>3 DEF CaptureError
<1>4. CASE Request \/ OpenCurrent \/ OpenFails \/ Exhausted \/ CleanEndOfSource \/ StrictError
           \/ Emit \/ Ended \/ UNCHANGED vars
  BY <1>1, <1>4 DEF Request, OpenCurrent, OpenFails, Exhausted, CleanEndOfSource, StrictError,
     Emit, Ended, vars
<1> QED  BY <1>2, <1>3, <1>4 DEF Next, Pull

---------------------------------------------------------------------------
(* Checkpoints *)

\* The scans in which no torn source is abandoned, and those in which no bad
\* record is read again.
NoneTorn == strict \/ ~Has(sources, {"torn"})
NoneBad == strict \/ ~Has(sources, {"bad"})

\* An open reader knows the offset of its record; a batch holds a row; and a
\* scan that fills one with no source open is past them all.
PositionInv ==
  /\ reader # 0 => offset = EndAt(sources[idx], reader - 1)
  /\ pc = "idle" => pending = <<>>
  /\ pc = "batch" => pending # <<>>
  /\ pc = "batch" /\ reader = 0 /\ NoneTorn => idx = Len(sources) + 1

\* The producer has passed the place it was restored at, or is on its way to
\* it and has no row yet.
AdvanceInv ==
  transport = "http" /\ pc \in {"pulling", "batch"} /\ NoneBad =>
    \/ token.idx < idx
    \/ token.idx = idx /\ skipTo = token.offset /\ pending = <<>>
    \/ token.idx = idx /\ skipTo = 0 /\ reader # 0 /\ token.offset < offset

CheckpointInv ==
  /\ IInv /\ PositionInv /\ AdvanceInv
  /\ NoneTorn /\ token # NoToken => OnBoundary(token)

\* Errors are captured in scans that are not strict only, and are among the
\* errors of the sources.
LEMMA CapturedIsThere ==
  ASSUME IInv, reader # 0
  PROVE  \A kinds : Outcome.kind \in kinds => Has(sources, kinds)
<1>1. sources \in Inputs /\ Len(sources) \in Nat /\ sources \in Seq(Seq(Record))
  BY InputsAssumption DEF IInv
<1>2. idx \in 1 .. Len(sources) /\ reader \in 1 .. Len(sources[idx])
  BY <1>1 DEF IInv, TypeOK
<1>3. sources[idx] \in Seq(Record)
  BY <1>1, <1>2
<1>4. idx \in DOMAIN sources /\ reader \in DOMAIN sources[idx]
  BY <1>1, <1>2, <1>3
<1> QED  BY <1>4 DEF Has, Outcome

\* Reading a record moves the offset on.
LEMMA OffsetAdvances ==
  ASSUME IInv, PositionInv, reader # 0, Outcome.kind \notin EndKinds
  PROVE  offset \in Nat /\ Outcome.end \in Nat \ {0} /\ offset < Outcome.end
<1>1. sources \in Inputs /\ Len(sources) \in Nat
  BY InputsAssumption DEF IInv
<1>2. idx \in 1 .. Len(sources) /\ reader \in 1 .. Len(sources[idx])
  BY <1>1 DEF IInv, TypeOK
<1>3. /\ IsSource(sources[idx]) /\ Outcome.end \in Nat \ {0}
      /\ Len(sources[idx]) \in Nat /\ reader # Len(sources[idx])
  BY <1>1, <1>2, OutcomeFacts DEF Outcome
<1>4. reader \in 1 .. Len(sources[idx]) - 1
  BY <1>2, <1>3
<1>5. EndAt(sources[idx], reader - 1) < Outcome.end
  BY <1>3, <1>4 DEF IsSource, Outcome
<1> QED  BY <1>3, <1>5 DEF PositionInv, IInv, TypeOK

\* A full batch is not an empty one.
LEMMA FullIsNotEmpty == ASSUME NEW rows, AfterRows(rows) = "batch" PROVE rows # <<>>
BY BatchRowsAssumption DEF AfterRows

LEMMA InitCheckpoint == Init => CheckpointInv
<1> SUFFICES ASSUME Init PROVE CheckpointInv
  OBVIOUS
<1>1. IInv
  BY InitIInv
<1> QED  BY <1>1 DEF Init, CheckpointInv, PositionInv, AdvanceInv

\* The place in the stream, action by action.
LEMMA StepPosition == IInv /\ PositionInv /\ [Next]_vars => PositionInv'
<1> SUFFICES ASSUME IInv, PositionInv, [Next]_vars PROVE PositionInv'
  OBVIOUS
<1>1. /\ sources \in Inputs /\ Len(sources) \in Nat /\ TypeOK
      /\ idx \in Nat /\ offset \in Nat /\ skipTo \in Nat /\ reader \in Nat
  BY InputsAssumption DEF IInv, TypeOK
<1>2. sources' = sources /\ strict' = strict /\ transport' = transport
  BY DEF Next, vars, Request, Pull, Emit, Ended, OpenCurrent, OpenFails, Exhausted,
     ReadRecord, CleanEndOfSource, StrictError, RecoverableError, TornError, CaptureError, bound
<1>3. NoneTorn' <=> NoneTorn
  BY <1>2 DEF NoneTorn
<1>4. CASE Request
  <2>1. /\ pending' = <<>> /\ pc' \in {"finished", "pulling"}
        /\ (transport = "http" => Rebuild(sources)) /\ (transport # "http" => UNCHANGED fields)
    BY <1>4 DEF Request, PositionInv
  <2>2. CASE transport = "http"
    <3>1. reader' = 0
      BY <2>1, <2>2 DEF Rebuild, Position
    <3> QED  BY <2>1, <3>1 DEF PositionInv
  <2>3. CASE transport # "http"
    BY <1>2, <2>1, <2>3 DEF PositionInv, fields
  <2> QED  BY <2>2, <2>3
<1>5. CASE OpenCurrent
  <2>1. reader' = 1 /\ offset' = 0 /\ pc' = "pulling"
    BY <1>5 DEF OpenCurrent
  <2> QED  BY <2>1 DEF PositionInv, EndAt
<1>6. CASE OpenFails \/ StrictError
  <2>1. pc' = "failed" /\ UNCHANGED <<reader, offset, idx>>
    BY <1>6 DEF OpenFails, StrictError, fields
  <2> QED  BY <1>2, <2>1 DEF PositionInv
<1>7. CASE Exhausted
  <2>1. /\ reader' = 0 /\ idx' = Len(sources) + 1
        /\ pc' = (IF pending = <<>> THEN "finished" ELSE "batch") /\ pending' = pending
    BY <1>1, <1>7 DEF Exhausted, TypeOK
  <2> QED  BY <1>2, <2>1 DEF PositionInv
<1>8. CASE ReadRecord
  <2>1. /\ reader # 0 /\ pc = "pulling" /\ offset' = Outcome.end
        /\ reader' = reader + 1 /\ idx' = idx
    BY <1>8 DEF ReadRecord
  <2>2. reader' # 0 /\ offset' = EndAt(sources[idx'], reader' - 1)
    BY <1>1, <2>1 DEF EndAt, Outcome
  <2>3. CASE skipTo # NoSkip /\ offset' <= skipTo
    BY <1>2, <1>8, <2>1, <2>2, <2>3 DEF ReadRecord, PositionInv
  <2>4. CASE ~ (skipTo # NoSkip /\ offset' <= skipTo)
    <3>1. pc' = AfterRows(pending')
      BY <1>8, <2>4 DEF ReadRecord
    <3>2. pc' \in {"pulling", "batch"} /\ (pc' = "batch" => pending' # <<>>)
      BY <3>1, FullIsNotEmpty DEF AfterRows
    <3> QED  BY <1>2, <2>2, <3>2 DEF PositionInv
  <2> QED  BY <2>3, <2>4
<1>9. CASE CleanEndOfSource
  BY <1>9 DEF CleanEndOfSource, Advance, PositionInv
<1>10. CASE RecoverableError \/ TornError
  <2>1. /\ reader # 0 /\ ~strict /\ offset' = Outcome.end
        /\ pc' = AfterRows(pending') /\ pc' \in {"pulling", "batch"}
    BY <1>10 DEF RecoverableError, TornError, CaptureError, AfterRows
  <2>2. pc' = "batch" => pending' # <<>>
    BY <2>1, FullIsNotEmpty
  <2>3. CASE RecoverableError
    <3>1. idx' = idx /\ reader' = reader + 1
      BY <2>3 DEF RecoverableError
    <3>2. reader' # 0 /\ offset' = EndAt(sources[idx'], reader' - 1)
      BY <1>1, <2>1, <3>1 DEF EndAt, Outcome
    <3> QED  BY <1>2, <2>1, <2>2, <3>2 DEF PositionInv
  <2>4. CASE TornError
    <3>1. Outcome.kind = "torn" /\ reader' = 0
      BY <2>4 DEF TornError, Advance
    <3>2. ~NoneTorn
      BY <2>1, <3>1, CapturedIsThere DEF NoneTorn
    <3> QED  BY <1>3, <2>1, <2>2, <3>1, <3>2 DEF PositionInv
  <2> QED  BY <1>10, <2>3, <2>4
<1>11. CASE Emit
  BY <1>2, <1>11 DEF Emit, fields, PositionInv
<1>12. CASE Ended \/ UNCHANGED vars
  BY <1>3, <1>12 DEF Ended, vars, PositionInv
<1> QED  BY <1>4, <1>5, <1>6, <1>7, <1>8, <1>9, <1>10, <1>11, <1>12 DEF Next, Pull

\* One step of the producer, action by action.
LEMMA StepCheckpoint == CheckpointInv /\ [Next]_vars => CheckpointInv'
<1> SUFFICES ASSUME CheckpointInv, [Next]_vars PROVE CheckpointInv'
  OBVIOUS
<1>1. IInv /\ IInv' /\ PositionInv /\ PositionInv' /\ AdvanceInv
  BY StepIInv, StepPosition DEF CheckpointInv
<1>2. /\ sources \in Inputs /\ Len(sources) \in Nat /\ TypeOK
      /\ idx \in Nat /\ offset \in Nat /\ skipTo \in Nat /\ reader \in Nat
      /\ token.idx \in Nat /\ token.offset \in Nat
  BY <1>1, InputsAssumption DEF IInv, TypeOK
<1>3. sources' = sources /\ strict' = strict /\ transport' = transport
  BY DEF Next, vars, Request, Pull, Emit, Ended, OpenCurrent, OpenFails, Exhausted,
     ReadRecord, CleanEndOfSource, StrictError, RecoverableError, TornError, CaptureError, bound
<1>4. (NoneTorn' <=> NoneTorn) /\ (NoneBad' <=> NoneBad)
  BY <1>3 DEF NoneTorn, NoneBad
<1>5. ASSUME UNCHANGED token, AdvanceInv' PROVE CheckpointInv'
  BY <1>1, <1>3, <1>4, <1>5 DEF CheckpointInv, OnBoundary
<1>6. CASE Request
  <2>1. /\ UNCHANGED <<pending, token>> /\ pc' \in {"finished", "pulling"}
        /\ pending = <<>> /\ (transport = "http" => Rebuild(sources))
    BY <1>1, <1>6 DEF Request, PositionInv
  <2>2. CASE transport = "http"
    <3>1. IF token = NoToken THEN Position(1, FALSE, NoSkip)
          ELSE Position(token.idx, token.idx > Len(sources), token.offset)
      BY <1>2, <2>1, <2>2, RebuildPosition
    <3>2. token.idx < idx' \/ (token.idx = idx' /\ skipTo' = token.offset)
      BY <3>1 DEF Position, NoToken, NoSkip
    <3> QED  BY <1>5, <2>1, <3>2 DEF AdvanceInv
  <2>3. CASE transport # "http"
    BY <1>3, <1>5, <2>1, <2>3 DEF AdvanceInv
  <2> QED  BY <2>2, <2>3
<1>7. CASE OpenCurrent
  <2>1. /\ reader = 0 /\ pc = "pulling" /\ UNCHANGED <<pc, idx, skipTo, pending, token>>
    BY <1>7 DEF OpenCurrent
  <2> QED  BY <1>1, <1>3, <1>4, <1>5, <2>1 DEF AdvanceInv
<1>8. CASE OpenFails \/ StrictError
  <2>1. pc' = "failed" /\ UNCHANGED token
    BY <1>8 DEF OpenFails, StrictError
  <2> QED  BY <1>5, <2>1 DEF AdvanceInv
<1>9. CASE Exhausted
  <2>1. /\ reader = 0 /\ pc = "pulling" /\ UNCHANGED <<idx, reader, offset, skipTo, pending, token>>
        /\ pc' = (IF pending = <<>> THEN "finished" ELSE "batch")
    BY <1>9 DEF Exhausted
  <2> QED  BY <1>1, <1>3, <1>4, <1>5, <2>1 DEF AdvanceInv
<1>10. CASE ReadRecord
  <2>1. /\ reader # 0 /\ pc = "pulling" /\ Outcome.kind \in DataKinds /\ offset' = Outcome.end
        /\ reader' = reader + 1 /\ UNCHANGED <<idx, token>>
    BY <1>10 DEF ReadRecord
  <2>2. offset < offset' /\ offset' \in Nat \ {0} /\ reader' # 0
    BY <1>1, <1>2, <2>1, OffsetAdvances DEF DataKinds, EndKinds
  <2>3. CASE skipTo # NoSkip /\ offset' <= skipTo
    <3>1. UNCHANGED <<skipTo, pending, pc>>
      BY <1>10, <2>3 DEF ReadRecord
    <3> QED  BY <1>1, <1>2, <1>3, <1>4, <1>5, <2>1, <2>2, <3>1 DEF AdvanceInv
  <2>4. CASE ~ (skipTo # NoSkip /\ offset' <= skipTo)
    <3>1. skipTo' = 0 /\ (skipTo = 0 \/ skipTo < offset')
      BY <1>2, <1>10, <2>2, <2>4 DEF ReadRecord, NoSkip
    <3> QED  BY <1>1, <1>2, <1>3, <1>4, <1>5, <2>1, <2>2, <3>1 DEF AdvanceInv
  <2> QED  BY <2>3, <2>4
<1>11. CASE CleanEndOfSource
  <2>1. /\ idx' = idx + 1 /\ pc = "pulling" /\ UNCHANGED <<pc, token>>
    BY <1>11 DEF CleanEndOfSource, Advance
  <2> QED  BY <1>1, <1>2, <1>3, <1>4, <1>5, <2>1 DEF AdvanceInv
<1>12. CASE RecoverableError \/ TornError
  <2>1. reader # 0 /\ pc = "pulling" /\ ~strict /\ UNCHANGED token
    BY <1>12 DEF RecoverableError, TornError, CaptureError
  <2>2. CASE RecoverableError
    <3>1. ~NoneBad
      BY <1>1, <2>1, <2>2, CapturedIsThere DEF RecoverableError, NoneBad
    <3> QED  BY <1>4, <1>5, <2>1, <3>1 DEF AdvanceInv
  <2>3. CASE TornError
    <3>1. idx' = idx + 1
      BY <2>3 DEF TornError, Advance
    <3> QED  BY <1>1, <1>2, <1>3, <1>4, <1>5, <2>1, <3>1 DEF AdvanceInv
  <2> QED  BY <1>12, <2>2, <2>3
<1>13. CASE Emit
  <2>1. /\ pc = "batch" /\ pc' = "idle" /\ UNCHANGED fields
        /\ token' = IF transport = "http" THEN [idx |-> idx, offset |-> offset] ELSE token
    BY <1>13 DEF Emit
  <2>2. AdvanceInv'
    BY <2>1 DEF AdvanceInv
  <2>3. ASSUME transport = "http", NoneTorn
        PROVE  OnBoundary(token')
    <3>1. token'.idx = idx /\ token'.offset = offset
      BY <2>1, <2>3
    <3>2. CASE reader = 0
      BY <1>1, <2>1, <2>3, <3>1, <3>2 DEF PositionInv, OnBoundary
    <3>3. CASE reader # 0
      <4>1. reader \in 1 .. Len(sources[idx]) /\ Len(sources[idx]) \in Nat
        <5>1. idx \in 1 .. Len(sources) /\ reader \in 1 .. Len(sources[idx])
          BY <1>2, <3>3 DEF TypeOK
        <5> QED  BY <1>2, <5>1, OutcomeFacts
      <4>2. reader - 1 \in 0 .. Len(sources[idx]) - 1
        BY <4>1
      <4>3. offset = EndAt(sources[idx], reader - 1)
        BY <1>1, <3>3 DEF PositionInv
      <4> QED  BY <3>1, <4>2, <4>3 DEF OnBoundary
    <3> QED  BY <3>2, <3>3
  <2>4. CASE transport = "http"
    BY <1>1, <1>3, <1>4, <2>2, <2>3, <2>4 DEF CheckpointInv, OnBoundary
  <2>5. CASE transport # "http"
    BY <1>5, <2>1, <2>2, <2>5
  <2> QED  BY <2>4, <2>5
<1>14. CASE Ended \/ UNCHANGED vars
  <2>1. UNCHANGED vars
    BY <1>14 DEF Ended
  <2>2. AdvanceInv'
    BY <1>1, <1>4, <2>1 DEF vars, AdvanceInv
  <2> QED  BY <1>5, <2>1, <2>2 DEF vars
<1> QED
  BY <1>6, <1>7, <1>8, <1>9, <1>10, <1>11, <1>12, <1>13, <1>14 DEF Next, Pull

\* In every strict scan, and wherever no source is torn, a checkpoint names a
\* place between two records of its source or the end of all sources.
THEOREM CheckpointsOnBoundary == Spec => []CheckpointOnBoundaryUnlessTorn
<1>1. CheckpointInv => CheckpointOnBoundaryUnlessTorn
  BY DEF CheckpointInv, NoneTorn, CheckpointOnBoundaryUnlessTorn, CheckpointOnBoundary
<1> QED  BY <1>1, InitCheckpoint, StepCheckpoint, PTL DEF Spec

\* No response ends where the one before it ended: a scan gets on with every
\* batch, unless a bad record can be read again.
THEOREM CheckpointsAdvance == Spec => CheckpointAdvances
<1> DEFINE Advances == transport = "http" /\ pc = "batch" /\ (strict \/ ~Has(sources, {"bad"}))
                         => PositionBefore(token, token')
<1>1. CheckpointInv /\ [Next]_vars => [Advances]_vars
  <2> SUFFICES ASSUME CheckpointInv, Next, transport = "http", pc = "batch", NoneBad
               PROVE  PositionBefore(token, token')
    BY DEF NoneBad
  <2>1. Emit
    BY DEF Next, Pull, Request, Ended, OpenCurrent, OpenFails, Exhausted, ReadRecord,
       CleanEndOfSource, StrictError, RecoverableError, TornError, CaptureError
  <2>2. token'.idx = idx /\ token'.offset = offset
    BY <2>1 DEF Emit
  <2>3. pending # <<>>
    BY DEF CheckpointInv, PositionInv
  <2> QED  BY <2>2, <2>3 DEF CheckpointInv, AdvanceInv, PositionBefore
<1> QED  BY <1>1, InitCheckpoint, StepCheckpoint, PTL DEF Spec, CheckpointAdvances


---------------------------------------------------------------------------
(* The scan *)

\* The offsets of a source grow with every record: two records have the same
\* or ordered offsets only if they are the same or ordered themselves.
LEMMA OffsetsGrow ==
  ASSUME NEW input \in Inputs, NEW s \in 1 .. Len(input),
         NEW j \in 1 .. Len(input[s]) - 1, NEW i \in 0 .. j - 1
  PROVE  /\ EndAt(input[s], i) \in Nat /\ EndAt(input[s], j) \in Nat
         /\ EndAt(input[s], i) < EndAt(input[s], j)
<1> DEFINE source == input[s]
           Wrong == {n \in Nat : n <= Len(source) - 1 /\ i < n /\ ~ (EndAt(source, i) < EndAt(source, n))}
<1>1. IsSource(source) /\ Len(source) \in Nat \ {0}
  BY 1 \in 1 .. Len(input[s]), OutcomeFacts
<1>2. \A n \in 1 .. Len(source) - 1 : source[n].end \in Nat
  <2> SUFFICES ASSUME NEW n \in 1 .. Len(source) - 1 PROVE source[n].end \in Nat
    OBVIOUS
  <2>1. n \in 1 .. Len(input[s]) /\ n # Len(input[s])
    BY <1>1
  <2> QED  BY <2>1, OutcomeFacts
<1>3. \A n \in 0 .. Len(source) - 1 : EndAt(source, n) \in Nat
  BY <1>1, <1>2 DEF EndAt
<1>4. \A n \in 1 .. Len(source) - 1 : EndAt(source, n - 1) < EndAt(source, n)
  BY <1>1 DEF IsSource, EndAt
<1> HIDE DEF source
<1>5. Wrong = {}
  <2> SUFFICES ASSUME Wrong # {} PROVE FALSE
    OBVIOUS
  <2>1. PICK n \in Wrong : \A m \in Wrong : n <= m
    <3> HIDE DEF Wrong
    <3>1. Wrong \subseteq Nat
      BY DEF Wrong
    <3> QED  BY <3>1, LeastNumber
  <2>2. n \in 1 .. Len(source) - 1 /\ n - 1 \in 0 .. Len(source) - 1 /\ i \in 0 .. n - 1
    BY <1>1
  <2>3. CASE i = n - 1
    BY <1>4, <2>2, <2>3
  <2>4. CASE i # n - 1
    <3>1. n - 1 \notin Wrong
      BY <2>1, <2>2
    <3>2. EndAt(source, i) < EndAt(source, n - 1)
      BY <1>1, <2>2, <2>4, <3>1
    <3>3. EndAt(source, n - 1) < EndAt(source, n)
      BY <1>4, <2>2
    <3>4. EndAt(source, i) \in Nat /\ EndAt(source, n - 1) \in Nat /\ EndAt(source, n) \in Nat
      BY <1>1, <1>3, <2>2
    <3>5. EndAt(source, i) < EndAt(source, n)
      BY <3>2, <3>3, <3>4
    <3> QED  BY <2>1, <3>5
  <2> QED  BY <2>3, <2>4
<1>6. j \in Nat /\ j <= Len(source) - 1 /\ i < j
  BY <1>1 DEF source
<1>7. EndAt(source, i) < EndAt(source, j)
  BY <1>5, <1>6
<1>8. i \in 0 .. Len(source) - 1 /\ j \in 0 .. Len(source) - 1
  BY <1>1, <1>6
<1> QED  BY <1>3, <1>7, <1>8 DEF source

\* A step of the scan is a step of the producer, or leaves it alone.
LEMMA ScanStep == [ScanNext]_scanVars => [Next]_vars
BY DEF ScanNext, ScanRequest, ScanPull, ScanEmit, ScanEnded, Next, scanVars

---------------------------------------------------------------------------
(* Genuine rows *)

\* All that is received is genuine, handed over or about to be.
FaithInv == IInv /\ AllGenuine(sources, delivered) /\ AllGenuine(sources, pending)

\* No step hands out a row that is not genuine.
LEMMA StepFaith == FaithInv /\ [ScanNext]_scanVars => FaithInv'
<1> SUFFICES ASSUME FaithInv, [ScanNext]_scanVars PROVE FaithInv'
  OBVIOUS
<1>1. IInv /\ IInv' /\ CoreInv /\ AllGenuine(sources, delivered) /\ AllGenuine(sources, pending)
  BY ScanStep, StepIInv, CoreOfIInv DEF FaithInv
<1>2. sources' = sources
  BY ScanStep DEF Next, vars, Request, Pull, Emit, Ended, OpenCurrent, OpenFails, Exhausted,
     ReadRecord, CleanEndOfSource, StrictError, RecoverableError, TornError, CaptureError, bound
<1>3. AllGenuine(sources, pending')
  BY <1>1, ScanStep, StepPending
<1>4. AllGenuine(sources, delivered')
  <2>1. CASE ScanEmit
    BY <1>1, <2>1, ConcatGenuine DEF ScanEmit
  <2>2. CASE ScanRequest \/ ScanPull \/ ScanEnded \/ UNCHANGED scanVars
    BY <1>1, <2>2 DEF ScanRequest, ScanPull, ScanEnded, scanVars
  <2> QED  BY <2>1, <2>2 DEF ScanNext
<1> QED  BY <1>1, <1>2, <1>3, <1>4 DEF FaithInv

\* Whatever is skipped, read again, reopened or torn, a client never receives a
\* row a single pass would not have at that place: same peer, same view.
THEOREM Faithful == ScanSpec => []RowsFaithful
<1>1. ScanInit => FaithInv
  BY InitIInv, EmptyGenuine DEF ScanInit, Init, FaithInv
<1>2. FaithInv => RowsFaithful
  <2> SUFFICES ASSUME FaithInv PROVE RowsFaithful
    OBVIOUS
  <2>1. delivered \in Seq(Row)
    BY DEF FaithInv, AllGenuine
  <2> QED  BY <2>1 DEF FaithInv, AllGenuine, Genuine, RowsFaithful
<1> QED  BY <1>1, <1>2, StepFaith, PTL DEF ScanSpec
---------------------------------------------------------------------------
(* Scan order *)

Sorted(rows) ==
  /\ rows \in Seq(Row)
  /\ \A m, n \in 1 .. Len(rows) : m < n => Precedes(rows[m], rows[n])

\* The scans InScanOrder speaks of.
NoneReread == strict \/ transport = "stdio" \/ ~Has(sources, {"bad"})

\* A row of a source is at or before an offset of that source.
UpTo(source, row, limit) == row.rec \in 1 .. Len(source) - 1 /\ EndAt(source, row.rec) <= limit

\* The row comes from before the place the producer is at: before the record it
\* reads next or, while it fast-forwards, from at or before the checkpoint.
Behind(row) ==
  \/ row.src < idx
  \/ row.src = idx /\ skipTo # 0 /\ UpTo(sources[idx], row, skipTo)
  \/ row.src = idx /\ skipTo = 0 /\ reader # 0 /\ row.rec < reader

\* The row is one the token tells the next producer to skip.
Covered(row) ==
  /\ token # NoToken
  /\ \/ row.src < token.idx
     \/ row.src = token.idx /\ UpTo(sources[token.idx], row, token.offset)

\* Everything received is behind the producer while there is one, and covered
\* by the token while there is none.
OrderInv ==
  /\ Sorted(delivered) /\ Sorted(received)
  /\ pc = "idle" => pending = <<>>
  /\ transport = "stdio" => skipTo = 0
  /\ pc \in {"pulling", "batch"} /\ skipTo # 0 => pc = "pulling" /\ idx <= Len(sources)
  /\ reader # 0 => offset = EndAt(sources[idx], reader - 1)
  /\ \/ pc \in {"pulling", "batch"}
     \/ transport = "stdio" /\ pc = "idle"
     => \A n \in 1 .. Len(received) : Behind(received[n])
  /\ transport = "http" /\ pc = "idle" => \A n \in 1 .. Len(received) : Covered(received[n])

ScanInv == FaithInv /\ (NoneReread => OrderInv)

\* New rows, sorted, all after the old ones.
LEMMA ConcatSorted ==
  ASSUME NEW a, NEW b, Sorted(a), Sorted(b),
         \A m \in 1 .. Len(a) : \A n \in 1 .. Len(b) : Precedes(a[m], b[n])
  PROVE  Sorted(a \o b)
<1>1. /\ a \o b \in Seq(Row) /\ Len(a \o b) = Len(a) + Len(b)
      /\ \A i \in 1 .. Len(a) + Len(b) :
           (a \o b)[i] = IF i <= Len(a) THEN a[i] ELSE b[i - Len(a)]
  BY ConcatProperties DEF Sorted
<1>2. Len(a) \in Nat /\ Len(b) \in Nat
  BY DEF Sorted
<1>3. ASSUME NEW m \in 1 .. Len(a \o b), NEW n \in 1 .. Len(a \o b), m < n
      PROVE  Precedes((a \o b)[m], (a \o b)[n])
  <2>1. CASE n <= Len(a)
    BY <1>1, <1>2, <1>3, <2>1 DEF Sorted
  <2>2. CASE m <= Len(a) /\ ~ (n <= Len(a))
    <3>1. n - Len(a) \in 1 .. Len(b) /\ (a \o b)[n] = b[n - Len(a)]
      BY <1>1, <1>2, <2>2
    <3>2. m \in 1 .. Len(a) /\ (a \o b)[m] = a[m]
      BY <1>1, <1>2, <2>2
    <3> QED  BY <3>1, <3>2
  <2>3. CASE ~ (m <= Len(a))
    <3>1. n - Len(a) \in 1 .. Len(b) /\ (a \o b)[n] = b[n - Len(a)]
      BY <1>1, <1>2, <1>3, <2>3
    <3>2. m - Len(a) \in 1 .. Len(b) /\ (a \o b)[m] = b[m - Len(a)]
      BY <1>1, <1>2, <1>3, <2>3
    <3>3. m - Len(a) < n - Len(a)
      BY <1>2, <1>3
    <3> QED  BY <3>1, <3>2, <3>3 DEF Sorted
  <2> QED  BY <2>1, <2>2, <2>3
<1> QED  BY <1>1, <1>3 DEF Sorted

\* The rows of one outcome are sorted among themselves.
LEMMA RecordSorted ==
  ASSUME NEW rows, NEW s, NEW j, RowsOfRecord(rows, s, j)
  PROVE  Sorted(rows)
BY DEF RowsOfRecord, Sorted, Precedes

\* The rows of the outcome at hand, when it is past the checkpoint, come after
\* everything behind the producer; and once it is read they are behind, too.
LEMMA OutcomeAfterBehind ==
  ASSUME ScanInv, NoneReread, reader # 0, Outcome.kind # "eof",
         pc = "pulling", skipTo = 0 \/ Outcome.end > skipTo
  PROVE  \A n \in 1 .. Len(received) :
           received[n].src < idx \/ (received[n].src = idx /\ received[n].rec < reader)
<1> SUFFICES ASSUME NEW i \in 1 .. Len(received)
             PROVE  \/ received[i].src < idx
                    \/ received[i].src = idx /\ received[i].rec < reader
  OBVIOUS
<1>1. Behind(received[i])
  BY DEF ScanInv, OrderInv
<1>2. sources \in Inputs /\ idx \in 1 .. Len(sources) /\ reader \in 1 .. Len(sources[idx])
  <2>1. Len(sources) \in Nat
    BY InputsAssumption DEF ScanInv, FaithInv, IInv
  <2> QED  BY <2>1 DEF ScanInv, FaithInv, IInv, TypeOK
<1>3. CASE skipTo = 0
  BY <1>1, <1>3 DEF Behind
<1>4. CASE skipTo # 0 /\ ~ (received[i].src < idx)
  <2> DEFINE source == sources[idx]
             rec == received[i].rec
  <2> SUFFICES rec < reader
    BY <1>1, <1>4 DEF Behind
  <2>1. rec \in 1 .. Len(source) - 1 /\ EndAt(source, rec) <= skipTo
    BY <1>1, <1>4 DEF Behind, UpTo
  <2>2. Outcome.end > skipTo /\ skipTo \in Nat
    BY <1>4 DEF ScanInv, FaithInv, IInv, TypeOK
  <2>3. Len(source) \in Nat /\ Outcome.end = EndAt(source, reader) /\ Outcome.end \in Nat
    BY <1>2, OutcomeFacts DEF Outcome, EndAt
  <2>4. CASE reader = Len(source)
    BY <2>1, <2>3, <2>4
  <2>5. CASE reader # Len(source)
    <3>1. SUFFICES ASSUME ~ (rec < reader) PROVE FALSE
      OBVIOUS
    <3>2. CASE rec = reader
      BY <2>1, <2>2, <2>3, <3>2
    <3>3. CASE rec # reader
      <4>1. reader \in 0 .. rec - 1
        BY <1>2, <2>1, <2>3, <3>1, <3>3
      <4>2. EndAt(source, reader) < EndAt(source, rec) /\ EndAt(source, rec) \in Nat
        BY <1>2, <2>1, <4>1, OffsetsGrow
      <4> QED  BY <2>1, <2>2, <2>3, <4>2
    <3> QED  BY <3>2, <3>3
  <2> QED  BY <2>4, <2>5
<1> QED  BY <1>3, <1>4

\* Delivered, pending and new rows may be joined in either order.
LEMMA RowsAssociate ==
  ASSUME NEW a \in Seq(Row), NEW b \in Seq(Row), NEW c \in Seq(Row)
  PROVE  a \o (b \o c) = (a \o b) \o c
<1>1. \A S : \A s, t, u \in Seq(S) : (s \o t) \o u = s \o (t \o u)
  BY ConcatAssociative
<1> DEFINE R == Row
<1>2. a \in Seq(R) /\ b \in Seq(R) /\ c \in Seq(R)
  OBVIOUS
<1> HIDE DEF R
<1>3. (a \o b) \o c = a \o (b \o c)
  BY <1>1, <1>2
<1> QED  BY <1>3

\* No step delivers or collects a row before one that is already behind.
LEMMA StepOrder == ScanInv /\ [ScanNext]_scanVars => ScanInv'
<1> SUFFICES ASSUME ScanInv, [ScanNext]_scanVars PROVE ScanInv'
  OBVIOUS
<1>1. FaithInv /\ FaithInv'
  BY StepFaith DEF ScanInv
<1>2. /\ sources' = sources /\ strict' = strict /\ transport' = transport
  BY ScanStep DEF Next, vars, Request, Pull, Emit, Ended, OpenCurrent, OpenFails, Exhausted,
     ReadRecord, CleanEndOfSource, StrictError, RecoverableError, TornError, CaptureError, bound
<1> SUFFICES ASSUME NoneReread PROVE OrderInv'
  BY <1>1, <1>2 DEF ScanInv, NoneReread
<1>3. OrderInv
  BY DEF ScanInv
<1>4. sources \in Inputs /\ Len(sources) \in Nat /\ TypeOK /\ TypeOK' /\ transport \in {"stdio", "http"}
  <2>1. sources \in Inputs /\ TypeOK /\ TypeOK'
    BY <1>1 DEF FaithInv, IInv
  <2> QED  BY <2>1, InputsAssumption DEF TypeOK
<1>5. delivered \in Seq(Row) /\ pending \in Seq(Row) /\ received \in Seq(Row)
  BY <1>1, <1>3 DEF FaithInv, AllGenuine, OrderInv, Sorted
<1>6. \A n \in 1 .. Len(received) : received[n] \in Row
  BY <1>5
<1>7. ASSUME reader # 0
      PROVE  /\ idx \in 1 .. Len(sources) /\ reader \in 1 .. Len(sources[idx])
             /\ Len(sources[idx]) \in Nat
             /\ Outcome.kind \in EndKinds <=> reader = Len(sources[idx])
             /\ Outcome.kind # "eof" => Outcome.end \in Nat
  <2>1. idx \in 1 .. Len(sources) /\ reader \in 1 .. Len(sources[idx])
    BY <1>4, <1>7 DEF TypeOK
  <2> QED  BY <1>4, <2>1, OutcomeFacts DEF Outcome
<1>8. CASE ScanRequest
  <2>1. /\ pc = "idle" /\ pending = <<>> /\ received' = received
        /\ delivered' = delivered /\ pending' = pending /\ pc' \in {"finished", "pulling"}
    BY <1>3, <1>8 DEF ScanRequest, Request, OrderInv, received
  <2>2. CASE transport = "http"
    <3>1. Rebuild(sources) /\ Len(sources) \in Nat
      BY <1>4, <1>8, <2>2, InputsAssumption DEF ScanRequest, Request
    <3>2. reader' = 0
      BY <3>1 DEF Rebuild, Position
    <3>3. ASSUME NEW n \in 1 .. Len(received) PROVE Behind(received[n])'
      <4>1. Covered(received[n])
        BY <1>3, <2>1, <2>2 DEF OrderInv
      <4>2. idx' = token.idx /\ skipTo' = token.offset
        BY <1>4, <3>1, <4>1, RebuildPosition DEF Covered, Position
      <4>3. CASE received[n].src < token.idx
        BY <2>1, <4>2, <4>3 DEF Behind
      <4>4. CASE received[n].src = token.idx /\ UpTo(sources[token.idx], received[n], token.offset)
        <5>1. token.idx \in 1 .. Len(sources)
          <6>1. received[n].src \in DOMAIN sources
            <7>1. Genuine(sources, received[n])
              <8>1. AllGenuine(sources, received)
                BY <1>1, ConcatGenuine DEF FaithInv, received
              <8> QED  BY <8>1 DEF AllGenuine
            <7> QED  BY <7>1 DEF Genuine
          <6>2. DOMAIN sources = 1 .. Len(sources)
            BY <1>4, InputsAssumption
          <6> QED  BY <4>4, <6>1, <6>2
        <5>2. received[n].rec \in 1 .. Len(sources[token.idx]) - 1
          BY <4>4 DEF UpTo
        <5>3. 0 \in 0 .. received[n].rec - 1
          BY <5>2
        <5>4. /\ EndAt(sources[token.idx], received[n].rec) \in Nat
              /\ 0 < EndAt(sources[token.idx], received[n].rec)
          BY <1>4, <5>1, <5>2, <5>3, OffsetsGrow DEF EndAt
        <5>5. token.offset \in Nat /\ EndAt(sources[token.idx], received[n].rec) <= token.offset
          BY <1>4, <4>4 DEF UpTo, TypeOK
        <5>6. token.offset # 0
          BY <5>4, <5>5
        <5> QED  BY <1>2, <2>1, <4>2, <4>4, <5>6 DEF Behind
      <4> QED  BY <4>1, <4>3, <4>4 DEF Covered
    <3>4. pc' = "pulling" /\ skipTo' # 0 => idx' <= Len(sources)
      <4> SUFFICES ASSUME pc' = "pulling", skipTo' # 0 PROVE idx' <= Len(sources)
        OBVIOUS
      <4>1. ~done'
        BY <1>8 DEF ScanRequest, Request
      <4>2. token # NoToken
        BY <3>1 DEF Rebuild, Position, NoSkip
      <4>3. idx' = token.idx /\ ~ (token.idx > Len(sources)) /\ token.idx \in 1 .. Len(sources) + 1
        BY <1>4, <3>1, <4>1, <4>2, RebuildPosition DEF Position, TypeOK
      <4> QED  BY <1>4, <4>3
    <3> QED  BY <1>2, <1>3, <2>1, <2>2, <3>2, <3>3, <3>4 DEF OrderInv
  <2>3. CASE transport = "stdio"
    <3>1. UNCHANGED fields
      BY <1>8, <2>3 DEF ScanRequest, Request
    <3>2. ASSUME NEW n \in 1 .. Len(received) PROVE Behind(received[n])'
      BY <1>2, <1>3, <2>1, <2>3, <3>1 DEF OrderInv, Behind, fields
    <3> QED  BY <1>2, <1>3, <2>1, <2>3, <3>1, <3>2 DEF OrderInv, fields
  <2> QED  BY <1>4, <2>2, <2>3
<1>9. ASSUME pc = "pulling", pc' \in {"pulling", "batch"}, received' = received,
             delivered' = delivered, skipTo' = 0 \/ UNCHANGED <<skipTo, pc, idx>>,
             reader' # 0 => offset' = EndAt(sources[idx'], reader' - 1),
             \A n \in 1 .. Len(received) : Behind(received[n]) => Behind(received[n])'
      PROVE  OrderInv'
  <2>1. \A n \in 1 .. Len(received') : Behind(received[n])'
    BY <1>3, <1>9 DEF OrderInv
  <2> QED  BY <1>2, <1>3, <1>9, <2>1 DEF OrderInv
<1>10. ASSUME pc' = "failed", pending' = <<>>, delivered' = delivered, UNCHANGED fields
       PROVE  OrderInv'
  <2>1. received' = delivered
    BY <1>5, <1>10 DEF received
  <2> QED  BY <1>2, <1>3, <1>10, <2>1 DEF OrderInv, fields
\* New rows are sorted, come after everything behind the producer, and are
\* behind it once the outcome has been read.
<1>11. ASSUME NEW rows, RowsOfRecord(rows, idx, reader), reader # 0, Outcome.kind # "eof",
              pc = "pulling", skipTo = 0 \/ Outcome.end > skipTo,
              pending' = pending \o rows, delivered' = delivered
       PROVE  /\ Sorted(received')
              /\ \A n \in 1 .. Len(received') :
                   \/ received'[n].src < idx
                   \/ received'[n].src = idx /\ received'[n].rec < reader + 1
  <2>1. rows \in Seq(Row) /\ received' = received \o rows
    <3>1. rows \in Seq(Row)
      BY <1>11 DEF RowsOfRecord
    <3>2. delivered \o (pending \o rows) = (delivered \o pending) \o rows
      BY <1>5, <3>1, RowsAssociate
    <3> QED  BY <1>5, <1>11, <3>1, <3>2 DEF received
  <2>2. \A n \in 1 .. Len(received) :
          \/ received[n].src < idx
          \/ received[n].src = idx /\ received[n].rec < reader
    BY <1>11, OutcomeAfterBehind
  <2>3. \A n \in 1 .. Len(rows) : rows[n].src = idx /\ rows[n].rec = reader
    BY <1>11 DEF RowsOfRecord
  <2>4. Sorted(received')
    BY <1>3, <1>11, <2>1, <2>2, <2>3, RecordSorted, ConcatSorted DEF OrderInv, Precedes
  <2>5. ASSUME NEW n \in 1 .. Len(received')
        PROVE  \/ received'[n].src < idx
               \/ received'[n].src = idx /\ received'[n].rec < reader + 1
    <3>1. /\ Len(received') = Len(received) + Len(rows)
          /\ received'[n] = IF n <= Len(received) THEN received[n] ELSE rows[n - Len(received)]
      BY <1>5, <2>1, ConcatProperties
    <3>2. Len(received) \in Nat /\ Len(rows) \in Nat /\ reader \in Nat
      BY <1>4, <1>5, <2>1, SMTT(30) DEF TypeOK
    <3>3. CASE n <= Len(received)
      <4>1. received'[n] = received[n] /\ received[n] \in Row
        BY <1>6, <3>1, <3>2, <3>3
      <4> QED  BY <2>2, <3>2, <3>3, <4>1 DEF Row
    <3>4. CASE ~ (n <= Len(received))
      <4>1. n - Len(received) \in 1 .. Len(rows) /\ received'[n] = rows[n - Len(received)]
        BY <3>1, <3>2, <3>4
      <4> QED  BY <2>3, <3>2, <4>1
    <3> QED  BY <3>3, <3>4
  <2> QED  BY <2>4, <2>5
<1>12. CASE ScanPull
  <2> USE <1>12 DEF ScanPull
  <2>1. delivered' = delivered
    OBVIOUS
  <2>2. CASE OpenCurrent
    <3>1. /\ reader = 0 /\ reader' = 1 /\ offset' = 0 /\ pc = "pulling" /\ pc' = pc
          /\ UNCHANGED <<idx, skipTo, pending>>
      BY <2>2 DEF OpenCurrent
    <3>2. received' = received
      BY <2>1, <3>1 DEF received
    <3>3. \A n \in 1 .. Len(received) : Behind(received[n]) => Behind(received[n])'
      BY <1>2, <3>1, <3>2 DEF Behind
    <3> QED  BY <1>2, <1>9, <2>1, <3>1, <3>2, <3>3 DEF EndAt
  <2>3. CASE OpenFails \/ StrictError
    BY <1>10, <2>1, <2>3 DEF OpenFails, StrictError
  <2>4. CASE Exhausted
    <3>1. /\ reader = 0 /\ pc = "pulling" /\ pc' \in {"finished", "batch"}
          /\ UNCHANGED <<idx, reader, skipTo, pending>>
          /\ skipTo' = 0
      <4>1. idx > Len(sources) /\ idx \in Nat
        BY <1>4, <2>4 DEF Exhausted, TypeOK
      <4> QED  BY <1>3, <1>4, <2>4, <4>1 DEF Exhausted, OrderInv
    <3>2. received' = received
      BY <2>1, <3>1 DEF received
    <3>3. \A n \in 1 .. Len(received) : Behind(received[n])'
      BY <1>2, <1>3, <3>1, <3>2 DEF OrderInv, Behind
    <3> QED  BY <1>2, <1>3, <2>1, <3>1, <3>2, <3>3 DEF OrderInv
  <2>5. CASE ReadRecord
    <3>1. /\ reader # 0 /\ pc = "pulling" /\ Outcome.kind \in DataKinds
          /\ offset' = Outcome.end /\ reader' = reader + 1 /\ idx' = idx
      BY <2>5 DEF ReadRecord
    <3>2. reader + 1 # 0 /\ offset' = EndAt(sources[idx'], reader' - 1)
      BY <1>7, <3>1 DEF EndAt, Outcome
    <3>3. CASE skipTo # NoSkip /\ offset' <= skipTo
      <4>1. UNCHANGED <<skipTo, pending, pc>>
        BY <2>5, <3>3 DEF ReadRecord
      <4>2. received' = received
        BY <2>1, <4>1 DEF received
      <4>3. \A n \in 1 .. Len(received) : Behind(received[n]) => Behind(received[n])'
        BY <1>2, <3>1, <3>3, <4>1, <4>2 DEF Behind, NoSkip
      <4> QED  BY <1>9, <2>1, <3>1, <3>2, <4>1, <4>2, <4>3
    <3>4. CASE ~ (skipTo # NoSkip /\ offset' <= skipTo)
      <4> DEFINE rows == RecordRows(idx, reader, Outcome, decoder)
      <4>1. /\ skipTo' = 0 /\ pc' = AfterRows(pending') /\ pending' = pending \o rows
        BY <2>5, <3>4 DEF ReadRecord, NoSkip
      <4>2. skipTo = 0 \/ Outcome.end > skipTo
        BY <1>4, <1>7, <3>1, <3>4 DEF NoSkip, TypeOK, DataKinds
      <4>3. RowsOfRecord(rows, idx, reader)
        <5>1. /\ idx \in Nat /\ reader \in Nat /\ Outcome \in Record /\ decoder \in Decoder
          BY <1>4, <1>7, <3>1, OutcomeFacts, SMTT(30) DEF Outcome, TypeOK
        <5> QED  BY <5>1, RecordRowsType
      <4>4. Outcome.kind # "eof"
        BY <3>1 DEF DataKinds
      <4> HIDE DEF rows
      <4>5. /\ Sorted(received')
            /\ \A n \in 1 .. Len(received') :
                 \/ received'[n].src < idx
                 \/ received'[n].src = idx /\ received'[n].rec < reader + 1
        BY <1>11, <2>1, <3>1, <4>1, <4>2, <4>3, <4>4
      <4>6. \A n \in 1 .. Len(received') : Behind(received[n])'
        BY <1>2, <3>1, <3>2, <4>1, <4>5 DEF Behind
      <4>7. pc' \in {"pulling", "batch"}
        BY <4>1 DEF AfterRows
      <4> QED  BY <1>2, <1>3, <2>1, <3>2, <4>1, <4>5, <4>6, <4>7 DEF OrderInv
    <3> QED  BY <3>3, <3>4
  <2>6. CASE CleanEndOfSource
    <3>1. /\ reader # 0 /\ reader' = 0 /\ idx' = idx + 1 /\ skipTo' = 0 /\ pc = "pulling"
          /\ pc' = pc /\ pending' = pending
      BY <2>6 DEF CleanEndOfSource, Advance, NoSkip
    <3>2. received' = received
      BY <2>1, <3>1 DEF received
    <3>3. ASSUME NEW n \in 1 .. Len(received), Behind(received[n]) PROVE Behind(received[n])'
      <4>1. received[n].src \in Nat /\ idx \in Nat
        BY <1>4, <1>6, SMTT(30) DEF Row, TypeOK
      <4>2. received[n].src < idx + 1
        BY <3>3, <4>1 DEF Behind
      <4> QED  BY <3>1, <3>2, <4>2 DEF Behind
    <3> QED  BY <1>9, <2>1, <3>1, <3>2, <3>3
  <2>7. CASE RecoverableError \/ TornError
    <3>1. /\ CaptureError /\ reader # 0 /\ ~strict /\ pc = "pulling" /\ Outcome.kind \in ErrorKinds
          /\ offset' = Outcome.end /\ skipTo' = 0 /\ pc' \in {"pulling", "batch"}
      BY <2>7 DEF RecoverableError, TornError, CaptureError, Advance, NoSkip, AfterRows
    <3>2. RecoverableError => skipTo = 0
      <4>1. SUFFICES ASSUME RecoverableError PROVE transport = "stdio"
        BY <1>3 DEF OrderInv
      <4>2. Outcome.kind = "bad"
        BY <4>1 DEF RecoverableError
      <4>3. idx \in DOMAIN sources /\ reader \in DOMAIN sources[idx]
        <5>1. sources \in Seq(Seq(Record)) /\ sources[idx] \in Seq(Record)
          BY <1>4, <1>7, <3>1, InputsAssumption
        <5> QED  BY <1>7, <3>1, <5>1
      <4>4. Has(sources, {"bad"})
        BY <4>2, <4>3 DEF Has, Outcome
      <4> QED  BY <1>4, <3>1, <4>4 DEF NoneReread
    <3>3. idx \in Nat /\ reader \in Nat /\ skipTo \in Nat /\ Outcome.end \in Nat
      BY <1>4, <1>7, <3>1 DEF TypeOK, ErrorKinds
    <3>4. CASE skipTo = 0 \/ Outcome.end > skipTo
      <4> DEFINE rows == <<ErrorRow(idx, reader)>>
      <4>1. RowsOfRecord(rows, idx, reader)
        BY <3>3, ErrorRowType
      <4>2. pending' = pending \o rows
        <5>1. pending' = Append(pending, ErrorRow(idx, reader))
          BY <3>1, <3>4 DEF CaptureError, NoSkip
        <5> QED  BY <1>5, <5>1
      <4> HIDE DEF rows
      <4>3. Outcome.kind # "eof"
        BY <3>1 DEF ErrorKinds
      <4>4. /\ Sorted(received')
            /\ \A n \in 1 .. Len(received') :
                 \/ received'[n].src < idx
                 \/ received'[n].src = idx /\ received'[n].rec < reader + 1
        BY <1>11, <2>1, <3>1, <3>4, <4>1, <4>2, <4>3
      <4>5. CASE RecoverableError
        <5>1. reader' = reader + 1 /\ idx' = idx /\ reader' # 0
          BY <3>3, <4>5 DEF RecoverableError
        <5>2. offset' = EndAt(sources[idx'], reader' - 1)
          BY <3>1, <3>3, <5>1 DEF EndAt, Outcome
        <5>3. \A n \in 1 .. Len(received') : Behind(received[n])'
          BY <3>1, <4>4, <5>1 DEF Behind
        <5> QED  BY <1>2, <1>3, <2>1, <3>1, <4>4, <5>2, <5>3 DEF OrderInv
      <4>6. CASE TornError
        <5>1. reader' = 0 /\ idx' = idx + 1
          BY <4>6 DEF TornError, Advance
        <5>2. \A n \in 1 .. Len(received') : received'[n].src < idx'
          <6>1. \A n \in 1 .. Len(received') : received'[n] \in Row
            BY <4>4 DEF Sorted
          <6> QED  BY <3>3, <4>4, <5>1, <6>1 DEF Row
        <5>3. \A n \in 1 .. Len(received') : Behind(received[n])'
          BY <5>2 DEF Behind
        <5> QED  BY <1>2, <1>3, <2>1, <3>1, <4>4, <5>1, <5>3 DEF OrderInv
      <4> QED  BY <2>7, <4>5, <4>6
    <3>5. CASE ~ (skipTo = 0 \/ Outcome.end > skipTo)
      <4>1. pending' = pending /\ TornError
        BY <2>7, <3>1, <3>2, <3>5 DEF CaptureError, NoSkip
      <4>2. received' = received /\ reader' = 0 /\ idx' = idx + 1
        BY <2>1, <4>1 DEF received, TornError, Advance
      <4>3. ASSUME NEW n \in 1 .. Len(received), Behind(received[n]) PROVE Behind(received[n])'
        <5>1. received[n].src \in Nat
          BY <1>6 DEF Row
        <5>2. received[n].src < idx + 1
          BY <3>3, <4>3, <5>1 DEF Behind
        <5> QED  BY <4>2, <5>2 DEF Behind
      <4> QED  BY <1>9, <2>1, <3>1, <4>2, <4>3
    <3> QED  BY <3>4, <3>5
  <2> QED  BY <2>2, <2>3, <2>4, <2>5, <2>6, <2>7 DEF Pull
<1>13. CASE ScanEmit
  <2>1. /\ pc = "batch" /\ pc' = "idle" /\ pending' = <<>> /\ delivered' = received
        /\ UNCHANGED fields
        /\ token' = IF transport = "http" THEN [idx |-> idx, offset |-> offset] ELSE token
    BY <1>13 DEF ScanEmit, Emit, received
  <2>2. received' = received
    BY <1>5, <2>1 DEF received
  <2>3. ASSUME NEW n \in 1 .. Len(received) PROVE Behind(received[n]) /\ Behind(received[n])'
    BY <1>2, <1>3, <2>1, <2>2 DEF OrderInv, Behind, fields
  <2>4. skipTo = 0
    BY <1>3, <2>1 DEF OrderInv
  <2>5. ASSUME transport = "http", NEW n \in 1 .. Len(received)
        PROVE  Covered(received[n])'
    <3> DEFINE row == received[n]
               source == sources[idx]
    <3>1. token' = [idx |-> idx, offset |-> offset] /\ token'.idx = idx /\ token'.offset = offset
      BY <2>1, <2>5
    <3>2. token' # NoToken
      BY <1>4, <3>1 DEF NoToken, TypeOK
    <3>3. CASE row.src < idx
      BY <2>2, <3>1, <3>2, <3>3 DEF Covered
    <3>4. CASE row.src = idx /\ reader # 0 /\ row.rec < reader
      <4>1. row.rec \in DOMAIN source /\ DOMAIN source = 1 .. Len(source)
        <5>1. AllGenuine(sources, received)
          BY <1>1, ConcatGenuine DEF FaithInv, received
        <5>2. source \in Seq(Record)
          BY <1>4, <1>7, <3>4, InputsAssumption
        <5> QED  BY <3>4, <5>1, <5>2 DEF AllGenuine, Genuine
      <4>2. /\ reader \in 1 .. Len(source) /\ Len(source) \in Nat /\ idx \in 1 .. Len(sources)
            /\ offset = EndAt(source, reader - 1)
        BY <1>3, <1>7, <3>4 DEF OrderInv
      <4>3. row.rec \in 1 .. Len(source) - 1 /\ reader - 1 \in 1 .. Len(source) - 1
            /\ (row.rec # reader - 1 => row.rec \in 0 .. (reader - 1) - 1)
        BY <3>4, <4>1, <4>2
      <4>4. EndAt(source, row.rec) <= offset
        <5>1. CASE row.rec = reader - 1
          <6>1. 0 \in 0 .. (reader - 1) - 1
            BY <4>3
          <6>2. EndAt(source, reader - 1) \in Nat
            BY <1>4, <4>2, <4>3, <6>1, OffsetsGrow
          <6> QED  BY <4>2, <5>1, <6>2
        <5>2. CASE row.rec # reader - 1
          <6>1. /\ EndAt(source, row.rec) \in Nat /\ EndAt(source, reader - 1) \in Nat
                /\ EndAt(source, row.rec) < EndAt(source, reader - 1)
            BY <1>4, <4>2, <4>3, <5>2, OffsetsGrow
          <6> QED  BY <4>2, <6>1
        <5> QED  BY <5>1, <5>2
      <4>5. UpTo(source, row, offset)
        BY <4>3, <4>4 DEF UpTo
      <4> HIDE DEF row, source
      <4>6. row.src = token'.idx /\ UpTo(source, row, token'.offset)
        BY <3>1, <3>4, <4>5
      <4>7. received'[n] = row /\ sources'[token'.idx] = source
        BY <1>2, <2>2, <3>1 DEF row, source
      <4> QED  BY <3>2, <4>6, <4>7 DEF Covered
    <3> QED  BY <2>3, <2>4, <3>3, <3>4 DEF Behind
  <2> QED  BY <1>2, <1>3, <2>1, <2>2, <2>3, <2>5 DEF OrderInv, fields
<1>14. CASE ScanEnded \/ UNCHANGED scanVars
  <2>1. UNCHANGED scanVars
    BY <1>14 DEF ScanEnded
  <2>2. OrderInv' <=> OrderInv
    BY <2>1 DEF scanVars, vars, OrderInv, received, Behind, Covered
  <2> QED  BY <1>3, <2>2
<1> QED  BY <1>8, <1>12, <1>13, <1>14 DEF ScanNext

\* Before the first request nothing is behind.
LEMMA InitOrder == ScanInit => ScanInv
<1> SUFFICES ASSUME ScanInit PROVE ScanInv
  OBVIOUS
<1>1. FaithInv
  BY InitIInv, EmptyGenuine DEF ScanInit, Init, FaithInv
<1>2. delivered = <<>> /\ pending = <<>> /\ received = <<>> /\ reader = 0 /\ skipTo = 0
  BY DEF ScanInit, Init, NoSkip, received
<1>3. Sorted(<<>>)
  BY DEF Sorted
<1> QED  BY <1>1, <1>2, <1>3 DEF ScanInv, OrderInv

\* No row twice and none out of order, across any number of responses: in every
\* strict or stdio scan, and over http wherever no source has a bad record.
THEOREM Ordered == ScanSpec => []InScanOrder
<1>1. ScanInv => InScanOrder
  <2> SUFFICES ASSUME ScanInv, NoneReread PROVE
                 \A m, n \in DOMAIN received : m < n => Precedes(received[m], received[n])
    BY DEF InScanOrder, NoneReread
  <2>1. Sorted(received)
    BY DEF ScanInv, OrderInv
  <2> QED  BY <2>1 DEF Sorted
<1> QED  BY <1>1, InitOrder, StepOrder, PTL DEF ScanSpec

---------------------------------------------------------------------------
(* No row lost: the dual of the invariant behind scan order *)

\* The scans NothingLost speaks of.
NoneDropped == strict \/ transport = "stdio" \/ ~Has(sources, {"torn"})

\* Every row of an outcome is among the rows; only the first `kept` sources
\* count.  (In a scan those are all sources; when files come and go, the ones
\* the first listing had.)
Arrived(kept, s, j, rows) == s <= kept => Range(RowsAt(sources, s, j)) \subseteq Range(rows)

\* Every outcome before one place of the sources, the record at it not included.
ArrivedBefore(kept, i, next, rows) ==
  \A s \in DOMAIN sources : \A j \in DOMAIN sources[s] :
    s < i \/ (s = i /\ j < next) => Arrived(kept, s, j, rows)

\* Every record of a source up to an offset.
ArrivedUpTo(kept, i, limit, rows) ==
  i \in DOMAIN sources =>
    \A j \in 1 .. Len(sources[i]) - 1 :
      EndAt(sources[i], j) <= limit => Arrived(kept, i, j, rows)

\* What the producer has passed, or will pass unread in the fast-forward, has
\* been received; what the token stands for has been delivered.
LossInv(kept) ==
  /\ pc # "failed" =>
       /\ ArrivedBefore(kept, idx, reader, received)
       /\ skipTo # 0 => ArrivedUpTo(kept, idx, skipTo, received)
  /\ token # NoToken =>
       /\ ArrivedBefore(kept, token.idx, 0, delivered)
       /\ ArrivedUpTo(kept, token.idx, token.offset, delivered)
  /\ transport = "stdio" => skipTo = 0
  /\ transport = "stdio" /\ done => idx > Len(sources)
  /\ pc = "finished" => idx > Len(sources) /\ pending = <<>>

LossLessInv ==
  /\ FaithInv /\ PositionInv
  /\ NoneDropped => \A kept \in Nat : LossInv(kept)

\* Rows put behind others are added to them.
LEMMA RangeOfConcat ==
  ASSUME NEW a \in Seq(Row), NEW b \in Seq(Row)
  PROVE  Range(a \o b) = Range(a) \cup Range(b)
<1>1. /\ a \o b \in Seq(Row) /\ Len(a \o b) = Len(a) + Len(b)
      /\ \A i \in 1 .. Len(a) + Len(b) :
           (a \o b)[i] = IF i <= Len(a) THEN a[i] ELSE b[i - Len(a)]
  BY ConcatProperties
<1>2. /\ Len(a) \in Nat /\ Len(b) \in Nat
      /\ DOMAIN a = 1 .. Len(a) /\ DOMAIN b = 1 .. Len(b) /\ DOMAIN (a \o b) = 1 .. Len(a) + Len(b)
  BY <1>1
<1>3. ASSUME NEW row \in Range(a) \cup Range(b) PROVE row \in Range(a \o b)
  <2>1. CASE row \in Range(a)
    <3>1. PICK i \in 1 .. Len(a) : row = a[i]
      BY <1>2, <2>1 DEF Range
    <3>2. i \in 1 .. Len(a) + Len(b) /\ (a \o b)[i] = row
      BY <1>1, <1>2, <3>1
    <3> QED  BY <1>2, <3>2 DEF Range
  <2>2. CASE row \in Range(b)
    <3>1. PICK i \in 1 .. Len(b) : row = b[i]
      BY <1>2, <2>2 DEF Range
    <3>2. i + Len(a) \in 1 .. Len(a) + Len(b) /\ (a \o b)[i + Len(a)] = row
      BY <1>1, <1>2, <3>1
    <3> QED  BY <1>2, <3>2 DEF Range
  <2> QED  BY <1>3, <2>1, <2>2
<1>4. ASSUME NEW row \in Range(a \o b) PROVE row \in Range(a) \cup Range(b)
  <2>1. PICK i \in 1 .. Len(a) + Len(b) : row = (a \o b)[i]
    BY <1>2, <1>4 DEF Range
  <2>2. CASE i <= Len(a)
    <3>1. i \in 1 .. Len(a) /\ row = a[i]
      BY <1>1, <1>2, <2>1, <2>2
    <3> QED  BY <1>2, <3>1 DEF Range
  <2>3. CASE ~ (i <= Len(a))
    <3>1. i - Len(a) \in 1 .. Len(b) /\ row = b[i - Len(a)]
      BY <1>1, <1>2, <2>1, <2>3
    <3> QED  BY <1>2, <3>1 DEF Range
  <2> QED  BY <1>2, <2>1, <2>2, <2>3
<1> QED  BY <1>3, <1>4

\* More rows: what had arrived has arrived.
LEMMA ArrivedGrows ==
  ASSUME NEW kept, NEW a, NEW b, Range(a) \subseteq Range(b), NEW i, NEW next, NEW limit
  PROVE  /\ ArrivedBefore(kept, i, next, a) => ArrivedBefore(kept, i, next, b)
         /\ ArrivedUpTo(kept, i, limit, a) => ArrivedUpTo(kept, i, limit, b)
BY DEF ArrivedBefore, ArrivedUpTo, Arrived

\* The place behind the outcome at hand, once its rows have arrived.
LEMMA ArrivedNext ==
  ASSUME NEW kept, IInv, reader # 0, NEW rows, ArrivedBefore(kept, idx, reader, rows), Arrived(kept, idx, reader, rows)
  PROVE  ArrivedBefore(kept, idx, reader + 1, rows)
<1>1. sources \in Seq(Seq(Record)) /\ Len(sources) \in Nat
  BY InputsAssumption DEF IInv
<1>2. idx \in 1 .. Len(sources) /\ reader \in 1 .. Len(sources[idx])
  BY <1>1 DEF IInv, TypeOK
<1> SUFFICES ASSUME NEW s \in DOMAIN sources, NEW j \in DOMAIN sources[s],
                    s < idx \/ (s = idx /\ j < reader + 1)
             PROVE  Arrived(kept, s, j, rows)
  BY DEF ArrivedBefore
<1>3. s \in Nat /\ j \in Nat
  <2>1. sources[s] \in Seq(Record)
    BY <1>1
  <2> QED  BY <1>1, <2>1
<1>4. CASE s = idx /\ j = reader
  BY <1>4
<1>5. CASE s < idx \/ (s = idx /\ j < reader)
  BY <1>5 DEF ArrivedBefore
<1> QED  BY <1>2, <1>3, <1>4, <1>5

\* Once the last outcome of a source has been passed, the source has.
LEMMA ArrivedSource ==
  ASSUME NEW kept, IInv, reader # 0, Outcome.kind \in EndKinds, NEW rows,
         ArrivedBefore(kept, idx, reader, rows), Arrived(kept, idx, reader, rows)
  PROVE  ArrivedBefore(kept, idx + 1, 0, rows)
<1>1. sources \in Inputs /\ sources \in Seq(Seq(Record)) /\ Len(sources) \in Nat
  BY InputsAssumption DEF IInv
<1>2. idx \in 1 .. Len(sources) /\ reader \in 1 .. Len(sources[idx])
  BY <1>1 DEF IInv, TypeOK
<1>3. reader = Len(sources[idx])
  BY <1>1, <1>2, OutcomeFacts DEF Outcome
<1>4. ArrivedBefore(kept, idx, reader + 1, rows)
  BY ArrivedNext
<1> SUFFICES ASSUME NEW s \in DOMAIN sources, NEW j \in DOMAIN sources[s],
                    s < idx + 1 \/ (s = idx + 1 /\ j < 0)
             PROVE  Arrived(kept, s, j, rows)
  BY DEF ArrivedBefore
<1>5. s \in Nat /\ j \in 1 .. Len(sources[s]) /\ Len(sources[s]) \in Nat
  <2>1. sources[s] \in Seq(Record)
    BY <1>1
  <2> QED  BY <1>1, <2>1
<1>6. s < idx \/ (s = idx /\ j < reader + 1)
  BY <1>2, <1>3, <1>5
<1> QED  BY <1>4, <1>6 DEF ArrivedBefore

\* A clean end stands for no row.
LEMMA EndHasNoRows ==
  ASSUME NEW s, NEW j, sources[s][j].kind = "eof", NEW rows, NEW kept
  PROVE  Arrived(kept, s, j, rows)
<1>1. RowsAt(sources, s, j) = <<>>
  BY DEF RowsAt, ErrorKinds, RecordRows
<1> QED  BY <1>1 DEF Arrived, Range

\* The first outcome of a source is the first after the sources before it.
LEMMA ArrivedStart ==
  ASSUME sources \in Inputs, NEW i, NEW next \in Nat, NEW rows, NEW kept
  PROVE  /\ ArrivedBefore(kept, i, 0, rows) <=> ArrivedBefore(kept, i, 1, rows)
         /\ ArrivedBefore(kept, i, next, rows) => ArrivedBefore(kept, i, 0, rows)
<1>1. sources \in Seq(Seq(Record))
  BY InputsAssumption
<1>2. \A s \in DOMAIN sources : \A j \in DOMAIN sources[s] : j \in Nat \ {0}
  <2> SUFFICES ASSUME NEW s \in DOMAIN sources, NEW j \in DOMAIN sources[s] PROVE j \in Nat \ {0}
    OBVIOUS
  <2>1. sources[s] \in Seq(Record)
    BY <1>1
  <2> QED  BY <2>1
<1> QED  BY <1>2 DEF ArrivedBefore

\* Nothing is before the first source.
LEMMA ArrivedNowhere ==
  ASSUME sources \in Inputs, NEW rows, NEW kept
  PROVE  ArrivedBefore(kept, 1, 0, rows)
<1>1. sources \in Seq(Seq(Record))
  BY InputsAssumption
<1>2. ASSUME NEW s \in DOMAIN sources, NEW j \in DOMAIN sources[s]
      PROVE  s \in Nat \ {0} /\ j \in Nat
  <2>1. sources[s] \in Seq(Record)
    BY <1>1
  <2> QED  BY <1>1, <2>1
<1> QED  BY <1>2 DEF ArrivedBefore

\* What has been read ends at or before the record read last.
LEMMA ArrivedUpToHere ==
  ASSUME NEW kept, IInv, PositionInv, reader # 0, NEW rows, ArrivedBefore(kept, idx, reader, rows)
  PROVE  ArrivedUpTo(kept, idx, offset, rows)
<1>1. sources \in Inputs /\ sources \in Seq(Seq(Record)) /\ Len(sources) \in Nat
  BY InputsAssumption DEF IInv
<1>2. idx \in 1 .. Len(sources) /\ reader \in 1 .. Len(sources[idx])
  BY <1>1 DEF IInv, TypeOK
<1>3. sources[idx] \in Seq(Record) /\ Len(sources[idx]) \in Nat
  BY <1>1, <1>2
<1> SUFFICES ASSUME NEW j \in 1 .. Len(sources[idx]) - 1, EndAt(sources[idx], j) <= offset
             PROVE  Arrived(kept, idx, j, rows)
  BY DEF ArrivedUpTo
<1>4. j < reader
  <2> SUFFICES ASSUME ~ (j < reader) PROVE FALSE
    OBVIOUS
  <2>1. reader - 1 \in 0 .. j - 1
    BY <1>2, <1>3
  <2>2. /\ EndAt(sources[idx], reader - 1) \in Nat /\ EndAt(sources[idx], j) \in Nat
        /\ EndAt(sources[idx], reader - 1) < EndAt(sources[idx], j)
    BY <1>1, <1>2, <2>1, OffsetsGrow
  <2> QED  BY <2>2 DEF PositionInv
<1> QED  BY <1>1, <1>2, <1>3, <1>4 DEF ArrivedBefore

\* A record the fast-forward passes has arrived, its end being at or before
\* the checkpoint.
LEMMA SkippedHasArrived ==
  ASSUME NEW kept, IInv, reader # 0, Outcome.kind \notin EndKinds, Outcome.end <= skipTo,
         NEW rows, ArrivedUpTo(kept, idx, skipTo, rows)
  PROVE  Arrived(kept, idx, reader, rows)
<1>1. sources \in Inputs /\ sources \in Seq(Seq(Record)) /\ Len(sources) \in Nat
  BY InputsAssumption DEF IInv
<1>2. idx \in 1 .. Len(sources) /\ reader \in 1 .. Len(sources[idx])
  BY <1>1 DEF IInv, TypeOK
<1>3. reader \in 1 .. Len(sources[idx]) - 1
  <2>1. reader # Len(sources[idx]) /\ Len(sources[idx]) \in Nat
    BY <1>1, <1>2, OutcomeFacts DEF Outcome
  <2> QED  BY <1>2, <2>1
<1>4. idx \in DOMAIN sources /\ EndAt(sources[idx], reader) <= skipTo
  BY <1>1, <1>2 DEF EndAt, Outcome
<1> QED  BY <1>3, <1>4 DEF ArrivedUpTo

\* No step passes a row by, or a token that leaves one out.
LEMMA StepLoss ==
  ASSUME NEW kept \in Nat, FaithInv, PositionInv, NoneDropped, LossInv(kept), [ScanNext]_scanVars
  PROVE  LossInv(kept)'
<1>1. FaithInv /\ FaithInv' /\ PositionInv /\ PositionInv'
  BY StepFaith, ScanStep, StepPosition DEF FaithInv
<1>2. sources' = sources /\ strict' = strict /\ transport' = transport
  BY ScanStep DEF Next, vars, Request, Pull, Emit, Ended, OpenCurrent, OpenFails, Exhausted,
     ReadRecord, CleanEndOfSource, StrictError, RecoverableError, TornError, CaptureError, bound
<1>3. LossInv(kept)
  OBVIOUS
<1>4. IInv /\ PositionInv /\ TypeOK
  BY <1>1 DEF FaithInv, IInv
<1>5. /\ sources \in Inputs /\ Len(sources) \in Nat
      /\ idx \in Nat /\ reader \in Nat /\ offset \in Nat /\ skipTo \in Nat
      /\ delivered \in Seq(Row) /\ pending \in Seq(Row) /\ received \in Seq(Row)
  <2>1. delivered \in Seq(Row) /\ pending \in Seq(Row)
    BY <1>1 DEF FaithInv, AllGenuine
  <2> QED  BY <1>4, <2>1, InputsAssumption, ConcatProperties DEF IInv, TypeOK, received
\* The invariant of the next state, from its parts over the unchanged sources.
<1>6. ASSUME pc' # "failed" =>
               /\ ArrivedBefore(kept, idx', reader', received')
               /\ skipTo' # 0 => ArrivedUpTo(kept, idx', skipTo', received'),
             token' # NoToken =>
               /\ ArrivedBefore(kept, token'.idx, 0, delivered')
               /\ ArrivedUpTo(kept, token'.idx, token'.offset, delivered'),
             transport = "stdio" => skipTo' = 0 /\ (done' => idx' > Len(sources)),
             pc' = "finished" => idx' > Len(sources) /\ pending' = <<>>
      PROVE  LossInv(kept)'
  BY <1>2, <1>6 DEF LossInv, ArrivedBefore, ArrivedUpTo, Arrived
\* A step that hands nothing out and ends nothing.
<1>7. ASSUME UNCHANGED <<token, delivered, done>>, pc' # "finished",
             pc' # "failed" =>
               /\ ArrivedBefore(kept, idx', reader', received')
               /\ skipTo' # 0 => ArrivedUpTo(kept, idx', skipTo', received'),
             transport = "stdio" => skipTo' = 0, done => idx' >= idx
      PROVE  LossInv(kept)'
  <2>1. idx' \in Nat
    BY <1>1, <1>2, <1>5 DEF FaithInv, IInv, TypeOK
  <2> QED  BY <1>3, <1>5, <1>6, <1>7, <2>1 DEF LossInv
<1>8. CASE ScanRequest
  <2>1. /\ pc = "idle" /\ pending = <<>> /\ UNCHANGED <<pending, token, delivered>>
        /\ pc' = IF done' THEN "finished" ELSE "pulling"
        /\ (transport = "http" => Rebuild(sources)) /\ (transport # "http" => UNCHANGED fields)
    BY <1>4, <1>8 DEF ScanRequest, Request, PositionInv
  <2>2. received = delivered /\ received' = delivered
    BY <1>5, <2>1, ConcatProperties DEF received
  <2>3. CASE transport = "http"
    <3>1. IF token = NoToken THEN Position(1, FALSE, NoSkip)
          ELSE Position(token.idx, token.idx > Len(sources), token.offset)
      BY <1>4, <1>5, <2>1, <2>3, RebuildPosition
    <3>2. CASE token = NoToken
      <4>1. idx' = 1 /\ reader' = 0 /\ skipTo' = 0 /\ done' = FALSE
        BY <3>1, <3>2 DEF Position, NoSkip
      <4> QED  BY <1>5, <1>6, <2>1, <2>3, <3>2, <4>1, ArrivedNowhere
    <3>3. CASE token # NoToken
      <4>1. /\ idx' = token.idx /\ reader' = 0 /\ skipTo' = token.offset
            /\ done' = (token.idx > Len(sources))
        BY <3>1, <3>3 DEF Position
      <4>2. /\ ArrivedBefore(kept, token.idx, 0, delivered)
            /\ ArrivedUpTo(kept, token.idx, token.offset, delivered)
        BY <1>3, <3>3 DEF LossInv
      <4> QED  BY <1>6, <2>1, <2>2, <2>3, <4>1, <4>2
    <3> QED  BY <3>2, <3>3
  <2>4. CASE transport # "http"
    <3>1. UNCHANGED <<idx, reader, skipTo, done>>
      BY <2>1, <2>4 DEF fields
    <3>2. transport = "stdio"
      BY <1>4, <2>4 DEF TypeOK
    <3> QED  BY <1>3, <1>6, <2>1, <2>2, <3>1, <3>2 DEF LossInv
  <2> QED  BY <2>3, <2>4
\* Rows appended from the outcome at hand: all before the next has arrived.
<1>9. ASSUME reader # 0, pc # "failed", delivered' = delivered,
             NEW rows \in Seq(Row), rows = RowsAt(sources, idx, reader), pending' = pending \o rows
      PROVE  ArrivedBefore(kept, idx, reader, received') /\ Arrived(kept, idx, reader, received')
  <2>1. received' = received \o rows
    <3>1. received' = delivered \o (pending \o rows)
      BY <1>9 DEF received
    <3>2. delivered \in Seq(Row) /\ pending \in Seq(Row) /\ rows \in Seq(Row)
      BY <1>5, <1>9
    <3>3. delivered \o (pending \o rows) = (delivered \o pending) \o rows
      BY <3>2, RowsAssociate
    <3> QED  BY <3>1, <3>3 DEF received
  <2>2. Range(received') = Range(received) \cup Range(rows)
    BY <1>5, <2>1, RangeOfConcat
  <2>3. ArrivedBefore(kept, idx, reader, received)
    BY <1>3, <1>9 DEF LossInv
  <2>4. ArrivedBefore(kept, idx, reader, received')
    BY <2>2, <2>3, ArrivedGrows
  <2> QED  BY <1>9, <2>2, <2>4 DEF Arrived
<1>10. CASE ScanPull
  <2> USE <1>10 DEF ScanPull
  <2>1. delivered' = delivered
    OBVIOUS
  <2>2. CASE OpenCurrent
    <3>1. /\ reader = 0 /\ reader' = 1 /\ pc = "pulling" /\ pc' = pc
          /\ UNCHANGED <<idx, skipTo, pending, token, done>>
      BY <2>2 DEF OpenCurrent
    <3>2. received' = received
      BY <2>1, <3>1 DEF received
    <3>3. ArrivedBefore(kept, idx, 1, received)
      BY <1>3, <1>5, <3>1, ArrivedStart DEF LossInv
    <3> QED  BY <1>3, <1>5, <1>7, <2>1, <3>1, <3>2, <3>3 DEF LossInv
  <2>3. CASE OpenFails \/ StrictError
    <3>1. pc' = "failed" /\ UNCHANGED <<idx, skipTo, token, done>>
      BY <2>3 DEF OpenFails, StrictError, fields
    <3> QED  BY <1>3, <1>5, <1>7, <2>1, <3>1 DEF LossInv
  <2>4. CASE Exhausted
    <3>1. /\ idx > Len(sources) /\ pc = "pulling" /\ pc' # "failed"
          /\ (pc' = "finished" => pending = <<>>)
          /\ UNCHANGED <<idx, reader, skipTo, pending, token>>
      BY <2>4 DEF Exhausted
    <3>2. received' = received
      BY <2>1, <3>1 DEF received
    <3> QED  BY <1>3, <1>6, <2>1, <3>1, <3>2 DEF LossInv
  <2>5. CASE ReadRecord
    <3>1. /\ reader # 0 /\ pc = "pulling" /\ Outcome.kind \in DataKinds
          /\ offset' = Outcome.end /\ reader' = reader + 1 /\ UNCHANGED <<idx, done, token>>
      BY <2>5 DEF ReadRecord
    <3>2. CASE skipTo # NoSkip /\ offset' <= skipTo
      <4>1. UNCHANGED <<skipTo, pending, pc>> /\ received' = received
        BY <2>1, <2>5, <3>2 DEF ReadRecord, received
      <4>2. ArrivedBefore(kept, idx, reader, received) /\ ArrivedUpTo(kept, idx, skipTo, received)
        BY <1>3, <3>1, <3>2 DEF LossInv, NoSkip
      <4>3. Arrived(kept, idx, reader, received)
        BY <1>4, <3>1, <3>2, <4>2, SkippedHasArrived DEF DataKinds, EndKinds
      <4>4. ArrivedBefore(kept, idx, reader + 1, received)
        BY <1>4, <3>1, <4>2, <4>3, ArrivedNext
      <4> QED  BY <1>3, <1>5, <1>7, <2>1, <3>1, <4>1, <4>2, <4>4 DEF LossInv
    <3>3. CASE ~ (skipTo # NoSkip /\ offset' <= skipTo)
      <4> DEFINE rows == RecordRows(idx, reader, Outcome, decoder)
      <4>1. skipTo' = 0 /\ pc' = AfterRows(pending') /\ pending' = pending \o rows
        BY <2>5, <3>3 DEF ReadRecord, NoSkip
      <4>2. rows \in Seq(Row) /\ rows = RowsAt(sources, idx, reader)
        BY <1>4, <3>1, CoreOfIInv, RowsOfOutcome DEF AllGenuine
      <4> HIDE DEF rows
      <4>3. ArrivedBefore(kept, idx, reader, received') /\ Arrived(kept, idx, reader, received')
        BY <1>9, <2>1, <3>1, <4>1, <4>2
      <4>4. ArrivedBefore(kept, idx, reader + 1, received')
        BY <1>4, <3>1, <4>3, ArrivedNext
      <4> QED  BY <1>5, <1>7, <2>1, <3>1, <4>1, <4>4 DEF AfterRows
    <3> QED  BY <3>2, <3>3
  <2>6. CASE CleanEndOfSource
    <3>1. /\ reader # 0 /\ reader' = 0 /\ idx' = idx + 1 /\ skipTo' = 0 /\ pc = "pulling"
          /\ Outcome.kind = "eof" /\ UNCHANGED <<pc, pending, done, token>>
      BY <2>6 DEF CleanEndOfSource, Advance, NoSkip
    <3>2. received' = received
      BY <2>1, <3>1 DEF received
    <3>3. ArrivedBefore(kept, idx, reader, received) /\ Arrived(kept, idx, reader, received)
      BY <1>3, <3>1, EndHasNoRows DEF LossInv, Outcome
    <3>4. ArrivedBefore(kept, idx + 1, 0, received)
      BY <1>4, <3>1, <3>3, ArrivedSource DEF EndKinds
    <3> QED  BY <1>5, <1>7, <2>1, <3>1, <3>2, <3>4
  <2>7. CASE RecoverableError \/ TornError
    <3>1. /\ CaptureError /\ reader # 0 /\ ~strict /\ pc = "pulling" /\ Outcome.kind \in ErrorKinds
          /\ offset' = Outcome.end /\ skipTo' = 0 /\ pc' \in {"pulling", "batch"}
          /\ UNCHANGED <<done, token>>
      BY <2>7 DEF RecoverableError, TornError, CaptureError, Advance, NoSkip, AfterRows
    <3>2. <<ErrorRow(idx, reader)>> = RowsAt(sources, idx, reader) /\ ErrorRow(idx, reader) \in Row
      <4>1. idx \in Nat /\ reader \in Nat
        BY <1>5
      <4> QED  BY <1>4, <3>1, <4>1, CoreOfIInv, RowsOfOutcome, ErrorRowType
    <3>3. /\ TornError => skipTo = 0
          /\ RecoverableError => Outcome.kind = "bad"
      <4>1. TornError => Has(sources, {"torn"})
        BY <1>4, <3>1, CapturedIsThere DEF TornError
      <4> QED  BY <1>3, <3>1, <4>1 DEF RecoverableError, LossInv, NoneDropped
    <3>4. ArrivedBefore(kept, idx, reader, received') /\ Arrived(kept, idx, reader, received')
      <4>1. CASE skipTo = 0 \/ offset' > skipTo
        <5>1. pending' = pending \o <<ErrorRow(idx, reader)>>
          <6>1. pending' = Append(pending, ErrorRow(idx, reader))
            BY <3>1, <4>1 DEF CaptureError, NoSkip
          <6> QED  BY <1>5, <6>1
        <5> DEFINE rows == <<ErrorRow(idx, reader)>>
        <5>2. rows \in Seq(Row) /\ rows = RowsAt(sources, idx, reader) /\ pending' = pending \o rows
          BY <3>2, <5>1
        <5> HIDE DEF rows
        <5> QED  BY <1>9, <2>1, <3>1, <5>2
      <4>2. CASE ~ (skipTo = 0 \/ offset' > skipTo)
        <5>1. RecoverableError /\ pending' = pending
          BY <2>7, <3>1, <3>3, <4>2 DEF CaptureError, NoSkip
        <5>2. received' = received
          BY <2>1, <5>1 DEF received
        <5>3. ArrivedBefore(kept, idx, reader, received) /\ ArrivedUpTo(kept, idx, skipTo, received)
          BY <1>3, <3>1, <4>2 DEF LossInv
        <5>4. Outcome.kind \notin EndKinds /\ Outcome.end \in Nat
          <6>1. Outcome.kind = "bad"
            BY <3>3, <5>1
          <6>2. idx \in 1 .. Len(sources) /\ reader \in 1 .. Len(sources[idx])
            BY <1>4, <1>5, <3>1 DEF TypeOK
          <6> QED  BY <1>5, <6>1, <6>2, OutcomeFacts DEF Outcome, EndKinds
        <5>5. Arrived(kept, idx, reader, received)
          BY <1>4, <1>5, <3>1, <4>2, <5>3, <5>4, SkippedHasArrived
        <5> QED  BY <5>2, <5>3, <5>5
      <4> QED  BY <4>1, <4>2
    <3>5. CASE RecoverableError
      <4>1. reader' = reader + 1 /\ idx' = idx
        BY <3>5 DEF RecoverableError
      <4>2. ArrivedBefore(kept, idx, reader + 1, received')
        BY <1>4, <3>1, <3>4, ArrivedNext
      <4> QED  BY <1>5, <1>7, <2>1, <3>1, <4>1, <4>2
    <3>6. CASE TornError
      <4>1. reader' = 0 /\ idx' = idx + 1 /\ Outcome.kind \in EndKinds
        BY <3>6 DEF TornError, Advance, EndKinds
      <4>2. ArrivedBefore(kept, idx + 1, 0, received')
        BY <1>4, <3>1, <3>4, <4>1, ArrivedSource
      <4> QED  BY <1>5, <1>7, <2>1, <3>1, <4>1, <4>2
    <3> QED  BY <2>7, <3>5, <3>6
  <2> QED  BY <2>2, <2>3, <2>4, <2>5, <2>6, <2>7 DEF Pull
<1>11. CASE ScanEmit
  <2>1. /\ pc = "batch" /\ pc' = "idle" /\ pending' = <<>> /\ delivered' = received
        /\ UNCHANGED <<idx, reader, skipTo, done, offset>>
        /\ token' = IF transport = "http" THEN [idx |-> idx, offset |-> offset] ELSE token
    BY <1>11 DEF ScanEmit, Emit, received, fields
  <2>2. received' = received
    BY <1>5, <2>1, ConcatProperties DEF received
  <2>3. ArrivedBefore(kept, idx, reader, received) /\ ArrivedBefore(kept, idx, 0, received)
    BY <1>3, <1>5, <2>1, ArrivedStart DEF LossInv
  <2>4. ASSUME transport = "http" PROVE ArrivedUpTo(kept, idx, offset, received)
    <3>1. CASE reader # 0
      BY <1>4, <2>3, <3>1, ArrivedUpToHere
    <3>2. CASE reader = 0
      <4>1. NoneTorn
        BY <2>4 DEF NoneDropped, NoneTorn
      <4>2. idx \notin DOMAIN sources
        <5>1. sources \in Seq(Seq(Record))
          BY <1>5, InputsAssumption
        <5> QED  BY <1>4, <1>5, <2>1, <3>2, <4>1, <5>1 DEF PositionInv
      <4> QED  BY <4>2 DEF ArrivedUpTo
    <3> QED  BY <3>1, <3>2
  <2>5. CASE transport = "http"
    <3>1. token'.idx = idx /\ token'.offset = offset
      BY <2>1, <2>5
    <3> QED  BY <1>3, <1>6, <2>1, <2>2, <2>3, <2>4, <2>5, <3>1 DEF LossInv
  <2>6. CASE transport # "http"
    <3>1. token' # NoToken => /\ ArrivedBefore(kept, token'.idx, 0, delivered')
                              /\ ArrivedUpTo(kept, token'.idx, token'.offset, delivered')
      <4>1. Range(delivered) \subseteq Range(received)
        BY <1>5, RangeOfConcat DEF received
      <4>2. token' = token /\ delivered' = received
        BY <2>1, <2>6
      <4> QED  BY <1>3, <4>1, <4>2, ArrivedGrows DEF LossInv
    <3> QED  BY <1>3, <1>6, <2>1, <2>2, <2>3, <3>1 DEF LossInv
  <2> QED  BY <2>5, <2>6
<1>12. CASE ScanEnded \/ UNCHANGED scanVars
  <2>1. UNCHANGED scanVars
    BY <1>12 DEF ScanEnded
  <2>2. LossInv(kept)' <=> LossInv(kept)
    BY <2>1 DEF scanVars, vars, LossInv, received, ArrivedBefore, ArrivedUpTo, Arrived
  <2> QED  BY <1>3, <2>2
<1> QED  BY <1>8, <1>10, <1>11, <1>12 DEF ScanNext

\* The same of all sources.
LEMMA StepLossLess == LossLessInv /\ [ScanNext]_scanVars => LossLessInv'
<1> SUFFICES ASSUME LossLessInv, [ScanNext]_scanVars PROVE LossLessInv'
  OBVIOUS
<1>1. FaithInv /\ FaithInv' /\ PositionInv /\ PositionInv'
  BY StepFaith, ScanStep, StepPosition DEF LossLessInv, FaithInv
<1>2. sources' = sources /\ strict' = strict /\ transport' = transport
  BY ScanStep DEF Next, vars, Request, Pull, Emit, Ended, OpenCurrent, OpenFails, Exhausted,
     ReadRecord, CleanEndOfSource, StrictError, RecoverableError, TornError, CaptureError, bound
<1>3. ASSUME NoneDropped, NEW kept \in Nat PROVE LossInv(kept)'
  <2>1. LossInv(kept)
    BY <1>3 DEF LossLessInv
  <2> QED  BY <1>1, <1>3, <2>1, StepLoss
<1> QED  BY <1>1, <1>2, <1>3 DEF LossLessInv, NoneDropped

\* Before the first request nothing has been passed.
LEMMA InitLoss == ScanInit => LossLessInv
<1> SUFFICES ASSUME ScanInit PROVE LossLessInv
  OBVIOUS
<1>1. FaithInv /\ PositionInv /\ sources \in Inputs
  BY InitIInv, InitCheckpoint, EmptyGenuine DEF ScanInit, Init, FaithInv, CheckpointInv
<1>2. ASSUME NEW kept \in Nat PROVE LossInv(kept)
  BY <1>1, ArrivedNowhere DEF ScanInit, Init, NoSkip, LossInv
<1> QED  BY <1>1, <1>2 DEF LossLessInv

\* A scan that ends normally has handed over everything.
LEMMA AllHasArrived == LossLessInv => NothingLost
<1> SUFFICES ASSUME LossLessInv, pc = "finished", NoneDropped PROVE AllRowsDelivered
  BY DEF NothingLost, NoneDropped
<1> DEFINE kept == Len(sources)
<1>1. kept \in Nat
  BY InputsAssumption DEF LossLessInv, FaithInv, IInv
<1>2. LossInv(kept)
  <2> HIDE DEF kept
  <2> QED  BY <1>1 DEF LossLessInv
<1>3. ArrivedBefore(kept, idx, reader, received) /\ idx > Len(sources) /\ pending = <<>>
  BY <1>2 DEF LossInv
<1>4. sources \in Inputs /\ sources \in Seq(Seq(Record)) /\ Len(sources) \in Nat /\ idx \in Nat
  BY InputsAssumption DEF LossLessInv, FaithInv, IInv, TypeOK
<1>5. received = delivered
  BY <1>3, ConcatProperties DEF received, LossLessInv, FaithInv, AllGenuine
<1>6. \A s \in DOMAIN sources : s < idx /\ s <= kept
  BY <1>3, <1>4
<1> QED  BY <1>3, <1>5, <1>6 DEF AllRowsDelivered, ArrivedBefore, Arrived

\* No row is lost across any number of batches, resumes and captured errors:
\* in every strict or stdio scan, and over http wherever no source is torn.
THEOREM Lossless == ScanSpec => []NothingLost
BY InitLoss, StepLossLess, AllHasArrived, PTL DEF ScanSpec
---------------------------------------------------------------------------
(* A strict scan reports no error row *)

NoErrors(rows) == \A n \in DOMAIN rows : rows[n].type # "error"

ErrorFree == strict => NoErrors(delivered) /\ NoErrors(pending)

\* No row of a parsed record is an error row.
LEMMA RecordHasNoErrors ==
  ASSUME NEW s, NEW j, NEW record \in Record, NEW view
  PROVE  NoErrors(RecordRows(s, j, record, view))
<1>1. CASE record.kind = "rib"
  <2> DEFINE hits == Ascending(Resolved(record.refs, view.table))
  <2>1. RecordRows(s, j, record, view)
          = [n \in DOMAIN hits |->
               RowAt(s, j, hits[n], "announce", view.table[record.refs[hits[n]]], view.view)]
    BY <1>1 DEF RecordRows
  <2> HIDE DEF hits
  <2> QED  BY <2>1 DEF NoErrors, RowAt
<1>2. CASE record.kind \in {"msg", "dump"}
  <2>1. \A n \in DOMAIN record.elems : record.elems[n] \in Elems
    <3>1. record \in Message \/ record \in TableDump
      BY <1>2 DEF Record, Parsed, PeerIndexTable, RibEntries, Message, TableDump, StateChange,
                  Recoverable, CleanEnd, Torn
    <3>2. record.elems \in Seq(Elems)
      <4>1. <<"announce">> \in Seq(Elems)
        BY DEF Elems
      <4> QED  BY <3>1, <4>1 DEF Message, TableDump
    <3> QED  BY <3>2
  <2>2. RecordRows(s, j, record, view)
          = [n \in DOMAIN record.elems |-> RowAt(s, j, n, record.elems[n], record.peer, view.view)]
    BY <1>2 DEF RecordRows
  <2> QED  BY <2>1, <2>2 DEF NoErrors, RowAt, Elems
<1>3. CASE record.kind = "state"
  <2>1. RecordRows(s, j, record, view) = <<RowAt(s, j, 1, "state_change", record.peer, view.view)>>
    BY <1>3 DEF RecordRows
  <2> QED  BY <2>1 DEF NoErrors, RowAt
<1>4. CASE record.kind \notin {"rib", "msg", "dump", "state"}
  <2>1. RecordRows(s, j, record, view) = <<>>
    BY <1>4 DEF RecordRows
  <2> QED  BY <2>1 DEF NoErrors
<1> QED  BY <1>1, <1>2, <1>3, <1>4

\* Rows of two batches are error rows only if they are in one of them.
LEMMA ConcatHasNoErrors ==
  ASSUME NEW a \in Seq(Row), NEW b \in Seq(Row), NoErrors(a), NoErrors(b)
  PROVE  NoErrors(a \o b)
<1>1. \A row \in Range(a) \cup Range(b) : row.type # "error"
  BY DEF NoErrors, Range
<1>2. \A n \in DOMAIN (a \o b) : (a \o b)[n] \in Range(a) \cup Range(b)
  BY RangeOfConcat DEF Range
<1> QED  BY <1>1, <1>2 DEF NoErrors

\* A strict scan stops at an error instead of reporting it.
LEMMA StepErrorFree == FaithInv /\ ErrorFree /\ [ScanNext]_scanVars => ErrorFree'
<1> SUFFICES ASSUME FaithInv, ErrorFree, [ScanNext]_scanVars PROVE ErrorFree'
  OBVIOUS
<1>0. strict' = strict
  BY ScanStep DEF Next, vars, Request, Pull, Emit, Ended, OpenCurrent, OpenFails, Exhausted,
     ReadRecord, CleanEndOfSource, StrictError, RecoverableError, TornError, CaptureError, bound
<1> SUFFICES ASSUME strict PROVE NoErrors(delivered') /\ NoErrors(pending')
  BY <1>0 DEF ErrorFree
<1>1. /\ NoErrors(delivered) /\ NoErrors(pending) /\ NoErrors(<<>>)
      /\ delivered \in Seq(Row) /\ pending \in Seq(Row) /\ IInv
  BY DEF ErrorFree, NoErrors, FaithInv, AllGenuine
<1>2. CASE ScanRequest \/ ScanEnded \/ UNCHANGED scanVars
  BY <1>1, <1>2 DEF ScanRequest, Request, ScanEnded, scanVars, vars
<1>3. CASE ScanPull
  <2>1. delivered' = delivered
    BY <1>3 DEF ScanPull
  <2>2. CASE OpenCurrent \/ Exhausted \/ CleanEndOfSource
    BY <1>1, <2>1, <2>2 DEF OpenCurrent, Exhausted, CleanEndOfSource
  <2>3. CASE OpenFails \/ StrictError
    BY <1>1, <2>1, <2>3 DEF OpenFails, StrictError
  <2>4. CASE ReadRecord
    <3> DEFINE rows == RecordRows(idx, reader, Outcome, decoder)
    <3>1. reader # 0 /\ Outcome.kind \in DataKinds
      BY <2>4 DEF ReadRecord
    <3>2. Outcome \in Record
      <4>1. Len(sources) \in Nat /\ sources \in Inputs
        BY <1>1, InputsAssumption DEF IInv
      <4>2. idx \in 1 .. Len(sources) /\ reader \in 1 .. Len(sources[idx])
        BY <1>1, <3>1, <4>1 DEF IInv, TypeOK
      <4> QED  BY <4>1, <4>2, OutcomeFacts DEF Outcome
    <3>3. rows \in Seq(Row) /\ NoErrors(rows)
      BY <1>1, <3>1, <3>2, CoreOfIInv, RowsOfOutcome, RecordHasNoErrors DEF AllGenuine
    <3>4. pending' = pending \/ pending' = pending \o rows
      BY <2>4 DEF ReadRecord
    <3> HIDE DEF rows
    <3> QED  BY <1>1, <2>1, <3>3, <3>4, ConcatHasNoErrors
  <2>5. CASE RecoverableError \/ TornError
    BY <2>5 DEF RecoverableError, TornError, CaptureError
  <2> QED  BY <1>3, <2>2, <2>3, <2>4, <2>5 DEF ScanPull, Pull
<1>4. CASE ScanEmit
  BY <1>1, <1>4, ConcatHasNoErrors DEF ScanEmit, Emit
<1> QED  BY <1>2, <1>3, <1>4 DEF ScanNext

---------------------------------------------------------------------------
(* RowStream speaks of the same rows: its copies of the definitions agree *)

\* The listing of a set.
LEMMA SameAscending == \A S : Promise!Ascending(S) = Ascending(S)
BY DEF Promise!Ascending, Ascending, Promise!Cardinality, Cardinality

\* The rows of a record.
LEMMA SameRecordRows ==
  \A s, j, record, view : Promise!RecordRows(s, j, record, view) = RecordRows(s, j, record, view)
<1>1. \A refs, table : Promise!Resolved(refs, table) = Resolved(refs, table)
  BY DEF Promise!Resolved, Resolved
<1>2. \A s, j, k, type, peer, view :
        Promise!RowAt(s, j, k, type, peer, view) = RowAt(s, j, k, type, peer, view)
  BY DEF Promise!RowAt, RowAt
<1> QED  BY <1>1, <1>2, SameAscending DEF Promise!RecordRows, RecordRows

\* The decoder of one pass.
LEMMA SameDecoderAt == \A source, i : Promise!DecoderAt(source, i) = DecoderAt(source, i)
<1>1. \A k, source, i : Promise!IsLastPit(k, source, i) = IsLastPit(k, source, i)
  BY DEF Promise!IsLastPit, IsLastPit
<1>2. \A source, i : Promise!LastPit(source, i) = LastPit(source, i)
  BY <1>1 DEF Promise!LastPit, LastPit
<1>3. Promise!FreshDecoder = FreshDecoder
  BY DEF Promise!FreshDecoder, FreshDecoder
<1>4. \A view, record : Promise!Primed(view, record) = Primed(view, record)
  BY DEF Promise!Primed, Primed
<1> QED  BY <1>2, <1>3, <1>4 DEF Promise!DecoderAt, DecoderAt

\* The rows of one pass.
LEMMA SameRowsAt == \A input, s, j : Promise!RowsAt(input, s, j) = RowsAt(input, s, j)
<1>1. \A s, j : Promise!ErrorRow(s, j) = ErrorRow(s, j)
  BY DEF Promise!ErrorRow, ErrorRow, Promise!RowAt, RowAt
<1> QED  BY <1>1, SameRecordRows, SameDecoderAt
            DEF Promise!RowsAt, RowsAt, Promise!ErrorKinds, ErrorKinds

\* Hence the rows of an outcome, and those handed over.
LEMMA SameRowsOf ==
  /\ \A s, j : Promise!RowsOf(s, j) = Range(RowsAt(sources, s, j))
  /\ Promise!Delivered = Range(promised)
BY SameRowsAt DEF Promise!RowsOf, Promise!Delivered, Range
---------------------------------------------------------------------------
(* Every step of a scan is a step of RowStream, or a stutter *)

PromiseInv == ScanInv /\ LossLessInv /\ ErrorFree

\* All that a safe scan has received is whole: each outcome up to the last row.
LEMMA NoGapReceived ==
  ASSUME ScanInv, LossLessInv, NoneReread, NoneDropped, pc = "batch",
         NEW row \in Range(received), NEW s \in DOMAIN sources, NEW j \in DOMAIN sources[s],
         s < row.src \/ (s = row.src /\ j <= row.rec)
  PROVE  Range(RowsAt(sources, s, j)) \subseteq Range(received)
<1>1. OrderInv /\ \A kept \in Nat : LossInv(kept)
  BY DEF ScanInv, LossLessInv
<1>2. received \in Seq(Row)
  BY <1>1 DEF OrderInv, Sorted
<1>3. PICK n \in 1 .. Len(received) : row = received[n]
  BY <1>2 DEF Range
<1>4. skipTo = 0 /\ Behind(row) /\ \A kept \in Nat : ArrivedBefore(kept, idx, reader, received)
  BY <1>1, <1>3 DEF OrderInv, LossInv
<1>5. row.src \in Nat /\ row.rec \in Nat /\ s \in Nat /\ j \in Nat /\ idx \in Nat /\ reader \in Nat
  <2>1. row \in Row
    BY <1>2, <1>3
  <2>2. sources \in Seq(Seq(Record)) /\ idx \in Nat /\ reader \in Nat
    BY InputsAssumption DEF LossLessInv, FaithInv, IInv, TypeOK
  <2>3. sources[s] \in Seq(Record)
    BY <2>2
  <2> QED  BY <2>1, <2>2, <2>3 DEF Row
<1>6. s < idx \/ (s = idx /\ j < reader)
  BY <1>4, <1>5 DEF Behind
<1>7. ArrivedBefore(s, idx, reader, received)
  BY <1>4, <1>5
<1>8. Arrived(s, s, j, received)
  BY <1>6, <1>7 DEF ArrivedBefore
<1> QED  BY <1>5, <1>8 DEF Arrived

\* A batch of a safe scan is a delivery RowStream allows.
LEMMA EmitDelivers ==
  ASSUME PromiseInv, PromiseInv', ScanEmit, Safe
  PROVE  Promise!Deliver
<1>1. /\ pc = "batch" /\ pc' = "idle" /\ delivered' = received /\ UNCHANGED bound
      /\ delivered \in Seq(Row) /\ pending \in Seq(Row) /\ pending # <<>>
      /\ sources \in Seq(Seq(Record))
  <2>1. delivered \in Seq(Row) /\ pending \in Seq(Row) /\ sources \in Seq(Seq(Record))
    BY InputsAssumption DEF PromiseInv, ScanInv, FaithInv, AllGenuine, IInv
  <2> QED  BY <2>1 DEF ScanEmit, Emit, received, PromiseInv, LossLessInv, CheckpointInv, PositionInv
<1>2. sources' = sources /\ strict' = strict /\ Safe'
  BY <1>1 DEF Safe, bound
<1>3. NoneReread /\ NoneDropped
  BY DEF Safe, NoneReread, NoneDropped, Has, ErrorKinds
<1>4. promised = delivered /\ promised' = delivered' /\ status = "running" /\ status' = "running"
  BY <1>1, <1>2 DEF promised, status
<1>5. /\ Len(delivered') = Len(delivered) + Len(pending) /\ delivered' \in Seq(Row)
      /\ \A i \in 1 .. Len(delivered) : delivered'[i] = delivered[i]
  <2>1. /\ received \in Seq(Row) /\ Len(received) = Len(delivered) + Len(pending)
        /\ \A i \in 1 .. Len(delivered) + Len(pending) :
             received[i] = IF i <= Len(delivered) THEN delivered[i] ELSE pending[i - Len(delivered)]
    BY <1>1, ConcatProperties DEF received
  <2>2. Len(delivered) \in Nat /\ Len(pending) \in Nat
    BY <1>1
  <2> QED  BY <1>1, <2>1, <2>2
<1>6. Len(delivered') > Len(delivered) /\ SubSeq(delivered', 1, Len(delivered)) = delivered
  <2>1. Len(delivered) \in Nat /\ Len(pending) \in Nat \ {0}
    BY <1>1
  <2>2. SubSeq(delivered', 1, Len(delivered)) = delivered
    BY <1>1, <1>5, <2>1
  <2> QED  BY <1>5, <2>1, <2>2
<1>7. Promise!InOrder'
  <2>1. AllGenuine(sources, delivered') /\ Sorted(delivered')
    BY <1>2, <1>3 DEF PromiseInv, ScanInv, FaithInv, OrderInv, NoneReread, Safe, Has, ErrorKinds
  <2>2. DOMAIN delivered' = 1 .. Len(delivered')
    BY <1>5
  <2>3. \A n \in DOMAIN delivered' :
          delivered'[n] \in Range(RowsAt(sources, delivered'[n].src, delivered'[n].rec))
    BY <2>1, <2>2 DEF AllGenuine, Genuine
  <2>4. \A m, n \in DOMAIN delivered' : m < n => Precedes(delivered'[m], delivered'[n])
    BY <2>1, <2>2 DEF Sorted
  <2>5. \A s, j : Promise!RowsOf(s, j)' = Range(RowsAt(sources, s, j))
    BY <1>2, SameRowsAt DEF Promise!RowsOf, Range
  <2> QED  BY <1>4, <2>3, <2>4, <2>5 DEF Promise!InOrder, Promise!Precedes, Precedes
<1>8. Promise!NoGap'
  <2> DEFINE last == delivered'[Len(delivered')]
  <2>1. SUFFICES ASSUME delivered' # <<>>, NEW s \in DOMAIN sources, NEW j \in DOMAIN sources[s],
                        s < last.src \/ (s = last.src /\ j <= last.rec)
                 PROVE  Range(RowsAt(sources, s, j)) \subseteq Range(delivered')
    <3>1. \A s, j : Promise!RowsOf(s, j)' = Range(RowsAt(sources, s, j))
      BY <1>2, SameRowsAt DEF Promise!RowsOf, Range
    <3>2. Promise!Delivered' = Range(delivered')
      BY <1>4 DEF Promise!Delivered, Range
    <3>3. \A s, j : Promise!Before(s, j)'
                      = {o \in UNION {{t} \X DOMAIN sources[t] : t \in DOMAIN sources} :
                           o[1] < s \/ (o[1] = s /\ o[2] <= j)}
      BY <1>2 DEF Promise!Before
    <3> QED  BY <1>4, <2>1, <3>1, <3>2, <3>3 DEF Promise!NoGap
  <2>2. last \in Range(received)
    <3>1. received \in Seq(Row) /\ received # <<>> /\ last = received[Len(received)]
      BY <1>1, <1>5, <2>1
    <3>2. Len(received) \in DOMAIN received
      BY <3>1
    <3> QED  BY <3>1, <3>2 DEF Range
  <2>3. Range(RowsAt(sources, s, j)) \subseteq Range(received)
    BY <1>1, <1>3, <2>1, <2>2, NoGapReceived DEF PromiseInv
  <2> QED  BY <1>1, <2>3
<1>9. strict => \A n \in DOMAIN delivered' : delivered'[n].type # "error"
  BY <1>2 DEF PromiseInv, ErrorFree, NoErrors
<1> QED  BY <1>1, <1>2, <1>4, <1>6, <1>7, <1>8, <1>9 DEF Promise!Deliver

\* Step simulation.
LEMMA StepPromise ==
  PromiseInv /\ PromiseInv' /\ [ScanNext]_scanVars => [Promise!Next]_Promise!vars
<1> SUFFICES ASSUME PromiseInv, PromiseInv', [ScanNext]_scanVars
             PROVE  [Promise!Next]_Promise!vars
  OBVIOUS
<1>1. sources' = sources /\ strict' = strict /\ transport' = transport
  BY ScanStep DEF Next, vars, Request, Pull, Emit, Ended, OpenCurrent, OpenFails, Exhausted,
     ReadRecord, CleanEndOfSource, StrictError, RecoverableError, TornError, CaptureError, bound
<1>2. Safe' <=> Safe
  BY <1>1 DEF Safe
<1>3. CASE ~Safe
  <2>1. promised' = promised /\ status' = status
    BY <1>2, <1>3 DEF promised, status
  <2> QED  BY <1>1, <2>1 DEF Promise!vars
<1>4. ASSUME Safe, delivered' = delivered, pc \notin {"finished", "failed"}
      PROVE  [Promise!Next]_Promise!vars
  <2>1. promised' = promised /\ promised = delivered /\ status = "running"
    BY <1>2, <1>4 DEF promised, status
  <2>2. CASE pc' = "finished"
    <3>1. status' = "finished"
      BY <1>2, <1>4, <2>2 DEF status
    <3>2. AllRowsDelivered'
      <4>1. LossLessInv' => NothingLost'
        BY AllHasArrived, PTL
      <4> QED  BY <1>1, <1>4, <2>2, <4>1 DEF PromiseInv, NothingLost, Safe, Has, ErrorKinds
    <3>3. \A s \in DOMAIN sources : \A j \in DOMAIN sources[s] :
            Promise!RowsOf(s, j) \subseteq Promise!Delivered
      BY <1>1, <1>4, <2>1, <3>2, SameRowsOf DEF AllRowsDelivered
    <3>4. Promise!Finish
      BY <1>1, <2>1, <3>1, <3>3 DEF Promise!Finish
    <3> QED  BY <3>4 DEF Promise!Next
  <2>3. CASE pc' = "failed"
    <3>1. status' = "failed"
      BY <1>2, <1>4, <2>3 DEF status
    <3>2. Promise!Fail
      BY <1>1, <2>1, <3>1 DEF Promise!Fail
    <3> QED  BY <3>2 DEF Promise!Next
  <2>4. CASE pc' \notin {"finished", "failed"}
    <3>1. status' = "running"
      BY <2>4 DEF status
    <3> QED  BY <1>1, <2>1, <3>1 DEF Promise!vars
  <2> QED  BY <2>2, <2>3, <2>4
<1>5. CASE Safe /\ (ScanRequest \/ ScanPull)
  <2>1. delivered' = delivered /\ pc \in {"idle", "pulling"}
    BY <1>5 DEF ScanRequest, Request, ScanPull, Pull, OpenCurrent, OpenFails, Exhausted,
       ReadRecord, CleanEndOfSource, StrictError, RecoverableError, TornError, CaptureError
  <2> QED  BY <1>4, <1>5, <2>1
<1>6. CASE Safe /\ ScanEmit
  BY <1>6, EmitDelivers DEF Promise!Next
<1>7. CASE ScanEnded \/ UNCHANGED scanVars
  <2>1. UNCHANGED scanVars
    BY <1>7 DEF ScanEnded
  <2> QED  BY <1>1, <1>2, <2>1 DEF scanVars, vars, promised, status, Promise!vars
<1> QED  BY <1>3, <1>5, <1>6, <1>7 DEF ScanNext

\* A client that is promised one uninterrupted pass, in batches that are never
\* empty, gets it from every safe scan: strict, or over stdio, or of sources
\* without errors.
THEOREM PromiseKept == ScanSpec => KeepsPromise
<1>1. ScanInit => PromiseInv /\ Promise!Init
  <2> SUFFICES ASSUME ScanInit PROVE PromiseInv /\ Promise!Init
    OBVIOUS
  <2>1. ErrorFree
    BY DEF ScanInit, Init, ErrorFree, NoErrors
  <2>2. Promise!Init
    BY DEF ScanInit, Init, promised, status, Promise!Init
  <2> QED  BY <2>1, <2>2, InitOrder, InitLoss DEF PromiseInv
<1>2. PromiseInv /\ [ScanNext]_scanVars => PromiseInv'
  BY StepOrder, StepLossLess, StepErrorFree DEF PromiseInv, ScanInv
<1> QED  BY <1>1, <1>2, StepPromise, PTL DEF ScanSpec, KeepsPromise, Promise!Spec
=============================================================================
