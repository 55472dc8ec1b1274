---------------------------- MODULE MrtProducer ----------------------------
(***************************************************************************)
(* MrtProducer of reader.rs, the streaming reader of read_rib and          *)
(* read_updates, driven by the SDK over one of its two transports.         *)
(*                                                                         *)
(* stdio: one producer object lives for the whole scan and next_batch is   *)
(* called on it until it returns None.                                     *)
(* http: every response is made by a producer built afresh from the bind   *)
(* parameters; its position is restored from the token the previous        *)
(* response carried.                                                       *)
(*                                                                         *)
(* Each action is one turn of the loop of pull_batch, or one of the steps  *)
(* around it.  Sources are counted from 1 here (idx is 0-based in the      *)
(* code), and `reader` is 0 for None, else the number of the outcome       *)
(* next_record returns next.                                               *)
(***************************************************************************)
EXTENDS MrtStream

CONSTANTS
  Inputs,    \* the sequences of sources a scan may be bound to
  BatchRows  \* rows accumulated before a batch is emitted

ASSUME BatchRowsAssumption == BatchRows \in Nat \ {0}
ASSUME InputsAssumption ==
  \A sources \in Inputs :
    /\ sources \in Seq(Seq(Record))
    /\ \A s \in DOMAIN sources : IsSource(sources[s])

VARIABLES
  sources,    \* the bound sources, the same at every rebuild
  strict,     \* the `strict` option
  transport,  \* "stdio" or "http"
  idx, reader, decoder, offset, skipTo, done,  \* the fields of MrtProducer
  pending,    \* rows of the batch under construction
  token,      \* http: the resume token of the last response
  pc          \* where the scan stands

bound == <<sources, strict, transport>>
fields == <<idx, reader, decoder, offset, skipTo, done>>
vars == <<sources, strict, transport, idx, reader, decoder, offset, skipTo, done,
          pending, token, pc>>

NoToken == [idx |-> 0, offset |-> 0]
NoSkip == 0  \* skip_to is None (the code never holds Some(0))

\* The fields keep their types, and neither the index, the open reader nor the
\* token ever points past the sources or past the end of one.
TypeOK ==
  /\ strict \in BOOLEAN
  /\ transport \in {"stdio", "http"}
  /\ idx \in 1 .. Len(sources) + 1
  /\ reader \in Nat
  /\ reader # 0 => idx <= Len(sources) /\ reader \in 1 .. Len(sources[idx])
  /\ decoder \in Decoder
  /\ offset \in Nat
  /\ skipTo \in Nat
  /\ done \in BOOLEAN
  /\ pending \in Seq(Row)
  /\ token \in [idx : Nat, offset : Nat]
  /\ token = NoToken \/ token.idx \in 1 .. Len(sources) + 1
  /\ pc \in {"idle", "pulling", "batch", "finished", "failed"}

Init ==
  /\ sources \in Inputs
  /\ strict \in BOOLEAN
  /\ transport \in {"stdio", "http"}
  /\ idx = 1
  /\ reader = 0
  /\ decoder = FreshDecoder
  /\ offset = 0
  /\ skipTo = NoSkip
  /\ done = FALSE
  /\ pending = <<>>
  /\ token = NoToken
  /\ pc = "idle"

---------------------------------------------------------------------------
(* Asking for a batch *)

\* The last loop test of pull_batch: a full batch ends the call.
AfterRows(rows) == IF Len(rows) >= BatchRows THEN "batch" ELSE "pulling"

Position(i, isDone, skip) ==
  /\ idx' = i
  /\ reader' = 0
  /\ skipTo' = skip
  /\ done' = isDone

\* Mutant of RestoredIdx: the index is not cut.
RestoredUncut(list) == token.idx

\* The token's index, cut to the number of sources there are now.
RestoredIdx(list) == IF token.idx > Len(list) THEN Len(list) + 1 ELSE token.idx

\* Mutant of Rebuild: the token's offset is forgotten.
RebuildWithoutSkip(list) ==
  /\ decoder' = FreshDecoder
  /\ offset' = 0
  /\ IF token = NoToken
     THEN Position(1, FALSE, NoSkip)
     ELSE Position(RestoredIdx(list), RestoredIdx(list) > Len(list), NoSkip)

\* MrtProducer::new over the sources in list, then restore_resume when there is
\* a token.
Rebuild(list) ==
  /\ decoder' = FreshDecoder
  /\ offset' = 0
  /\ IF token = NoToken
     THEN Position(1, FALSE, NoSkip)
     ELSE Position(RestoredIdx(list), RestoredIdx(list) > Len(list), token.offset)

\* One call of next_batch: on the living producer, or on a rebuilt one.
Request ==
  /\ pc = "idle"
  /\ IF transport = "http" THEN Rebuild(sources) ELSE UNCHANGED fields
  /\ pc' = IF done' THEN "finished" ELSE "pulling"
  /\ UNCHANGED <<bound, pending, token>>

---------------------------------------------------------------------------
(* The loop of pull_batch *)

\* Mutant of OpenCurrent: no test for the end of the sources.
OpenPastEnd ==
  /\ pc = "pulling" /\ reader = 0
  /\ reader' = 1
  /\ decoder' = FreshDecoder
  /\ offset' = 0
  /\ UNCHANGED <<bound, idx, skipTo, done, pending, token, pc>>

\* Mutant of OpenCurrent: the decoder of the source before is kept.
OpenKeepingDecoder ==
  /\ pc = "pulling" /\ reader = 0 /\ idx <= Len(sources)
  /\ reader' = 1
  /\ offset' = 0
  /\ UNCHANGED <<bound, idx, decoder, skipTo, done, pending, token, pc>>

OpenCurrent ==
  /\ pc = "pulling" /\ reader = 0 /\ idx <= Len(sources)
  /\ reader' = 1
  /\ decoder' = FreshDecoder
  /\ offset' = 0
  /\ UNCHANGED <<bound, idx, skipTo, done, pending, token, pc>>

\* A source may be gone, unreachable, or fail its first read: the call returns
\* an error and the rows pending in it are dropped.
OpenFails ==
  /\ pc = "pulling" /\ reader = 0 /\ idx <= Len(sources)
  /\ pc' = "failed"
  /\ pending' = <<>>
  /\ UNCHANGED <<bound, fields, token>>

\* Mutant of Exhausted: the rows of a last, short batch are dropped.
ExhaustedDroppingRows ==
  /\ pc = "pulling" /\ reader = 0 /\ idx > Len(sources)
  /\ done' = TRUE
  /\ pc' = "finished"
  /\ UNCHANGED <<bound, idx, reader, decoder, offset, skipTo, pending, token>>

Exhausted ==
  /\ pc = "pulling" /\ reader = 0 /\ idx > Len(sources)
  /\ done' = TRUE
  /\ pc' = IF pending = <<>> THEN "finished" ELSE "batch"
  /\ UNCHANGED <<bound, idx, reader, decoder, offset, skipTo, pending, token>>

\* Mutant of Advance: the checkpoint of one source skips records of the next.
AdvanceKeepingSkip ==
  /\ reader' = 0
  /\ idx' = idx + 1
  /\ UNCHANGED skipTo

Advance ==
  /\ reader' = 0
  /\ idx' = idx + 1
  /\ skipTo' = NoSkip

Outcome == sources[idx][reader]

\* Mutant of ReadRecord: records of the fast-forward do not reach the decoder.
ReadRecordUnprimed ==
  /\ pc = "pulling" /\ reader # 0
  /\ Outcome.kind \in DataKinds
  /\ offset' = Outcome.end
  /\ reader' = reader + 1
  /\ IF skipTo # NoSkip /\ offset' <= skipTo
     THEN UNCHANGED <<decoder, skipTo, pending, pc>>
     ELSE /\ skipTo' = NoSkip
          /\ decoder' = Primed(decoder, Outcome)
          /\ pending' = pending \o RecordRows(idx, reader, Outcome, decoder)
          /\ pc' = AfterRows(pending')
  /\ UNCHANGED <<bound, idx, done, token>>

\* Mutant of ReadRecord: the record that ends at the checkpoint is read again.
ReadRecordAtCheckpoint ==
  /\ pc = "pulling" /\ reader # 0
  /\ Outcome.kind \in DataKinds
  /\ decoder' = Primed(decoder, Outcome)
  /\ offset' = Outcome.end
  /\ reader' = reader + 1
  /\ IF skipTo # NoSkip /\ offset' < skipTo
     THEN UNCHANGED <<skipTo, pending, pc>>
     ELSE /\ skipTo' = NoSkip
          /\ pending' = pending \o RecordRows(idx, reader, Outcome, decoder)
          /\ pc' = AfterRows(pending')
  /\ UNCHANGED <<bound, idx, done, token>>

\* next_record returned a record.  At or before the checkpoint its rows are
\* discarded, but the decoder is fed all the same.
ReadRecord ==
  /\ pc = "pulling" /\ reader # 0
  /\ Outcome.kind \in DataKinds
  /\ decoder' = Primed(decoder, Outcome)
  /\ offset' = Outcome.end
  /\ reader' = reader + 1
  /\ IF skipTo # NoSkip /\ offset' <= skipTo
     THEN UNCHANGED <<skipTo, pending, pc>>
     ELSE /\ skipTo' = NoSkip
          /\ pending' = pending \o RecordRows(idx, reader, Outcome, decoder)
          /\ pc' = AfterRows(pending')
  /\ UNCHANGED <<bound, idx, done, token>>

CleanEndOfSource ==
  /\ pc = "pulling" /\ reader # 0
  /\ Outcome.kind = "eof"
  /\ Advance
  /\ UNCHANGED <<bound, decoder, offset, done, pending, token, pc>>

StrictError ==
  /\ pc = "pulling" /\ reader # 0
  /\ Outcome.kind \in ErrorKinds
  /\ strict
  /\ pc' = "failed"
  /\ pending' = <<>>
  /\ UNCHANGED <<bound, fields, token>>

\* The consumed bytes count; the error row is emitted only past the checkpoint.
CaptureError ==
  /\ pc = "pulling" /\ reader # 0
  /\ Outcome.kind \in ErrorKinds
  /\ ~strict
  /\ offset' = Outcome.end
  /\ pending' = IF skipTo = NoSkip \/ offset' > skipTo
                THEN Append(pending, ErrorRow(idx, reader))
                ELSE pending
  /\ pc' = AfterRows(pending')
  /\ UNCHANGED <<bound, decoder, done, token>>

\* Mutant of RecoverableError: every error abandons the source.
RecoverableAbandons ==
  /\ CaptureError
  /\ Outcome.kind = "bad"
  /\ Advance

\* The body was consumed: the stream is aligned on the next record.
RecoverableError ==
  /\ CaptureError
  /\ Outcome.kind = "bad"
  /\ reader' = reader + 1
  /\ skipTo' = NoSkip
  /\ UNCHANGED idx

\* A short read: the source is abandoned.
TornError ==
  /\ CaptureError
  /\ Outcome.kind = "torn"
  /\ Advance

---------------------------------------------------------------------------
(* Returning a batch *)

\* The batch goes to the client; over http with the token of the position the
\* producer stopped at, and the producer itself is gone.
Emit ==
  /\ pc = "batch"
  /\ token' = IF transport = "http" THEN [idx |-> idx, offset |-> offset] ELSE token
  /\ pc' = "idle"
  /\ pending' = <<>>
  /\ UNCHANGED <<bound, fields>>

Pull ==
  \/ OpenCurrent \/ OpenFails \/ Exhausted
  \/ ReadRecord \/ CleanEndOfSource
  \/ StrictError \/ RecoverableError \/ TornError

Ended == pc \in {"finished", "failed"} /\ UNCHANGED vars

Next == Request \/ Pull \/ Emit \/ Ended

Spec == Init /\ [][Next]_vars

\* The SDK drains the scan: it asks again after every batch, and a call of
\* next_batch runs to its end.
FairSpec == Spec /\ WF_vars(Request \/ Pull \/ Emit)

---------------------------------------------------------------------------
(* Properties *)

\* Peer resolution stays correct across a batch boundary (reader.rs:12-13):
\* whatever was skipped, read, or reopened, the decoder holds exactly the view
\* and the peer table of the records before the one that is read next.
DecoderInSync == reader # 0 => decoder = DecoderAt(sources[idx], reader - 1)

\* A place between two records of a source, or the end of all of them.
OnBoundary(position) ==
  \/ position.idx = Len(sources) + 1
  \/ \E j \in 0 .. Len(sources[position.idx]) - 1 :
       position.offset = EndAt(sources[position.idx], j)

\* A checkpoint is only ever taken on a boundary (reader.rs:14-15).
CheckpointOnBoundary == token # NoToken => OnBoundary(token)

\* A checkpoint is taken on a boundary of the source it names in every strict
\* scan, and wherever no source is torn (reader.rs:14-15, 302-324).
CheckpointOnBoundaryUnlessTorn ==
  strict \/ ~Has(sources, {"torn"}) => CheckpointOnBoundary

\* One place of the scan comes before another.
PositionBefore(p, q) == p.idx < q.idx \/ (p.idx = q.idx /\ p.offset < q.offset)

\* Every response moves the checkpoint on, so that a scan cannot serve the
\* same stretch of a stream for ever.  A recoverable error that is read again
\* ends the fast-forward (reader.rs:287-289), hence the condition.
CheckpointAdvances ==
  [][transport = "http" /\ pc = "batch" /\ (strict \/ ~Has(sources, {"bad"}))
       => PositionBefore(token, token')]_vars

\* A scan ends, with all its rows or with an error.
Termination == <>(pc \in {"finished", "failed"})

\* Every scan ends in which no bad record can be read again (reader.rs:19-22,
\* 248-252): a strict one, one over stdio, one of sources without bad records.
TerminatesUnlessBad == strict \/ transport = "stdio" \/ ~Has(sources, {"bad"}) => Termination
=============================================================================
